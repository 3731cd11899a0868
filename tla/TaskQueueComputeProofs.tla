----------------------- MODULE TaskQueueComputeProofs -----------------------
(***************************************************************************)
(* TLAPS proofs about module TaskQueueCompute, for any finite set of       *)
(* workers, any items, any recordings with any numbers of tiles, and any   *)
(* initial pool.                                                           *)
(***************************************************************************)
EXTENDS TaskQueueCompute, FiniteSetTheorems, SequenceTheorems, TLAPS

----------------------------------------------------------------------------
(* The inductive invariant.                                                *)

\* What a drain call holds at each of its operations.
HoldPcs == {"generation", "register", "claim", "clear", "reset"} \cup Registered
LocalOK(w) ==
  /\ pc[w] \in HoldPcs => Held(w) \in Items
  /\ pc[w] \in {"begin", "store", "end"} => local[w].next \in Items \cup {None}
  /\ pc[w] \in {"reset", "finish"} => local[w].next \in Recordings
  /\ pc[w] \in {"close", "pop", "begin", "store", "end", "schedule", "promote_schedule"} =>
       local[w].result = "work"
  /\ pc[w] \in {"load", "generation", "register", "recheck", "processor", "promote",
                "promote_cas", "promote_store"} => local[w].result = "none"
LocalInv == \A w \in Workers : LocalOK(w)

\* The odd revision is a lock: one thread holds it.
Locks(w) == pc[w] \in {"store", "end", "promote_store", "promote_end"}
ProducerLocks == producer.at \in {"publish", "needs", "end_stored", "end_busy"}
LockInv ==
  /\ \A w \in Workers : Locks(w) => ~ProducerLocks /\ \A v \in Workers : Locks(v) => v = w
  /\ Updating <=> ProducerLocks \/ \E w \in Workers : Locks(w)

\* A thread whose snapshot of the revision is current knows that nobody
\* publishes, and that the item it saw is still the published one.
SnapshotOK(w) ==
  Seen(w) =>
    /\ pc[w] \in {"load", "generation", "register", "recheck", "promote_cas"} => ~Updating
    /\ pc[w] \in {"generation", "register", "recheck"} => current = Held(w)
    /\ pc[w] = "register" => local[w].gen = drainers[Held(w)].gen
SnapshotInv ==
  /\ \A w \in Workers : SnapshotOK(w)
  /\ Seen(Control) /\ producer.at = "cas" => ~Updating

\* A registered worker keeps the item from being released; the worker that
\* closed the current item replaces it; the one that claimed a closed item
\* releases it.
Closers == {"pop", "begin", "store"}
Releasers == {"clear", "reset"}
WorkerOK(w) ==
  /\ pc[w] \in Registered \ {"leave"} => ~drainers[Held(w)].claimed
  /\ pc[w] \in {"processor", "tile", "close"} =>
       operation[Held(w)] # None /\ (current = Held(w) \/ drainers[Held(w)].closed)
  /\ pc[w] \in Closers => current = Held(w) /\ drainers[Held(w)].closed
  /\ pc[w] \in Releasers =>
       drainers[Held(w)].claimed /\ local[w].gen = drainers[Held(w)].gen
  /\ pc[w] = "clear" => operation[Held(w)] # None
  /\ \A v \in Workers :
       /\ pc[w] \in Closers /\ pc[v] \in Closers => v = w
       /\ pc[w] \in Releasers /\ pc[v] \in Releasers /\ Held(v) = Held(w) => v = w
ItemOK(i) ==
  /\ drainers[i].claimed => drainers[i].closed
  /\ drainers[i].closed /\ ~drainers[i].claimed => operation[i] # None
  /\ current = i =>
       /\ operation[i] # None /\ ~drainers[i].claimed
       /\ drainers[i].closed => \E w \in Workers : pc[w] \in Closers /\ Held(w) = i
ItemInv == (\A w \in Workers : WorkerOK(w)) /\ (\A i \in Items : ItemOK(i))

\* The owners of an item.
IsFree(i) == i \in ToSet(free)
IsPending(i) == i \in ToSet(pending)
IsNext(i) == \E w \in Workers : local[w].next = i /\ pc[w] \in {"begin", "store"}
IsProduced(i) == producer.item = i
IsOpen(i) == current = i /\ ~drainers[i].closed
IsClosed(i) == drainers[i].closed
OwnerOK(i) ==
  /\ i \in allocated <=>
       IsFree(i) \/ IsPending(i) \/ IsNext(i) \/ IsProduced(i) \/ IsOpen(i) \/ IsClosed(i)
  /\ IsFree(i) => ~IsPending(i) /\ ~IsNext(i) /\ ~IsProduced(i) /\ ~IsOpen(i) /\ ~IsClosed(i)
  /\ IsPending(i) => ~IsNext(i) /\ ~IsProduced(i) /\ ~IsOpen(i) /\ ~IsClosed(i)
  /\ IsNext(i) => ~IsProduced(i) /\ ~IsOpen(i) /\ ~IsClosed(i)
  /\ IsProduced(i) => ~IsOpen(i) /\ ~IsClosed(i)
  /\ IsPending(i) \/ IsNext(i) \/ IsProduced(i) => operation[i] # None
OwnerInv ==
  /\ \A i \in Items : OwnerOK(i)
  /\ IsInjective(free) /\ IsInjective(pending)
  /\ producer.at \in {"check", "try", "cas", "publish", "end_busy", "push"} <=> producer.item # None

\* A closed recording has been executed.
TileInv ==
  /\ \A w \in Workers : pc[w] = "close" =>
       tiles[operation[Held(w)]] = 0 /\ Executing(Held(w)) = {}
  /\ \A i \in Items : drainers[i].closed /\ operation[i] # None =>
       tiles[operation[i]] = 0 /\ Executing(i) = {}

\* A recording is ready, attached to one item, or carried by one worker that
\* releases the item, and has not ended as long as it is.
Carries(w) == pc[w] \in {"reset", "finish"}
AttachInv ==
  /\ IsInjective(ready) /\ \A r \in ToSet(ready) : outcome[r] = None
  /\ \A i \in Items : operation[i] # None =>
       /\ outcome[operation[i]] = None /\ operation[i] \notin ToSet(ready)
       /\ \A j \in Items : operation[j] = operation[i] => j = i
  /\ \A w \in Workers : Carries(w) =>
       /\ outcome[local[w].next] = None /\ local[w].next \notin ToSet(ready)
       /\ tiles[local[w].next] = 0
       /\ \A i \in Items : operation[i] # local[w].next
       /\ \A v \in Workers : Carries(v) /\ local[v].next = local[w].next => v = w

\* The compute process is shut down after everything has ended.
PhaseInv ==
  /\ phase # "running" => producer.at = "idle" /\ OperationsEnded
  /\ terminal \/ slot = "released" => phase # "running"
  /\ slot = "idle" => Inside = {}
  /\ \A w \in Workers : local[w].result = "completed" => phase # "running"
  /\ \A w \in Workers : pc[w] = "release" => slot = "released" /\ Inside = {w}

\* Somebody will find what is published or pending.
Outstanding == current # None \/ pending # <<>>
Works(w) == pc[w] \in {"tile", "promote_store"} \/ (pc[w] # "out" /\ local[w].result = "work")
Fresh(w) ==
  \/ Seen(w) /\ pc[w] \in {"load", "generation", "register", "recheck", "promote_cas"}
  \/ pc[w] = "promote" /\ ~Updating
  \/ pc[w] = "processor"
Backed ==
  producer.at # "idle" \/ (slot = "placed" /\ needs) \/ \E w \in Workers : Works(w)
CoverInv ==
  Outstanding /\ phase = "running" =>
    /\ Backed \/ (slot = "placed" /\ Inside = {}) \/ \E w \in Workers : Fresh(w)
    /\ (\E w \in Workers : pc[w] = "promote_end") => Backed

Inv ==
  /\ TypeOK /\ LocalInv /\ ClaimsAreCounted /\ LockInv /\ SnapshotInv /\ ItemInv /\ OwnerInv
  /\ TileInv /\ AttachInv /\ OutcomeIsTrue /\ PhaseInv /\ CoverInv

----------------------------------------------------------------------------
(* Lists.                                                                  *)

\* Pushing onto a list adds one element.
LEMMA PushFacts ==
  ASSUME NEW S, NEW s \in Seq(S), NEW x \in S
  PROVE  /\ Push(s, x) \in Seq(S) /\ Push(s, x) # <<>>
         /\ ToSet(Push(s, x)) = ToSet(s) \cup {x}
         /\ IsInjective(s) /\ x \notin ToSet(s) => IsInjective(Push(s, x))
<1>1. /\ Push(s, x) \in Seq(S) /\ Len(Push(s, x)) = Len(s) + 1 /\ Len(s) \in Nat
      /\ \A k \in 1 .. Len(s) + 1 : Push(s, x)[k] = IF k = 1 THEN x ELSE s[k - 1]
  BY DEF Push
<1>2. DOMAIN s = 1 .. Len(s) /\ DOMAIN Push(s, x) = 1 .. Len(s) + 1
  BY <1>1
<1>3. Push(s, x) # <<>>
  BY <1>1
<1>4. ToSet(Push(s, x)) = ToSet(s) \cup {x}
  <2>1. ASSUME NEW y \in ToSet(Push(s, x)) PROVE y \in ToSet(s) \cup {x}
    <3>1. PICK k \in 1 .. Len(s) + 1 : Push(s, x)[k] = y
      BY <2>1, <1>2 DEF ToSet
    <3>2. CASE k = 1
      BY <3>1, <3>2, <1>1
    <3>3. CASE k # 1
      <4>1. k - 1 \in 1 .. Len(s) /\ s[k - 1] = y
        BY <3>1, <3>3, <1>1
      <4>. QED
        BY <4>1, <1>2 DEF ToSet
    <3>. QED
      BY <3>2, <3>3
  <2>2. ASSUME NEW y \in ToSet(s) PROVE y \in ToSet(Push(s, x))
    <3>1. PICK k \in 1 .. Len(s) : s[k] = y
      BY <2>2, <1>2 DEF ToSet
    <3>2. k + 1 \in 1 .. Len(s) + 1 /\ Push(s, x)[k + 1] = y
      BY <3>1, <1>1
    <3>. QED
      BY <3>2, <1>2 DEF ToSet
  <2>3. x \in ToSet(Push(s, x))
    <3>1. 1 \in 1 .. Len(s) + 1 /\ Push(s, x)[1] = x
      BY <1>1
    <3>. QED
      BY <3>1, <1>2 DEF ToSet
  <2>. QED
    BY <2>1, <2>2, <2>3
<1>5. ASSUME IsInjective(s), x \notin ToSet(s) PROVE IsInjective(Push(s, x))
  <2>1. \A k \in 1 .. Len(s) : s[k] # x
    BY <1>5, <1>2 DEF ToSet
  <2>2. \A j, k \in 1 .. Len(s) : s[j] = s[k] => j = k
    BY <1>5, <1>2 DEF IsInjective
  <2>3. ASSUME NEW j \in 1 .. Len(s) + 1, NEW k \in 1 .. Len(s) + 1,
               Push(s, x)[j] = Push(s, x)[k]
        PROVE  j = k
    <3>1. \A h \in 1 .. Len(s) + 1 : h # 1 => h - 1 \in 1 .. Len(s)
      BY <1>1
    <3>2. CASE j = 1 \/ k = 1
      BY <1>1, <2>1, <2>3, <3>1, <3>2
    <3>3. CASE j # 1 /\ k # 1
      <4>1. s[j - 1] = s[k - 1]
        BY <1>1, <2>3, <3>3
      <4>2. j - 1 = k - 1
        BY <2>2, <3>1, <3>3, <4>1
      <4>. QED
        BY <4>2
    <3>. QED
      BY <3>2, <3>3
  <2>. QED
    BY <2>3, <1>2 DEF IsInjective
<1>. QED
  BY <1>1, <1>3, <1>4, <1>5

LEMMA PushItem ==
  ASSUME NEW s \in Seq(Items), IsInjective(s), NEW i \in Items, i \notin ToSet(s)
  PROVE  /\ Push(s, i) \in Seq(Items) /\ IsInjective(Push(s, i))
         /\ ToSet(Push(s, i)) = ToSet(s) \cup {i} /\ Push(s, i) # <<>>
BY PushFacts

\* Popping takes the first element off.
LEMMA TailFacts ==
  ASSUME NEW S, NEW s \in Seq(S), s # <<>>
  PROVE  /\ Head(s) \in S /\ Tail(s) \in Seq(S)
         /\ Head(s) \in ToSet(s) /\ ToSet(Tail(s)) \subseteq ToSet(s)
         /\ ToSet(s) = ToSet(Tail(s)) \cup {Head(s)}
         /\ IsInjective(s) => IsInjective(Tail(s)) /\ Head(s) \notin ToSet(Tail(s))
<1>1. /\ Len(s) \in Nat /\ Len(s) > 0 /\ Head(s) = s[1] /\ Head(s) \in S
      /\ Tail(s) \in Seq(S) /\ Len(Tail(s)) = Len(s) - 1
      /\ \A k \in 1 .. Len(s) - 1 : Tail(s)[k] = s[k + 1]
  BY HeadTailProperties
<1>2. DOMAIN s = 1 .. Len(s) /\ DOMAIN Tail(s) = 1 .. Len(s) - 1
  BY <1>1
<1>3. Head(s) \in ToSet(s)
  <2>1. 1 \in 1 .. Len(s)
    BY <1>1
  <2>. QED
    BY <2>1, <1>1, <1>2 DEF ToSet
<1>4. ToSet(Tail(s)) \subseteq ToSet(s)
  <2>1. ASSUME NEW y \in ToSet(Tail(s)) PROVE y \in ToSet(s)
    <3>1. PICK k \in 1 .. Len(s) - 1 : Tail(s)[k] = y
      BY <2>1, <1>2 DEF ToSet
    <3>2. k + 1 \in 1 .. Len(s) /\ s[k + 1] = y
      BY <3>1, <1>1
    <3>. QED
      BY <3>2, <1>2 DEF ToSet
  <2>. QED
    BY <2>1
<1>5. ASSUME NEW y \in ToSet(s) PROVE y \in ToSet(Tail(s)) \cup {Head(s)}
  <2>1. PICK k \in 1 .. Len(s) : s[k] = y
    BY <1>5, <1>2 DEF ToSet
  <2>2. CASE k = 1
    BY <2>1, <2>2, <1>1
  <2>3. CASE k # 1
    <3>1. k - 1 \in 1 .. Len(s) - 1 /\ Tail(s)[k - 1] = y
      BY <2>1, <2>3, <1>1
    <3>. QED
      BY <3>1, <1>2 DEF ToSet
  <2>. QED
    BY <2>2, <2>3
<1>6. ASSUME IsInjective(s) PROVE IsInjective(Tail(s)) /\ Head(s) \notin ToSet(Tail(s))
  <2>1. \A j, k \in 1 .. Len(s) : s[j] = s[k] => j = k
    BY <1>6, <1>2 DEF IsInjective
  <2>2. ASSUME NEW j \in 1 .. Len(s) - 1, NEW k \in 1 .. Len(s) - 1, Tail(s)[j] = Tail(s)[k]
        PROVE  j = k
    <3>1. j + 1 \in 1 .. Len(s) /\ k + 1 \in 1 .. Len(s) /\ s[j + 1] = s[k + 1]
      BY <2>2, <1>1
    <3>. QED
      BY <3>1, <2>1
  <2>3. ASSUME NEW k \in 1 .. Len(s) - 1 PROVE Tail(s)[k] # Head(s)
    <3>1. k + 1 \in 1 .. Len(s) /\ 1 \in 1 .. Len(s) /\ k + 1 # 1
      BY <1>1
    <3>. QED
      BY <3>1, <1>1, <2>1
  <2>. QED
    BY <2>2, <2>3, <1>2 DEF IsInjective, ToSet
<1>. QED
  BY <1>1, <1>3, <1>4, <1>5, <1>6

\* The lists of items, popped.
LEMMA RestFacts ==
  ASSUME NEW s \in Seq(Items), IsInjective(s)
  PROVE  /\ Rest(s) \in Seq(Items) /\ IsInjective(Rest(s))
         /\ Popped(s) \in Items \cup {None}
         /\ Popped(s) = None <=> s = <<>>
         /\ ToSet(Rest(s)) = ToSet(s) \ {Popped(s)}
         /\ Popped(s) # None => Popped(s) \in ToSet(s)
<1>0. None \notin Items
  BY ComputeAssumption
<1>1. CASE s = <<>>
  <2>1. Rest(s) = s /\ Popped(s) = None
    BY <1>1 DEF Rest, Popped
  <2>2. DOMAIN s = {}
    BY <1>1
  <2>3. ToSet(s) = {}
    BY <2>2 DEF ToSet
  <2>. QED
    BY <1>1, <2>1, <2>3
<1>2. CASE s # <<>>
  <2>1. Rest(s) = Tail(s) /\ Popped(s) = Head(s)
    BY <1>2 DEF Rest, Popped
  <2>. QED
    BY <1>0, <1>2, <2>1, TailFacts
<1>. QED
  BY <1>1, <1>2

\* No element of a list without repetitions is counted twice.
LEMMA IndexCount ==
  ASSUME NEW s \in Seq(Items), IsInjective(s), NEW i \in Items
  PROVE  Cardinality({k \in 1 .. Len(s) : s[k] = i}) = IF i \in ToSet(s) THEN 1 ELSE 0
<1>1. DOMAIN s = 1 .. Len(s)
  OBVIOUS
<1>2. CASE i \in ToSet(s)
  <2>1. PICK k \in 1 .. Len(s) : s[k] = i
    BY <1>1, <1>2 DEF ToSet
  <2>2. {j \in 1 .. Len(s) : s[j] = i} = {k}
    BY <1>1, <2>1 DEF IsInjective
  <2>. QED
    BY <1>2, <2>2, FS_Singleton
<1>3. CASE i \notin ToSet(s)
  <2>1. {j \in 1 .. Len(s) : s[j] = i} = {}
    BY <1>1, <1>3 DEF ToSet
  <2>. QED
    BY <1>3, <2>1, FS_EmptySet
<1>. QED
  BY <1>2, <1>3

----------------------------------------------------------------------------
(* Steps.                                                                  *)

Locals == [item : Items \cup {None}, gen : Nat, next : Items \cup Recordings \cup {None},
           result : {"none", "active", "work", "completed"}]
Revisions == [updating : BOOLEAN, seen : SUBSET (Workers \cup {Control})]

LEMMA Constants ==
  /\ None \notin Items /\ None \notin Recordings /\ IsFiniteSet(Workers)
  /\ Control \notin Workers /\ None \notin Outcomes
  /\ Faulty \subseteq Recordings /\ Rejectable \subseteq Recordings
  /\ NoLocal \in Locals
BY ComputeAssumption DEF NoLocal, Locals

LEMMA NoLocalFacts ==
  /\ NoLocal.item = None /\ NoLocal.gen = 0 /\ NoLocal.next = None /\ NoLocal.result = "none"
  /\ NoProduct.at = "idle" /\ NoProduct.item = None
BY DEF NoLocal, NoProduct

\* A step of worker w moves nobody else.
LEMMA Moved ==
  ASSUME TypeOK, NEW w \in Workers, NEW at \in Pcs, NEW l \in Locals, Go(w, at, l)
  PROVE  /\ pc' \in [Workers -> Pcs] /\ local' \in [Workers -> Locals]
         /\ pc'[w] = at /\ local'[w] = l
         /\ \A v \in Workers : v # w => pc'[v] = pc[v] /\ local'[v] = local[v]
BY DEF TypeOK, Go, Locals

\* What the steps on the revision do to it.
LEMMA SeesFacts ==
  ASSUME TypeOK, NEW t \in Workers \cup {Control}, Sees(t)
  PROVE  /\ revision' \in Revisions /\ revision'.updating = revision.updating
         /\ \A x : x \in revision'.seen <=> x \in revision.seen \/ x = t
BY DEF TypeOK, Sees, Revisions

LEMMA ForgetsFacts ==
  ASSUME TypeOK, NEW t \in Workers, Forgets(t)
  PROVE  /\ revision' \in Revisions /\ revision'.updating = revision.updating
         /\ \A x : x \in revision'.seen <=> x \in revision.seen /\ x # t
BY DEF TypeOK, Forgets, Revisions

LEMMA EvenOdd ==
  /\ Even \in Revisions /\ Odd \in Revisions
  /\ Even.updating = FALSE /\ Odd.updating = TRUE /\ Even.seen = {} /\ Odd.seen = {}
BY DEF Even, Odd, Revisions

\* A step that leaves each part of the invariant as it is.
CountFrame ==
  /\ \A i \in Items : drainers'[i].count = drainers[i].count /\ drainers'[i].gen = drainers[i].gen
  /\ \A v \in Workers :
       /\ pc'[v] \in Registered <=> pc[v] \in Registered
       /\ pc[v] \in Registered =>
            local'[v].item = local[v].item /\ local'[v].gen = local[v].gen
LEMMA CountFramed ==
  ASSUME ClaimsAreCounted, CountFrame PROVE ClaimsAreCounted'
<1>1. ASSUME NEW i \in Items PROVE ClaimsOn(i)' = ClaimsOn(i)
  BY DEF ClaimsOn, CountFrame, Held
<1>2. ASSUME NEW i \in Items PROVE drainers'[i].count = Cardinality(ClaimsOn(i)')
  BY <1>1 DEF ClaimsAreCounted, CountFrame
<1>3. ASSUME NEW i \in Items, NEW w \in ClaimsOn(i)' PROVE drainers'[i].gen = local'[w].gen
  BY <1>1, <1>3 DEF ClaimsAreCounted, CountFrame, ClaimsOn
<1>. QED
  BY <1>2, <1>3 DEF ClaimsAreCounted

LockFrame ==
  /\ revision'.updating = revision.updating
  /\ ProducerLocks' <=> ProducerLocks
  /\ \A v \in Workers : Locks(v)' <=> Locks(v)
LEMMA LockFramed ==
  ASSUME LockInv, LockFrame PROVE LockInv'
BY DEF LockInv, LockFrame, Updating

OwnerFrame ==
  /\ UNCHANGED <<free, pending, current, allocated>>
  /\ producer'.item = producer.item
  /\ \A i \in Items : drainers'[i].closed = drainers[i].closed /\ operation'[i] = operation[i]
  /\ \A v \in Workers : pc'[v] \in {"begin", "store"} <=> pc[v] \in {"begin", "store"}
  /\ \A v \in Workers : pc[v] \in {"begin", "store"} => local'[v].next = local[v].next
  /\ producer'.at \in {"check", "try", "cas", "publish", "end_busy", "push"} <=>
     producer.at \in {"check", "try", "cas", "publish", "end_busy", "push"}
LEMMA OwnerFramed ==
  ASSUME OwnerInv, OwnerFrame PROVE OwnerInv'
<1>1. ASSUME NEW i \in Items
      PROVE /\ IsFree(i)' <=> IsFree(i)
            /\ IsPending(i)' <=> IsPending(i)
            /\ IsNext(i)' <=> IsNext(i)
            /\ IsProduced(i)' <=> IsProduced(i)
            /\ IsOpen(i)' <=> IsOpen(i)
            /\ IsClosed(i)' <=> IsClosed(i)
            /\ operation'[i] = operation[i] /\ allocated' = allocated
  BY DEF OwnerFrame, IsFree, IsPending, IsNext, IsProduced, IsOpen, IsClosed
<1>2. ASSUME NEW i \in Items PROVE OwnerOK(i)'
  BY <1>1 DEF OwnerInv, OwnerOK
<1>. QED
  BY <1>2 DEF OwnerInv, OwnerFrame

TileFrame ==
  /\ UNCHANGED <<operation, tiles>>
  /\ \A i \in Items : drainers'[i].closed => drainers[i].closed
  /\ \A v \in Workers : pc'[v] \in {"tile", "close"} => pc'[v] = pc[v] /\ local'[v].item = local[v].item
LEMMA TileFramed ==
  ASSUME TileInv, LocalInv, TileFrame PROVE TileInv'
<1>1. ASSUME NEW i \in Items PROVE Executing(i)' \subseteq Executing(i)
  BY DEF Executing, TileFrame, Held
<1>2. ASSUME NEW w \in Workers, pc'[w] = "close"
      PROVE  (tiles[operation[Held(w)]] = 0 /\ Executing(Held(w)) = {})'
  <2>1. pc[w] = "close" /\ local'[w].item = local[w].item
    BY <1>2 DEF TileFrame
  <2>2. local[w].item \in Items
    BY <2>1 DEF LocalInv, LocalOK, HoldPcs, Registered, Held
  <2>3. PICK i \in Items : i = local[w].item
    BY <2>2
  <2>4. Executing(i)' = {} /\ tiles[operation[i]] = 0
    BY <1>1, <2>1, <2>3 DEF TileInv, Held
  <2>5. Executing(Held(w))' = {}
    BY <2>1, <2>3, <2>4 DEF Executing, Held
  <2>. QED
    BY <2>1, <2>3, <2>4, <2>5 DEF TileFrame, Held
<1>3. ASSUME NEW i \in Items, drainers'[i].closed, operation'[i] # None
      PROVE  tiles'[operation'[i]] = 0 /\ Executing(i)' = {}
  BY <1>1, <1>3 DEF TileInv, TileFrame
<1>. QED
  BY <1>2, <1>3 DEF TileInv

AttachFrame ==
  /\ UNCHANGED <<ready, outcome, operation>>
  /\ \A r \in Recordings : tiles[r] = 0 => tiles'[r] = 0
  /\ \A v \in Workers :
       pc'[v] \in {"reset", "finish"} =>
         pc[v] \in {"reset", "finish"} /\ local'[v].next = local[v].next
LEMMA AttachFramed ==
  ASSUME AttachInv, LocalInv, AttachFrame PROVE AttachInv'
<1>1. ASSUME NEW w \in Workers, Carries(w)'
      PROVE  /\ Carries(w) /\ local'[w].next = local[w].next /\ local[w].next \in Recordings
             /\ tiles'[local[w].next] = 0
  BY <1>1 DEF AttachInv, AttachFrame, Carries, LocalInv, LocalOK
<1>. QED
  BY <1>1 DEF AttachInv, AttachFrame

LEMMA OutcomeFramed ==
  ASSUME OutcomeIsTrue, UNCHANGED <<outcome, error>>,
         \A r \in Recordings : tiles[r] = 0 => tiles'[r] = 0
  PROVE  OutcomeIsTrue'
BY DEF OutcomeIsTrue

\* A step of worker w from pc a changes neither the publication nor items.
ItemFrame ==
  /\ UNCHANGED <<current, operation>>
  /\ \A i \in Items : /\ drainers'[i].closed = drainers[i].closed
                      /\ drainers'[i].claimed = drainers[i].claimed
                      /\ drainers'[i].gen = drainers[i].gen
  /\ \A v \in Workers :
       /\ pc'[v] \in Closers <=> pc[v] \in Closers
       /\ pc[v] \in Closers => local'[v].item = local[v].item
       /\ pc'[v] \in Releasers => /\ pc[v] \in Releasers
                                  /\ local'[v].item = local[v].item
                                  /\ local'[v].gen = local[v].gen
LEMMA ItemFramed ==
  ASSUME ItemInv, LocalInv, ItemFrame,
         \A v \in Workers :
           /\ pc'[v] \in Registered \ {"leave"} =>
                local'[v].item \in Items /\ ~drainers[local'[v].item].claimed
           /\ pc'[v] \in {"processor", "tile", "close"} =>
                /\ operation[local'[v].item] # None
                /\ current = local'[v].item \/ drainers[local'[v].item].closed
           /\ pc'[v] = "clear" => pc[v] = "clear"
  PROVE  ItemInv'
<1>1. ASSUME NEW v \in Workers PROVE WorkerOK(v)'
  <2>0. \A u \in Workers : pc[u] \in Closers \cup Releasers => local[u].item \in Items
    BY DEF LocalInv, LocalOK, HoldPcs, Registered, Held, Closers, Releasers
  <2>1. pc'[v] \in Registered \ {"leave"} => ~drainers'[local'[v].item].claimed
    BY DEF ItemFrame
  <2>2. pc'[v] \in {"processor", "tile", "close"} =>
          /\ operation'[local'[v].item] # None
          /\ current' = local'[v].item \/ drainers'[local'[v].item].closed
    BY DEF ItemFrame, Registered
  <2>3. pc'[v] \in Closers => current' = local'[v].item /\ drainers'[local'[v].item].closed
    BY <2>0 DEF ItemFrame, ItemInv, WorkerOK, Held
  <2>4. pc'[v] \in Releasers =>
          drainers'[local'[v].item].claimed /\ local'[v].gen = drainers'[local'[v].item].gen
    BY <2>0 DEF ItemFrame, ItemInv, WorkerOK, Held
  <2>5. pc'[v] = "clear" => operation'[local'[v].item] # None
    BY DEF ItemFrame, ItemInv, WorkerOK, Held, Releasers
  <2>6. ASSUME NEW u \in Workers
        PROVE  /\ pc'[v] \in Closers /\ pc'[u] \in Closers => u = v
               /\ pc'[v] \in Releasers /\ pc'[u] \in Releasers /\ local'[u].item = local'[v].item => u = v
    BY DEF ItemFrame, ItemInv, WorkerOK, Held
  <2>. QED
    BY <2>1, <2>2, <2>3, <2>4, <2>5, <2>6 DEF WorkerOK, Held
<1>2. ASSUME NEW i \in Items PROVE ItemOK(i)'
  BY DEF ItemInv, ItemOK, ItemFrame, Held
<1>. QED
  BY <1>1, <1>2 DEF ItemInv

\* A step of worker w that stays inside and keeps what covers the others.
CoverFrame(w) ==
  /\ pc[w] # "out" /\ UNCHANGED <<phase, slot, needs, producer>>
  /\ Outstanding' => Outstanding
  /\ \A v \in Workers : v # w => pc'[v] = pc[v] /\ local'[v] = local[v]
  /\ \A v \in Workers : v # w => (Fresh(v) => Fresh(v)')
  /\ Works(w) => Works(w)'
  /\ Fresh(w) => Fresh(w)' \/ \E v \in Workers : Works(v)'
  /\ pc'[w] # "promote_end"
LEMMA CoverFramed ==
  ASSUME CoverInv, NEW w \in Workers, CoverFrame(w) PROVE CoverInv'
<1>. SUFFICES ASSUME Outstanding', phase' = "running"
     PROVE  /\ Backed' \/ (slot' = "placed" /\ Inside' = {}) \/ \E v \in Workers : Fresh(v)'
            /\ (\E v \in Workers : pc'[v] = "promote_end") => Backed'
  BY DEF CoverInv
<1>1. Outstanding /\ phase = "running"
  BY DEF CoverFrame
<1>2. ASSUME Backed PROVE Backed'
  <2>1. CASE \E v \in Workers : Works(v)
    <3>1. PICK v \in Workers : Works(v)
      BY <2>1
    <3>2. Works(v)'
      BY <3>1 DEF CoverFrame, Works
    <3>. QED
      BY <3>2 DEF Backed
  <2>. QED
    BY <1>2, <2>1 DEF Backed, CoverFrame
<1>3. Inside # {}
  BY DEF Inside, CoverFrame
<1>4. Backed \/ \E v \in Workers : Fresh(v)
  BY <1>1, <1>3 DEF CoverInv
<1>5. ASSUME NEW v \in Workers, Fresh(v) PROVE Backed' \/ \E u \in Workers : Fresh(u)'
  <2>1. Fresh(v)' \/ \E u \in Workers : Works(u)'
    BY <1>5 DEF CoverFrame
  <2>. QED
    BY <2>1 DEF Backed
<1>6. (\E v \in Workers : pc'[v] = "promote_end") => Backed'
  BY <1>1, <1>2 DEF CoverInv, CoverFrame
<1>. QED
  BY <1>2, <1>4, <1>5, <1>6

\* Nothing else is needed as long as somebody works.
LEMMA BackedCovers == Backed' => CoverInv'
BY DEF CoverInv

\* When the shutdown has begun nothing is attached, published or pending.
LEMMA Settled ==
  ASSUME TypeOK, ItemInv, OwnerInv, AttachInv, PhaseInv, phase # "running"
  PROVE  /\ \A i \in Items : operation[i] = None
         /\ current = None /\ pending = <<>> /\ Attached = {} /\ ToSet(ready) = {}
<1>1. \A r \in Recordings : outcome[r] # None
  BY DEF PhaseInv, OperationsEnded
<1>2. ASSUME NEW i \in Items PROVE operation[i] = None
  BY <1>1 DEF AttachInv, TypeOK
<1>3. current = None
  BY <1>2 DEF ItemInv, ItemOK, TypeOK
<1>4. ASSUME pending # <<>> PROVE FALSE
  <2>1. pending \in Seq(Items)
    BY DEF TypeOK
  <2>2. Head(pending) \in Items /\ Head(pending) \in ToSet(pending)
    BY <1>4, <2>1, TailFacts
  <2>. QED
    BY <1>2, <2>2 DEF OwnerInv, OwnerOK, IsPending
<1>5. Attached = {}
  BY <1>2 DEF Attached, TypeOK
<1>6. ASSUME NEW r \in ToSet(ready) PROVE FALSE
  <2>1. ready \in Seq(Recordings)
    BY DEF TypeOK
  <2>2. r \in Recordings
    BY <2>1 DEF ToSet
  <2>. QED
    BY <1>1, <1>6, <2>2 DEF AttachInv
<1>. QED
  BY <1>2, <1>3, <1>4, <1>5, <1>6

----------------------------------------------------------------------------
(* Loading and registering.  From here on, one lemma per action: a step of *)
(* it keeps the invariant, part by part.                                   *)

LEMMA LoadCurrentKeeps ==
  ASSUME Inv, NEW w \in Workers, LoadCurrent(w) PROVE Inv'
<1>0. /\ TypeOK /\ LocalInv /\ ClaimsAreCounted /\ LockInv /\ SnapshotInv /\ ItemInv
      /\ OwnerInv /\ TileInv /\ AttachInv /\ OutcomeIsTrue /\ PhaseInv /\ CoverInv
  BY DEF Inv
<1>1. PICK at \in {"promote", "generation"}, l \in Locals :
        /\ Go(w, at, l) /\ pc[w] = "load"
        /\ l.gen = local[w].gen /\ l.next = local[w].next /\ l.result = local[w].result
        /\ at = "promote" => current = None /\ l = local[w]
        /\ at = "generation" => current \in Items /\ l.item = current
        /\ UNCHANGED <<revision, current, ready, pending, free, allocated, drainers, operation,
                       tiles, error, outcome, phase, slot, needs, terminal, producer>>
  <2>1. local[w] \in Locals /\ current \in Items \cup {None}
    BY <1>0 DEF TypeOK, Locals
  <2>2. CASE current = None
    BY <2>1, <2>2 DEF LoadCurrent, queueVars, listVars, itemVars, slotVars
  <2>3. CASE current # None
    <3>1. PICK l \in Locals : l = [local[w] EXCEPT !.item = current]
      BY <2>1 DEF Locals
    <3>. QED
      BY <2>1, <2>3, <3>1 DEF LoadCurrent, Locals, queueVars, listVars, itemVars, slotVars
  <2>. QED
    BY <2>2, <2>3
<1>2. /\ pc' \in [Workers -> Pcs] /\ local' \in [Workers -> Locals]
      /\ pc'[w] = at /\ local'[w] = l
      /\ \A v \in Workers : v # w => pc'[v] = pc[v] /\ local'[v] = local[v]
  <2>1. at \in Pcs
    BY <1>1 DEF Pcs
  <2>. QED
    BY <1>0, <1>1, <2>1, Moved
<1>3. TypeOK'
  BY <1>0, <1>1, <1>2 DEF TypeOK, Locals, Revisions
<1>4. LocalInv'
  <2>. SUFFICES ASSUME NEW v \in Workers PROVE LocalOK(v)'
    BY DEF LocalInv
  <2>1. CASE v = w
    BY <1>0, <1>1, <1>2, <2>1 DEF LocalInv, LocalOK, HoldPcs, Registered, Held
  <2>2. CASE v # w
    BY <1>0, <1>1, <1>2, <2>2 DEF LocalInv, LocalOK, Held
  <2>. QED
    BY <2>1, <2>2
<1>5. ClaimsAreCounted'
  <2>1. CountFrame
    BY <1>0, <1>1, <1>2 DEF CountFrame, Registered
  <2>. QED
    BY <1>0, <2>1, CountFramed
<1>6. LockInv'
  <2>1. LockFrame
    BY <1>0, <1>1, <1>2 DEF LockFrame, Locks, ProducerLocks
  <2>. QED
    BY <1>0, <2>1, LockFramed
<1>7. SnapshotInv'
  <2>1. SnapshotOK(w)'
    BY <1>0, <1>1, <1>2 DEF SnapshotInv, SnapshotOK, Seen, Updating, Held
  <2>2. ASSUME NEW v \in Workers, v # w PROVE SnapshotOK(v)'
    <3>1. SnapshotOK(v) /\ pc'[v] = pc[v] /\ local'[v] = local[v]
      BY <1>0, <1>1, <1>2, <2>2 DEF SnapshotInv
    <3>2. pc[v] = "register" => local[v].item \in Items
      BY <1>0 DEF LocalInv, LocalOK, HoldPcs, Held
    <3>. QED
      BY <1>0, <1>1, <1>2, <3>1, <3>2, <2>2 DEF SnapshotOK, Seen, Updating, Held
  <2>3. Seen(Control)' /\ producer'.at = "cas" => ~Updating'
    BY <1>0, <1>1, <1>2, Constants DEF SnapshotInv, Seen, Updating
  <2>. QED
    BY <2>1, <2>2, <2>3 DEF SnapshotInv
<1>8. ItemInv'
  <2>1. ItemFrame
    BY <1>0, <1>1, <1>2 DEF ItemFrame, Closers, Releasers
  <2>2. ASSUME NEW v \in Workers
        PROVE  /\ pc'[v] \in Registered \ {"leave"} =>
                    local'[v].item \in Items /\ ~drainers[local'[v].item].claimed
               /\ pc'[v] \in {"processor", "tile", "close"} =>
                    /\ operation[local'[v].item] # None
                    /\ current = local'[v].item \/ drainers[local'[v].item].closed
               /\ pc'[v] = "clear" => pc[v] = "clear"
    <3>1. LocalOK(v) /\ WorkerOK(v)
      BY <1>0 DEF LocalInv, ItemInv
    <3>2. CASE v = w
      BY <1>0, <1>1, <1>2, <3>1, <3>2 DEF WorkerOK, LocalOK, HoldPcs, Registered, Held
    <3>3. CASE v # w
      BY <1>0, <1>1, <1>2, <3>1, <3>3 DEF WorkerOK, LocalOK, HoldPcs, Held
    <3>. QED
      BY <3>2, <3>3
  <2>. QED
    BY <1>0, <2>1, <2>2, ItemFramed
<1>9. OwnerInv'
  <2>1. OwnerFrame
    BY <1>0, <1>1, <1>2 DEF OwnerFrame
  <2>. QED
    BY <1>0, <2>1, OwnerFramed
<1>10. TileInv'
  <2>1. TileFrame
    BY <1>0, <1>1, <1>2 DEF TileFrame
  <2>. QED
    BY <1>0, <2>1, TileFramed
<1>11. AttachInv'
  <2>1. AttachFrame
    BY <1>0, <1>1, <1>2 DEF AttachFrame
  <2>. QED
    BY <1>0, <2>1, AttachFramed
<1>12. OutcomeIsTrue'
  BY <1>0, <1>1, <1>2, OutcomeFramed
<1>13. PhaseInv'
  <2>1. Inside' = Inside /\ w \in Inside
    BY <1>0, <1>1, <1>2 DEF Inside
  <2>2. \A v \in Workers : pc[v] # "release" /\ pc'[v] # "release"
    BY <1>0, <1>1, <1>2, <2>1 DEF PhaseInv
  <2>3. (phase # "running" => producer.at = "idle" /\ OperationsEnded)'
    BY <1>0, <1>1, <1>2 DEF PhaseInv, OperationsEnded
  <2>4. (terminal \/ slot = "released" => phase # "running")'
    BY <1>0, <1>1, <1>2 DEF PhaseInv
  <2>5. \A v \in Workers : local'[v].result = "completed" => phase' # "running"
    BY <1>0, <1>1, <1>2 DEF PhaseInv
  <2>6. slot' # "idle"
    BY <1>0, <1>1, <1>2, <2>1 DEF PhaseInv
  <2>. QED
    BY <2>1, <2>2, <2>3, <2>4, <2>5, <2>6 DEF PhaseInv
<1>14. CoverInv'
  <2>1. CoverFrame(w)
    BY <1>0, <1>1, <1>2
    DEF CoverFrame, Outstanding, Fresh, Works, Seen, Updating, SnapshotInv, SnapshotOK
  <2>. QED
    BY <1>0, <2>1, CoverFramed
<1>. QED
  BY <1>3, <1>4, <1>5, <1>6, <1>7, <1>8, <1>9, <1>10, <1>11, <1>12, <1>13, <1>14 DEF Inv

LEMMA ReadGenerationKeeps ==
  ASSUME Inv, NEW w \in Workers, ReadGeneration(w) PROVE Inv'
<1>0. /\ TypeOK /\ LocalInv /\ ClaimsAreCounted /\ LockInv /\ SnapshotInv /\ ItemInv
      /\ OwnerInv /\ TileInv /\ AttachInv /\ OutcomeIsTrue /\ PhaseInv /\ CoverInv
  BY DEF Inv
<1>1. PICK at \in {"register"}, l \in Locals :
        /\ Go(w, at, l) /\ pc[w] = "generation" /\ l.item \in Items
        /\ l.item = local[w].item /\ l.next = local[w].next /\ l.result = local[w].result
        /\ l.gen = drainers[local[w].item].gen
        /\ UNCHANGED <<revision, current, ready, pending, free, allocated, drainers, operation,
                       tiles, error, outcome, phase, slot, needs, terminal, producer>>
  <2>1. local[w] \in Locals /\ drainers \in [Items -> Tag]
    BY <1>0 DEF TypeOK, Locals
  <2>2. pc[w] = "generation" /\ local[w].item \in Items
    BY <1>0 DEF ReadGeneration, LocalInv, LocalOK, HoldPcs, Held
  <2>3. PICK l \in Locals : l = [local[w] EXCEPT !.gen = drainers[local[w].item].gen]
    BY <2>1, <2>2 DEF Locals, Tag
  <2>. QED
    BY <2>1, <2>2, <2>3 DEF ReadGeneration, Held, Locals, queueVars, listVars, itemVars, slotVars
<1>2. /\ pc' \in [Workers -> Pcs] /\ local' \in [Workers -> Locals]
      /\ pc'[w] = at /\ local'[w] = l
      /\ \A v \in Workers : v # w => pc'[v] = pc[v] /\ local'[v] = local[v]
  <2>1. at \in Pcs
    BY <1>1 DEF Pcs
  <2>. QED
    BY <1>0, <1>1, <2>1, Moved
<1>3. TypeOK'
  BY <1>0, <1>1, <1>2 DEF TypeOK, Locals, Revisions
<1>4. LocalInv'
  <2>. SUFFICES ASSUME NEW v \in Workers PROVE LocalOK(v)'
    BY DEF LocalInv
  <2>1. CASE v = w
    BY <1>0, <1>1, <1>2, <2>1 DEF LocalInv, LocalOK, HoldPcs, Registered, Held
  <2>2. CASE v # w
    BY <1>0, <1>1, <1>2, <2>2 DEF LocalInv, LocalOK, Held
  <2>. QED
    BY <2>1, <2>2
<1>5. ClaimsAreCounted'
  <2>1. CountFrame
    BY <1>0, <1>1, <1>2 DEF CountFrame, Registered
  <2>. QED
    BY <1>0, <2>1, CountFramed
<1>6. LockInv'
  <2>1. LockFrame
    BY <1>0, <1>1, <1>2 DEF LockFrame, Locks, ProducerLocks
  <2>. QED
    BY <1>0, <2>1, LockFramed
<1>7. SnapshotInv'
  <2>1. SnapshotOK(w)'
    BY <1>0, <1>1, <1>2 DEF SnapshotInv, SnapshotOK, Seen, Updating, Held
  <2>2. ASSUME NEW v \in Workers, v # w PROVE SnapshotOK(v)'
    <3>1. SnapshotOK(v) /\ pc'[v] = pc[v] /\ local'[v] = local[v]
      BY <1>0, <1>1, <1>2, <2>2 DEF SnapshotInv
    <3>2. pc[v] = "register" => local[v].item \in Items
      BY <1>0 DEF LocalInv, LocalOK, HoldPcs, Held
    <3>. QED
      BY <1>0, <1>1, <1>2, <3>1, <3>2, <2>2 DEF SnapshotOK, Seen, Updating, Held
  <2>3. Seen(Control)' /\ producer'.at = "cas" => ~Updating'
    BY <1>0, <1>1, <1>2, Constants DEF SnapshotInv, Seen, Updating
  <2>. QED
    BY <2>1, <2>2, <2>3 DEF SnapshotInv
<1>8. ItemInv'
  <2>1. ItemFrame
    BY <1>0, <1>1, <1>2 DEF ItemFrame, Closers, Releasers
  <2>2. ASSUME NEW v \in Workers
        PROVE  /\ pc'[v] \in Registered \ {"leave"} =>
                    local'[v].item \in Items /\ ~drainers[local'[v].item].claimed
               /\ pc'[v] \in {"processor", "tile", "close"} =>
                    /\ operation[local'[v].item] # None
                    /\ current = local'[v].item \/ drainers[local'[v].item].closed
               /\ pc'[v] = "clear" => pc[v] = "clear"
    <3>1. LocalOK(v) /\ WorkerOK(v)
      BY <1>0 DEF LocalInv, ItemInv
    <3>2. CASE v = w
      BY <1>0, <1>1, <1>2, <3>1, <3>2 DEF WorkerOK, LocalOK, HoldPcs, Registered, Held
    <3>3. CASE v # w
      BY <1>0, <1>1, <1>2, <3>1, <3>3 DEF WorkerOK, LocalOK, HoldPcs, Held
    <3>. QED
      BY <3>2, <3>3
  <2>. QED
    BY <1>0, <2>1, <2>2, ItemFramed
<1>9. OwnerInv'
  <2>1. OwnerFrame
    BY <1>0, <1>1, <1>2 DEF OwnerFrame
  <2>. QED
    BY <1>0, <2>1, OwnerFramed
<1>10. TileInv'
  <2>1. TileFrame
    BY <1>0, <1>1, <1>2 DEF TileFrame
  <2>. QED
    BY <1>0, <2>1, TileFramed
<1>11. AttachInv'
  <2>1. AttachFrame
    BY <1>0, <1>1, <1>2 DEF AttachFrame
  <2>. QED
    BY <1>0, <2>1, AttachFramed
<1>12. OutcomeIsTrue'
  BY <1>0, <1>1, <1>2, OutcomeFramed
<1>13. PhaseInv'
  <2>1. Inside' = Inside /\ w \in Inside
    BY <1>0, <1>1, <1>2 DEF Inside
  <2>2. \A v \in Workers : pc[v] # "release" /\ pc'[v] # "release"
    BY <1>0, <1>1, <1>2, <2>1 DEF PhaseInv
  <2>3. (phase # "running" => producer.at = "idle" /\ OperationsEnded)'
    BY <1>0, <1>1, <1>2 DEF PhaseInv, OperationsEnded
  <2>4. (terminal \/ slot = "released" => phase # "running")'
    BY <1>0, <1>1, <1>2 DEF PhaseInv
  <2>5. \A v \in Workers : local'[v].result = "completed" => phase' # "running"
    BY <1>0, <1>1, <1>2 DEF PhaseInv
  <2>6. slot' # "idle"
    BY <1>0, <1>1, <1>2, <2>1 DEF PhaseInv
  <2>. QED
    BY <2>1, <2>2, <2>3, <2>4, <2>5, <2>6 DEF PhaseInv
<1>14. CoverInv'
  <2>1. CoverFrame(w)
    BY <1>0, <1>1, <1>2 DEF CoverFrame, Outstanding, Fresh, Works, Seen, Updating
  <2>. QED
    BY <1>0, <2>1, CoverFramed
<1>. QED
  BY <1>3, <1>4, <1>5, <1>6, <1>7, <1>8, <1>9, <1>10, <1>11, <1>12, <1>13, <1>14 DEF Inv

LEMMA EnterKeeps ==
  ASSUME Inv, NEW w \in Workers, Enter(w) PROVE Inv'
<1>0. /\ TypeOK /\ LocalInv /\ ClaimsAreCounted /\ LockInv /\ SnapshotInv /\ ItemInv
      /\ OwnerInv /\ TileInv /\ AttachInv /\ OutcomeIsTrue /\ PhaseInv /\ CoverInv
  BY DEF Inv
<1>1. PICK at \in {"return", "load"}, l \in Locals :
        /\ Go(w, at, l) /\ pc[w] = "out" /\ slot = "placed" /\ ~terminal
        /\ l.item = None /\ l.gen = 0 /\ l.next = None
        /\ \/ l.result = "completed" /\ phase = "compute" /\ at = "return"
           \/ l.result = "none" /\ phase # "compute" /\ revision.updating = (at = "return")
        /\ revision' \in Revisions /\ revision'.updating = revision.updating
        /\ \A x : x \in revision'.seen <=> x \in revision.seen \/ (x = w /\ at = "load")
        /\ UNCHANGED <<current, ready, pending, free, allocated, drainers, operation, tiles,
                       error, outcome, phase, slot, needs, terminal, producer>>
  <2>0. revision \in Revisions /\ NoLocal \in Locals
    BY <1>0, Constants DEF TypeOK, Revisions
  <2>1. PICK l \in Locals : l = [NoLocal EXCEPT !.result = "completed"]
    BY <2>0 DEF Locals
  <2>2. l.item = None /\ l.gen = 0 /\ l.next = None /\ l.result = "completed"
    BY <2>1, NoLocalFacts DEF NoLocal
  <2>3. CASE phase = "compute"
    BY <2>0, <2>1, <2>2, <2>3 DEF Enter, queueVars, listVars, itemVars, slotVars
  <2>4. CASE phase # "compute" /\ Updating
    BY <2>0, <2>4, NoLocalFacts DEF Enter, Updating, queueVars, listVars, itemVars, slotVars
  <2>5. CASE phase # "compute" /\ ~Updating
    <3>1. Sees(w) /\ Go(w, "load", NoLocal)
      BY <2>5 DEF Enter
    <3>2. revision.updating = FALSE
      BY <2>0, <2>5 DEF Updating, Revisions
    <3>3. /\ revision' \in Revisions /\ revision'.updating = revision.updating
          /\ \A x : x \in revision'.seen <=> x \in revision.seen \/ x = w
      BY <1>0, <3>1, SeesFacts
    <3>4. /\ pc[w] = "out" /\ slot = "placed" /\ ~terminal
          /\ UNCHANGED <<current, ready, pending, free, allocated, drainers, operation, tiles,
                         error, outcome, phase, slot, needs, terminal, producer>>
      BY DEF Enter, queueVars, listVars, itemVars, slotVars
    <3>5. "load" \in {"return", "load"} /\ revision.updating = ("load" = "return")
      BY <3>2
    <3>. QED
      BY <2>0, <2>5, <3>1, <3>3, <3>4, <3>5, NoLocalFacts
  <2>. QED
    BY <2>3, <2>4, <2>5
<1>2. /\ pc' \in [Workers -> Pcs] /\ local' \in [Workers -> Locals]
      /\ pc'[w] = at /\ local'[w] = l
      /\ \A v \in Workers : v # w => pc'[v] = pc[v] /\ local'[v] = local[v]
  <2>1. at \in Pcs
    BY <1>1 DEF Pcs
  <2>. QED
    BY <1>0, <1>1, <2>1, Moved
<1>3. TypeOK'
  BY <1>0, <1>1, <1>2 DEF TypeOK, Locals, Revisions
<1>4. LocalInv'
  <2>. SUFFICES ASSUME NEW v \in Workers PROVE LocalOK(v)'
    BY DEF LocalInv
  <2>1. CASE v = w
    BY <1>0, <1>1, <1>2, <2>1 DEF LocalInv, LocalOK, HoldPcs, Registered, Held
  <2>2. CASE v # w
    BY <1>0, <1>1, <1>2, <2>2 DEF LocalInv, LocalOK, Held
  <2>. QED
    BY <2>1, <2>2
<1>5. ClaimsAreCounted'
  <2>1. CountFrame
    BY <1>0, <1>1, <1>2 DEF CountFrame, Registered
  <2>. QED
    BY <1>0, <2>1, CountFramed
<1>6. LockInv'
  <2>1. LockFrame
    BY <1>0, <1>1, <1>2 DEF LockFrame, Locks, ProducerLocks
  <2>. QED
    BY <1>0, <2>1, LockFramed
<1>7. SnapshotInv'
  <2>1. SnapshotOK(w)'
    BY <1>0, <1>1, <1>2 DEF SnapshotInv, SnapshotOK, Seen, Updating, Held
  <2>2. ASSUME NEW v \in Workers, v # w PROVE SnapshotOK(v)'
    <3>1. SnapshotOK(v) /\ pc'[v] = pc[v] /\ local'[v] = local[v]
      BY <1>0, <1>1, <1>2, <2>2 DEF SnapshotInv
    <3>2. pc[v] = "register" => local[v].item \in Items
      BY <1>0 DEF LocalInv, LocalOK, HoldPcs, Held
    <3>. QED
      BY <1>0, <1>1, <1>2, <3>1, <3>2, <2>2 DEF SnapshotOK, Seen, Updating, Held
  <2>3. Seen(Control)' /\ producer'.at = "cas" => ~Updating'
    BY <1>0, <1>1, <1>2, Constants DEF SnapshotInv, Seen, Updating
  <2>. QED
    BY <2>1, <2>2, <2>3 DEF SnapshotInv
<1>8. ItemInv'
  <2>1. ItemFrame
    BY <1>0, <1>1, <1>2 DEF ItemFrame, Closers, Releasers
  <2>2. ASSUME NEW v \in Workers
        PROVE  /\ pc'[v] \in Registered \ {"leave"} =>
                    local'[v].item \in Items /\ ~drainers[local'[v].item].claimed
               /\ pc'[v] \in {"processor", "tile", "close"} =>
                    /\ operation[local'[v].item] # None
                    /\ current = local'[v].item \/ drainers[local'[v].item].closed
               /\ pc'[v] = "clear" => pc[v] = "clear"
    <3>1. LocalOK(v) /\ WorkerOK(v)
      BY <1>0 DEF LocalInv, ItemInv
    <3>2. CASE v = w
      BY <1>0, <1>1, <1>2, <3>1, <3>2 DEF WorkerOK, LocalOK, HoldPcs, Registered, Held
    <3>3. CASE v # w
      BY <1>0, <1>1, <1>2, <3>1, <3>3 DEF WorkerOK, LocalOK, HoldPcs, Held
    <3>. QED
      BY <3>2, <3>3
  <2>. QED
    BY <1>0, <2>1, <2>2, ItemFramed
<1>9. OwnerInv'
  <2>1. OwnerFrame
    BY <1>0, <1>1, <1>2 DEF OwnerFrame
  <2>. QED
    BY <1>0, <2>1, OwnerFramed
<1>10. TileInv'
  <2>1. TileFrame
    BY <1>0, <1>1, <1>2 DEF TileFrame
  <2>. QED
    BY <1>0, <2>1, TileFramed
<1>11. AttachInv'
  <2>1. AttachFrame
    BY <1>0, <1>1, <1>2 DEF AttachFrame
  <2>. QED
    BY <1>0, <2>1, AttachFramed
<1>12. OutcomeIsTrue'
  BY <1>0, <1>1, <1>2, OutcomeFramed
<1>13. PhaseInv'
  <2>1. \A v \in Workers : pc[v] # "release" /\ pc'[v] # "release"
    BY <1>0, <1>1, <1>2 DEF PhaseInv
  <2>. QED
    BY <1>0, <1>1, <1>2, <2>1 DEF PhaseInv, OperationsEnded
<1>14. CoverInv'
  <2>. SUFFICES ASSUME Outstanding', phase' = "running"
       PROVE  /\ Backed' \/ (slot' = "placed" /\ Inside' = {}) \/ \E v \in Workers : Fresh(v)'
              /\ (\E v \in Workers : pc'[v] = "promote_end") => Backed'
    BY DEF CoverInv
  <2>1. Outstanding /\ phase = "running" /\ slot' = slot /\ needs' = needs /\ producer' = producer
    BY <1>0, <1>1, <1>2 DEF Outstanding
  <2>2. ASSUME NEW v \in Workers, v # w
        PROVE  /\ Works(v) => Works(v)'
               /\ Fresh(v) => Fresh(v)'
    BY <1>0, <1>1, <1>2, <2>2 DEF Works, Fresh, Seen, Updating
  <2>3. ~Works(w) /\ ~Fresh(w)
    BY <1>0, <1>1, <1>2 DEF Works, Fresh
  <2>4. Backed => Backed'
    BY <2>1, <2>2, <2>3 DEF Backed
  <2>5. CASE Inside = {}
    <3>1. \A v \in Workers : ~Locks(v)
      BY <2>5 DEF Inside, Locks
    <3>2. Updating => producer.at # "idle"
      BY <1>0, <3>1 DEF LockInv, ProducerLocks
    <3>3. CASE Updating
      BY <2>1, <3>2, <3>3 DEF Backed
    <3>4. CASE ~Updating
      <4>1. at = "load"
        BY <1>1, <2>1, <3>4 DEF Updating
      <4>2. Fresh(w)'
        BY <1>0, <1>1, <1>2, <4>1 DEF Fresh, Seen
      <4>3. \A v \in Workers : pc'[v] # "promote_end"
        BY <1>0, <1>1, <1>2, <2>5 DEF Inside
      <4>. QED
        BY <4>2, <4>3
    <3>. QED
      BY <3>3, <3>4
  <2>6. CASE Inside # {}
    <3>1. Backed \/ \E v \in Workers : Fresh(v)
      BY <1>0, <2>1, <2>6 DEF CoverInv
    <3>2. (\E v \in Workers : pc'[v] = "promote_end") => Backed
      BY <1>0, <1>1, <1>2, <2>1 DEF CoverInv
    <3>. QED
      BY <2>2, <2>3, <2>4, <3>1, <3>2
  <2>. QED
    BY <2>5, <2>6
<1>. QED
  BY <1>3, <1>4, <1>5, <1>6, <1>7, <1>8, <1>9, <1>10, <1>11, <1>12, <1>13, <1>14 DEF Inv

LEMMA RegisterKeeps ==
  ASSUME Inv, NEW w \in Workers, Register(w) PROVE Inv'
<1>0. /\ TypeOK /\ LocalInv /\ ClaimsAreCounted /\ LockInv /\ SnapshotInv /\ ItemInv
      /\ OwnerInv /\ TileInv /\ AttachInv /\ OutcomeIsTrue /\ PhaseInv /\ CoverInv
  BY DEF Inv
<1>. DEFINE h == local[w].item
<1>h. /\ h \in Items /\ drainers \in [Items -> Tag] /\ drainers[h] \in Tag
      /\ local[w] \in Locals /\ pc[w] = "register" /\ ClaimsOn(h) \subseteq Workers
      /\ LocalOK(w) /\ WorkerOK(w) /\ ItemOK(h)
  <2>1. pc[w] = "register" /\ h \in Items
    BY <1>0 DEF Register, LocalInv, LocalOK, HoldPcs, Registered, Held
  <2>. QED
    BY <1>0, <2>1 DEF TypeOK, Locals, ClaimsOn, LocalInv, ItemInv
<1>1. PICK at \in {"leave", "recheck"}, l \in Locals :
        /\ Go(w, at, l) /\ l.item = h /\ l.gen = drainers[h].gen /\ l.next = local[w].next
        /\ \/ /\ at = "leave" /\ l.result = "active"
              /\ drainers[h].gen # local[w].gen \/ drainers[h].closed
           \/ /\ at = "recheck" /\ l.result = "none"
              /\ drainers[h].gen = local[w].gen /\ ~drainers[h].closed
        /\ drainers' \in [Items -> Tag] /\ \A i \in Items : i # h => drainers'[i] = drainers[i]
        /\ drainers'[h].gen = drainers[h].gen
        /\ drainers'[h].count = drainers[h].count + 1
        /\ drainers'[h].closed = drainers[h].closed /\ drainers'[h].claimed = drainers[h].claimed
        /\ UNCHANGED <<revision, current, ready, pending, free, allocated, operation, tiles,
                       error, outcome, phase, slot, needs, terminal, producer>>
  <2>1. drainers' = [drainers EXCEPT ![h].count = @ + 1]
    BY DEF Register, Held
  <2>2. /\ drainers' \in [Items -> Tag] /\ \A i \in Items : i # h => drainers'[i] = drainers[i]
        /\ drainers'[h].gen = drainers[h].gen
        /\ drainers'[h].count = drainers[h].count + 1
        /\ drainers'[h].closed = drainers[h].closed /\ drainers'[h].claimed = drainers[h].claimed
    BY <1>h, <2>1 DEF Tag
  <2>3. PICK b \in BOOLEAN : b = Bails(drainers[h], local[w].gen)
    BY <1>h DEF Bails, Tag
  <2>4. PICK q \in {"active", "none"} : q = IF b THEN "active" ELSE "none"
    OBVIOUS
  <2>5. PICK l \in Locals : l = [local[w] EXCEPT !.gen = drainers[h].gen, !.result = q]
    BY <1>h DEF Locals, Tag
  <2>6. l.item = h /\ l.gen = drainers[h].gen /\ l.next = local[w].next /\ l.result = q
    BY <1>h, <2>5 DEF Locals
  <2>7. Go(w, IF b THEN "leave" ELSE "recheck", l)
    BY <2>3, <2>4, <2>5 DEF Register, Held
  <2>8. UNCHANGED <<revision, current, ready, pending, free, allocated, operation, tiles, error, outcome, phase, slot, needs, terminal, producer>>
    BY DEF Register, queueVars, listVars, itemVars, slotVars
  <2>9. CASE b
    BY <1>h, <2>2, <2>3, <2>4, <2>6, <2>7, <2>8, <2>9 DEF Bails
  <2>10. CASE ~b
    BY <1>h, <2>2, <2>3, <2>4, <2>6, <2>7, <2>8, <2>10 DEF Bails
  <2>. QED
    BY <2>9, <2>10
<1>2. /\ pc' \in [Workers -> Pcs] /\ local' \in [Workers -> Locals]
      /\ pc'[w] = at /\ local'[w] = l
      /\ \A v \in Workers : v # w => pc'[v] = pc[v] /\ local'[v] = local[v]
  <2>1. at \in Pcs
    BY <1>1 DEF Pcs
  <2>. QED
    BY <1>0, <1>1, <2>1, Moved
<1>3. TypeOK'
  BY <1>0, <1>h, <1>1, <1>2 DEF TypeOK, Locals, Revisions
<1>4. LocalInv'
  <2>. SUFFICES ASSUME NEW v \in Workers PROVE LocalOK(v)'
    BY DEF LocalInv
  <2>1. CASE v = w
    BY <1>0, <1>h, <1>1, <1>2, <2>1 DEF LocalInv, LocalOK, HoldPcs, Registered, Held
  <2>2. CASE v # w
    BY <1>0, <1>h, <1>1, <1>2, <2>2 DEF LocalInv, LocalOK, Held
  <2>. QED
    BY <2>1, <2>2
<1>5. ClaimsAreCounted'
  <2>1. ClaimsOn(h)' = ClaimsOn(h) \cup {w} /\ w \notin ClaimsOn(h)
    BY <1>0, <1>h, <1>1, <1>2 DEF ClaimsOn, Registered, Held
  <2>2. ASSUME NEW i \in Items, i # h PROVE ClaimsOn(i)' = ClaimsOn(i)
    BY <1>0, <1>h, <1>1, <1>2, <2>2 DEF ClaimsOn, Registered, Held
  <2>3. Cardinality(ClaimsOn(h)') = Cardinality(ClaimsOn(h)) + 1
    BY <1>h, <2>1, Constants, FS_Subset, FS_AddElement
  <2>4. ASSUME NEW i \in Items
        PROVE  /\ drainers'[i].count = Cardinality(ClaimsOn(i)')
               /\ \A v \in ClaimsOn(i)' : drainers'[i].gen = local'[v].gen
    <3>1. \A v \in ClaimsOn(i) : v \in Workers /\ drainers[i].gen = local[v].gen
      BY <1>0 DEF ClaimsAreCounted, ClaimsOn
    <3>2. drainers[i].count = Cardinality(ClaimsOn(i))
      BY <1>0 DEF ClaimsAreCounted
    <3>3. CASE i = h
      BY <1>0, <1>h, <1>1, <1>2, <2>1, <2>3, <3>1, <3>2, <3>3
    <3>4. CASE i # h
      <4>1. w \notin ClaimsOn(i)
        BY <1>0, <1>h, <1>1, <1>2 DEF ClaimsOn, Registered
      <4>. QED
        BY <1>0, <1>h, <1>1, <1>2, <2>2, <3>1, <3>2, <3>4, <4>1
    <3>. QED
      BY <3>3, <3>4
  <2>. QED
    BY <2>4 DEF ClaimsAreCounted
<1>6. LockInv'
  <2>1. LockFrame
    BY <1>0, <1>h, <1>1, <1>2 DEF LockFrame, Locks, ProducerLocks
  <2>. QED
    BY <1>0, <2>1, LockFramed
<1>7. SnapshotInv'
  <2>1. SnapshotOK(w)'
    BY <1>0, <1>h, <1>1, <1>2 DEF SnapshotInv, SnapshotOK, Seen, Updating, Held
  <2>2. ASSUME NEW v \in Workers, v # w PROVE SnapshotOK(v)'
    <3>1. SnapshotOK(v) /\ pc'[v] = pc[v] /\ local'[v] = local[v]
      BY <1>0, <1>h, <1>1, <1>2, <2>2 DEF SnapshotInv
    <3>2. pc[v] = "register" => local[v].item \in Items
      BY <1>0 DEF LocalInv, LocalOK, HoldPcs, Held
    <3>. QED
      BY <1>0, <1>h, <1>1, <1>2, <3>1, <3>2, <2>2 DEF SnapshotOK, Seen, Updating, Held
  <2>3. Seen(Control)' /\ producer'.at = "cas" => ~Updating'
    BY <1>0, <1>h, <1>1, <1>2, Constants DEF SnapshotInv, Seen, Updating
  <2>. QED
    BY <2>1, <2>2, <2>3 DEF SnapshotInv
<1>8. ItemInv'
  <2>1. ItemFrame
    BY <1>0, <1>h, <1>1, <1>2 DEF ItemFrame, Closers, Releasers, ItemOK
  <2>2. ASSUME NEW v \in Workers
        PROVE  /\ pc'[v] \in Registered \ {"leave"} =>
                    local'[v].item \in Items /\ ~drainers[local'[v].item].claimed
               /\ pc'[v] \in {"processor", "tile", "close"} =>
                    /\ operation[local'[v].item] # None
                    /\ current = local'[v].item \/ drainers[local'[v].item].closed
               /\ pc'[v] = "clear" => pc[v] = "clear"
    <3>1. LocalOK(v) /\ WorkerOK(v)
      BY <1>0 DEF LocalInv, ItemInv
    <3>2. CASE v = w
      BY <1>0, <1>h, <1>1, <1>2, <3>1, <3>2
      DEF WorkerOK, LocalOK, HoldPcs, Registered, Held, ItemOK
    <3>3. CASE v # w
      BY <1>0, <1>h, <1>1, <1>2, <3>1, <3>3 DEF WorkerOK, LocalOK, HoldPcs, Held
    <3>. QED
      BY <3>2, <3>3
  <2>. QED
    BY <1>0, <2>1, <2>2, ItemFramed
<1>9. OwnerInv'
  <2>1. OwnerFrame
    BY <1>0, <1>h, <1>1, <1>2 DEF OwnerFrame
  <2>. QED
    BY <1>0, <2>1, OwnerFramed
<1>10. TileInv'
  <2>1. TileFrame
    BY <1>0, <1>h, <1>1, <1>2 DEF TileFrame
  <2>. QED
    BY <1>0, <2>1, TileFramed
<1>11. AttachInv'
  <2>1. AttachFrame
    BY <1>0, <1>h, <1>1, <1>2 DEF AttachFrame
  <2>. QED
    BY <1>0, <2>1, AttachFramed
<1>12. OutcomeIsTrue'
  BY <1>0, <1>h, <1>1, <1>2, OutcomeFramed
<1>13. PhaseInv'
  <2>1. Inside' = Inside /\ w \in Inside
    BY <1>0, <1>h, <1>1, <1>2 DEF Inside
  <2>2. \A v \in Workers : pc[v] # "release" /\ pc'[v] # "release"
    BY <1>0, <1>h, <1>1, <1>2, <2>1 DEF PhaseInv
  <2>3. (phase # "running" => producer.at = "idle" /\ OperationsEnded)'
    BY <1>0, <1>h, <1>1, <1>2 DEF PhaseInv, OperationsEnded
  <2>4. (terminal \/ slot = "released" => phase # "running")'
    BY <1>0, <1>h, <1>1, <1>2 DEF PhaseInv
  <2>5. \A v \in Workers : local'[v].result = "completed" => phase' # "running"
    BY <1>0, <1>h, <1>1, <1>2 DEF PhaseInv
  <2>6. slot' # "idle"
    BY <1>0, <1>h, <1>1, <1>2, <2>1 DEF PhaseInv
  <2>. QED
    BY <2>1, <2>2, <2>3, <2>4, <2>5, <2>6 DEF PhaseInv
<1>14. CoverInv'
  <2>1. ASSUME Fresh(w) PROVE Fresh(w)' \/ \E v \in Workers : Works(v)'
    <3>1. Seen(w) /\ current = h /\ local[w].gen = drainers[h].gen
      BY <1>0, <1>h, <1>1, <1>2, <2>1 DEF Fresh, SnapshotInv, SnapshotOK, Held
    <3>2. CASE at = "recheck"
      BY <1>0, <1>h, <1>1, <1>2, <3>1, <3>2 DEF Fresh, Seen
    <3>3. CASE at = "leave"
      <4>1. PICK v \in Workers : pc[v] \in Closers
        BY <1>0, <1>h, <1>1, <1>2, <3>1, <3>3 DEF ItemOK
      <4>2. v # w /\ local[v].result = "work"
        BY <1>0, <1>h, <1>1, <1>2, <4>1 DEF Closers, LocalInv, LocalOK
      <4>3. Works(v)'
        BY <1>0, <1>h, <1>1, <1>2, <4>1, <4>2 DEF Works, Closers
      <4>. QED
        BY <4>3
    <3>. QED
      BY <1>0, <1>h, <1>1, <1>2, <3>2, <3>3
  <2>2. CoverFrame(w)
    BY <1>0, <1>h, <1>1, <1>2, <2>1
    DEF CoverFrame, Outstanding, Fresh, Works, Seen, Updating, LocalOK
  <2>. QED
    BY <1>0, <2>2, CoverFramed
<1>. QED
  BY <1>3, <1>4, <1>5, <1>6, <1>7, <1>8, <1>9, <1>10, <1>11, <1>12, <1>13, <1>14 DEF Inv

LEMMA RecheckKeeps ==
  ASSUME Inv, NEW w \in Workers, Recheck(w) PROVE Inv'
<1>0. /\ TypeOK /\ LocalInv /\ ClaimsAreCounted /\ LockInv /\ SnapshotInv /\ ItemInv
      /\ OwnerInv /\ TileInv /\ AttachInv /\ OutcomeIsTrue /\ PhaseInv /\ CoverInv
  BY DEF Inv
<1>. DEFINE h == local[w].item
<1>h. /\ h \in Items /\ drainers \in [Items -> Tag] /\ drainers[h] \in Tag
      /\ local[w] \in Locals /\ pc[w] = "recheck" /\ ClaimsOn(h) \subseteq Workers
      /\ LocalOK(w) /\ WorkerOK(w) /\ ItemOK(h)
  <2>1. pc[w] = "recheck" /\ h \in Items
    BY <1>0 DEF Recheck, LocalInv, LocalOK, HoldPcs, Registered, Held
  <2>. QED
    BY <1>0, <2>1 DEF TypeOK, Locals, ClaimsOn, LocalInv, ItemInv
<1>1. PICK at \in {"processor", "leave"}, l \in Locals :
        /\ Go(w, at, l) /\ l.item = h /\ l.gen = local[w].gen /\ l.next = local[w].next
        /\ \/ /\ at = "processor" /\ l = local[w] /\ w \in revision.seen /\ current = h
           \/ at = "leave" /\ l.result = "active" /\ ~(w \in revision.seen /\ current = h)
        /\ revision' \in Revisions /\ revision'.updating = revision.updating
        /\ \A x : x \in revision'.seen <=> x \in revision.seen /\ x # w
        /\ UNCHANGED <<current, ready, pending, free, allocated, drainers, operation, tiles,
                       error, outcome, phase, slot, needs, terminal, producer>>
  <2>1. Forgets(w)
    BY DEF Recheck
  <2>0. PICK l \in Locals : l = [local[w] EXCEPT !.result = "active"]
    BY <1>h DEF Locals
  <2>2. /\ l.item = h /\ l.gen = local[w].gen /\ l.next = local[w].next
        /\ l.result = "active"
    BY <1>h, <2>0 DEF Locals
  <2>3. CASE SamePublication(w)
    BY <1>0, <1>h, <2>1, <2>3, ForgetsFacts
    DEF Recheck, SamePublication, Seen, Held, queueVars, listVars, itemVars, slotVars
  <2>4. CASE ~SamePublication(w)
    BY <1>0, <1>h, <2>0, <2>1, <2>2, <2>4, ForgetsFacts
       DEF Recheck, SamePublication, Seen, Held, WithResult, queueVars, listVars, itemVars,
          slotVars
  <2>. QED
    BY <2>3, <2>4
<1>2. /\ pc' \in [Workers -> Pcs] /\ local' \in [Workers -> Locals]
      /\ pc'[w] = at /\ local'[w] = l
      /\ \A v \in Workers : v # w => pc'[v] = pc[v] /\ local'[v] = local[v]
  <2>1. at \in Pcs
    BY <1>1 DEF Pcs
  <2>. QED
    BY <1>0, <1>1, <2>1, Moved
<1>3. TypeOK'
  BY <1>0, <1>h, <1>1, <1>2 DEF TypeOK, Locals, Revisions
<1>4. LocalInv'
  <2>. SUFFICES ASSUME NEW v \in Workers PROVE LocalOK(v)'
    BY DEF LocalInv
  <2>1. CASE v = w
    BY <1>0, <1>h, <1>1, <1>2, <2>1 DEF LocalInv, LocalOK, HoldPcs, Registered, Held
  <2>2. CASE v # w
    BY <1>0, <1>h, <1>1, <1>2, <2>2 DEF LocalInv, LocalOK, Held
  <2>. QED
    BY <2>1, <2>2
<1>5. ClaimsAreCounted'
  <2>1. CountFrame
    BY <1>0, <1>h, <1>1, <1>2 DEF CountFrame, Registered
  <2>. QED
    BY <1>0, <2>1, CountFramed
<1>6. LockInv'
  <2>1. LockFrame
    BY <1>0, <1>h, <1>1, <1>2 DEF LockFrame, Locks, ProducerLocks
  <2>. QED
    BY <1>0, <2>1, LockFramed
<1>7. SnapshotInv'
  <2>1. SnapshotOK(w)'
    BY <1>0, <1>h, <1>1, <1>2 DEF SnapshotInv, SnapshotOK, Seen, Updating, Held
  <2>2. ASSUME NEW v \in Workers, v # w PROVE SnapshotOK(v)'
    <3>1. SnapshotOK(v) /\ pc'[v] = pc[v] /\ local'[v] = local[v]
      BY <1>0, <1>h, <1>1, <1>2, <2>2 DEF SnapshotInv
    <3>2. pc[v] = "register" => local[v].item \in Items
      BY <1>0 DEF LocalInv, LocalOK, HoldPcs, Held
    <3>. QED
      BY <1>0, <1>h, <1>1, <1>2, <3>1, <3>2, <2>2 DEF SnapshotOK, Seen, Updating, Held
  <2>3. Seen(Control)' /\ producer'.at = "cas" => ~Updating'
    BY <1>0, <1>h, <1>1, <1>2, Constants DEF SnapshotInv, Seen, Updating
  <2>. QED
    BY <2>1, <2>2, <2>3 DEF SnapshotInv
<1>8. ItemInv'
  <2>1. ItemFrame
    BY <1>0, <1>h, <1>1, <1>2 DEF ItemFrame, Closers, Releasers, ItemOK
  <2>2. ASSUME NEW v \in Workers
        PROVE  /\ pc'[v] \in Registered \ {"leave"} =>
                    local'[v].item \in Items /\ ~drainers[local'[v].item].claimed
               /\ pc'[v] \in {"processor", "tile", "close"} =>
                    /\ operation[local'[v].item] # None
                    /\ current = local'[v].item \/ drainers[local'[v].item].closed
               /\ pc'[v] = "clear" => pc[v] = "clear"
    <3>1. LocalOK(v) /\ WorkerOK(v)
      BY <1>0 DEF LocalInv, ItemInv
    <3>2. CASE v = w
      BY <1>0, <1>h, <1>1, <1>2, <3>1, <3>2
      DEF WorkerOK, LocalOK, HoldPcs, Registered, Held, ItemOK
    <3>3. CASE v # w
      BY <1>0, <1>h, <1>1, <1>2, <3>1, <3>3 DEF WorkerOK, LocalOK, HoldPcs, Held
    <3>. QED
      BY <3>2, <3>3
  <2>. QED
    BY <1>0, <2>1, <2>2, ItemFramed
<1>9. OwnerInv'
  <2>1. OwnerFrame
    BY <1>0, <1>h, <1>1, <1>2 DEF OwnerFrame
  <2>. QED
    BY <1>0, <2>1, OwnerFramed
<1>10. TileInv'
  <2>1. TileFrame
    BY <1>0, <1>h, <1>1, <1>2 DEF TileFrame
  <2>. QED
    BY <1>0, <2>1, TileFramed
<1>11. AttachInv'
  <2>1. AttachFrame
    BY <1>0, <1>h, <1>1, <1>2 DEF AttachFrame
  <2>. QED
    BY <1>0, <2>1, AttachFramed
<1>12. OutcomeIsTrue'
  BY <1>0, <1>h, <1>1, <1>2, OutcomeFramed
<1>13. PhaseInv'
  <2>1. Inside' = Inside /\ w \in Inside
    BY <1>0, <1>h, <1>1, <1>2 DEF Inside
  <2>2. \A v \in Workers : pc[v] # "release" /\ pc'[v] # "release"
    BY <1>0, <1>h, <1>1, <1>2, <2>1 DEF PhaseInv
  <2>3. (phase # "running" => producer.at = "idle" /\ OperationsEnded)'
    BY <1>0, <1>h, <1>1, <1>2 DEF PhaseInv, OperationsEnded
  <2>4. (terminal \/ slot = "released" => phase # "running")'
    BY <1>0, <1>h, <1>1, <1>2 DEF PhaseInv
  <2>5. \A v \in Workers : local'[v].result = "completed" => phase' # "running"
    BY <1>0, <1>h, <1>1, <1>2 DEF PhaseInv
  <2>6. slot' # "idle"
    BY <1>0, <1>h, <1>1, <1>2, <2>1 DEF PhaseInv
  <2>. QED
    BY <2>1, <2>2, <2>3, <2>4, <2>5, <2>6 DEF PhaseInv
<1>14. CoverInv'
  <2>1. CoverFrame(w)
    BY <1>0, <1>h, <1>1, <1>2
    DEF CoverFrame, Outstanding, Fresh, Works, Seen, Updating, SnapshotInv, SnapshotOK, Held,
       LocalOK
  <2>. QED
    BY <1>0, <2>1, CoverFramed
<1>. QED
  BY <1>3, <1>4, <1>5, <1>6, <1>7, <1>8, <1>9, <1>10, <1>11, <1>12, <1>13, <1>14 DEF Inv


----------------------------------------------------------------------------
(* Executing and closing.                                                  *)

LEMMA ProcessorDrainKeeps ==
  ASSUME Inv, NEW w \in Workers, ProcessorDrain(w) PROVE Inv'
<1>0. /\ TypeOK /\ LocalInv /\ ClaimsAreCounted /\ LockInv /\ SnapshotInv /\ ItemInv
      /\ OwnerInv /\ TileInv /\ AttachInv /\ OutcomeIsTrue /\ PhaseInv /\ CoverInv
  BY DEF Inv
<1>. DEFINE h == local[w].item
<1>h. /\ h \in Items /\ drainers \in [Items -> Tag] /\ drainers[h] \in Tag
      /\ local[w] \in Locals /\ pc[w] = "processor" /\ ClaimsOn(h) \subseteq Workers
      /\ LocalOK(w) /\ WorkerOK(w) /\ ItemOK(h)
  <2>1. pc[w] = "processor" /\ h \in Items
    BY <1>0 DEF ProcessorDrain, LocalInv, LocalOK, HoldPcs, Registered, Held
  <2>. QED
    BY <1>0, <2>1 DEF TypeOK, Locals, ClaimsOn, LocalInv, ItemInv
<1>. DEFINE r == operation[h]
<1>r. r \in Recordings /\ tiles \in [Recordings -> Nat] /\ outcome[r] = None
  BY <1>0, <1>h DEF TypeOK, WorkerOK, AttachInv, Held
<1>1. PICK at \in {"tile", "close", "leave"}, l \in Locals :
        /\ Go(w, at, l) /\ l.item = h /\ l.gen = local[w].gen /\ l.next = local[w].next
        /\ tiles' \in [Recordings -> Nat]
        /\ \A q \in Recordings : tiles[q] = 0 => tiles'[q] = 0
        /\ \/ at = "tile" /\ tiles[r] > 0 /\ l = local[w]
           \/ /\ at = "close" /\ tiles[r] = 0 /\ tiles' = tiles /\ Executing(h) = {}
              /\ l.result = "work"
           \/ /\ at = "leave" /\ tiles[r] = 0 /\ tiles' = tiles /\ Executing(h) # {}
              /\ l.result \in {"active", "none"}
        /\ UNCHANGED <<revision, current, ready, pending, free, allocated, drainers, operation,
                       error, outcome, phase, slot, needs, terminal, producer>>
  <2>1. UNCHANGED <<revision, current, ready, pending, free, allocated, drainers, operation, error, outcome, phase, slot, needs, terminal, producer>>
    BY DEF ProcessorDrain, queueVars, listVars, itemVars, slotVars
  <2>2. CASE TileLeft(r) /\ Go(w, "tile", local[w]) /\ tiles' = [tiles EXCEPT ![r] = @ - 1]
    BY <1>h, <1>r, <2>1, <2>2 DEF TileLeft
  <2>3. CASE ~TileLeft(r) /\ Executing(h) = {} /\ Go(w, "close", WithResult(w, "work")) /\ tiles' = tiles
    <3>1. PICK l \in Locals : l = [local[w] EXCEPT !.result = "work"]
      BY <1>h DEF Locals
    <3>2. l.item = h /\ l.gen = local[w].gen /\ l.next = local[w].next /\ l.result = "work"
      BY <1>h, <3>1 DEF Locals
    <3>3. tiles[r] = 0 /\ Go(w, "close", l)
      BY <1>r, <2>3, <3>1 DEF TileLeft, WithResult
    <3>. QED
      BY <1>r, <2>1, <2>3, <3>2, <3>3
  <2>4. ASSUME ~TileLeft(r), Executing(h) # {}, NEW q \in {"active", "none"},
               Go(w, "leave", WithResult(w, q)), tiles' = tiles
        PROVE  \E l \in Locals :
                 /\ Go(w, "leave", l) /\ l.item = h /\ l.gen = local[w].gen
                 /\ l.next = local[w].next /\ l.result \in {"active", "none"} /\ tiles[r] = 0
    <3>1. PICK l \in Locals : l = [local[w] EXCEPT !.result = q]
      BY <1>h DEF Locals
    <3>2. l.item = h /\ l.gen = local[w].gen /\ l.next = local[w].next /\ l.result = q
      BY <1>h, <3>1 DEF Locals
    <3>3. tiles[r] = 0 /\ Go(w, "leave", l)
      BY <1>r, <2>4, <3>1 DEF TileLeft, WithResult
    <3>. QED
      BY <3>2, <3>3
  <2>5. \/ TileLeft(r) /\ Go(w, "tile", local[w]) /\ tiles' = [tiles EXCEPT ![r] = @ - 1]
        \/ ~TileLeft(r) /\ Executing(h) = {} /\ Go(w, "close", WithResult(w, "work")) /\ tiles' = tiles
        \/ /\ ~TileLeft(r) /\ Executing(h) # {} /\ tiles' = tiles
           /\ \E q \in {"active", "none"} : Go(w, "leave", WithResult(w, q))
    BY DEF ProcessorDrain, Held
  <2>6. CASE /\ ~TileLeft(r) /\ Executing(h) # {} /\ tiles' = tiles
             /\ \E q \in {"active", "none"} : Go(w, "leave", WithResult(w, q))
    BY <1>r, <2>1, <2>4, <2>6
  <2>. QED
    BY <2>2, <2>3, <2>5, <2>6
<1>2. /\ pc' \in [Workers -> Pcs] /\ local' \in [Workers -> Locals]
      /\ pc'[w] = at /\ local'[w] = l
      /\ \A v \in Workers : v # w => pc'[v] = pc[v] /\ local'[v] = local[v]
  <2>1. at \in Pcs
    BY <1>1 DEF Pcs
  <2>. QED
    BY <1>0, <1>1, <2>1, Moved
<1>3. TypeOK'
  BY <1>0, <1>h, <1>r, <1>1, <1>2 DEF TypeOK, Locals, Revisions
<1>4. LocalInv'
  <2>. SUFFICES ASSUME NEW v \in Workers PROVE LocalOK(v)'
    BY DEF LocalInv
  <2>1. CASE v = w
    BY <1>0, <1>h, <1>r, <1>1, <1>2, <2>1 DEF LocalInv, LocalOK, HoldPcs, Registered, Held
  <2>2. CASE v # w
    BY <1>0, <1>h, <1>r, <1>1, <1>2, <2>2 DEF LocalInv, LocalOK, Held
  <2>. QED
    BY <2>1, <2>2
<1>5. ClaimsAreCounted'
  <2>1. CountFrame
    BY <1>0, <1>h, <1>r, <1>1, <1>2 DEF CountFrame, Registered
  <2>. QED
    BY <1>0, <2>1, CountFramed
<1>6. LockInv'
  <2>1. LockFrame
    BY <1>0, <1>h, <1>r, <1>1, <1>2 DEF LockFrame, Locks, ProducerLocks
  <2>. QED
    BY <1>0, <2>1, LockFramed
<1>7. SnapshotInv'
  <2>1. SnapshotOK(w)'
    BY <1>0, <1>h, <1>r, <1>1, <1>2 DEF SnapshotInv, SnapshotOK, Seen, Updating, Held
  <2>2. ASSUME NEW v \in Workers, v # w PROVE SnapshotOK(v)'
    <3>1. SnapshotOK(v) /\ pc'[v] = pc[v] /\ local'[v] = local[v]
      BY <1>0, <1>h, <1>r, <1>1, <1>2, <2>2 DEF SnapshotInv
    <3>2. pc[v] = "register" => local[v].item \in Items
      BY <1>0 DEF LocalInv, LocalOK, HoldPcs, Held
    <3>. QED
      BY <1>0, <1>h, <1>r, <1>1, <1>2, <3>1, <3>2, <2>2 DEF SnapshotOK, Seen, Updating, Held
  <2>3. Seen(Control)' /\ producer'.at = "cas" => ~Updating'
    BY <1>0, <1>h, <1>r, <1>1, <1>2, Constants DEF SnapshotInv, Seen, Updating
  <2>. QED
    BY <2>1, <2>2, <2>3 DEF SnapshotInv
<1>8. ItemInv'
  <2>1. ItemFrame
    BY <1>0, <1>h, <1>r, <1>1, <1>2 DEF ItemFrame, Closers, Releasers
  <2>2. ASSUME NEW v \in Workers
        PROVE  /\ pc'[v] \in Registered \ {"leave"} =>
                    local'[v].item \in Items /\ ~drainers[local'[v].item].claimed
               /\ pc'[v] \in {"processor", "tile", "close"} =>
                    /\ operation[local'[v].item] # None
                    /\ current = local'[v].item \/ drainers[local'[v].item].closed
               /\ pc'[v] = "clear" => pc[v] = "clear"
    <3>1. LocalOK(v) /\ WorkerOK(v)
      BY <1>0 DEF LocalInv, ItemInv
    <3>2. CASE v = w
      BY <1>0, <1>h, <1>r, <1>1, <1>2, <3>1, <3>2 DEF WorkerOK, LocalOK, HoldPcs, Registered, Held
    <3>3. CASE v # w
      BY <1>0, <1>h, <1>r, <1>1, <1>2, <3>1, <3>3 DEF WorkerOK, LocalOK, HoldPcs, Held
    <3>. QED
      BY <3>2, <3>3
  <2>. QED
    BY <1>0, <2>1, <2>2, ItemFramed
<1>9. OwnerInv'
  <2>1. OwnerFrame
    BY <1>0, <1>h, <1>r, <1>1, <1>2 DEF OwnerFrame
  <2>. QED
    BY <1>0, <2>1, OwnerFramed
<1>10. TileInv'
  <2>1. ~(drainers[h].closed /\ at = "tile")
    BY <1>0, <1>h, <1>r, <1>1, <1>2, Constants DEF TileInv
  <2>2. ASSUME NEW i \in Items PROVE Executing(i)' \subseteq Executing(i) \cup {w}
    BY <1>0, <1>h, <1>r, <1>1, <1>2 DEF Executing, Held
  <2>3. ASSUME NEW i \in Items, i # h \/ at # "tile" PROVE Executing(i)' \subseteq Executing(i)
    BY <1>0, <1>h, <1>r, <1>1, <1>2, <2>3 DEF Executing, Held
  <2>4. ASSUME NEW v \in Workers, pc'[v] = "close"
        PROVE  (tiles[operation[Held(v)]] = 0 /\ Executing(Held(v)) = {})'
    <3>1. PICK i \in Items : i = local'[v].item /\ (v # w => i = local[v].item)
      BY <1>0, <1>h, <1>r, <1>1, <1>2, <2>4 DEF LocalInv, LocalOK, HoldPcs, Registered, Held
    <3>2. operation[i] \in Recordings
      <4>1. CASE v = w
        BY <1>0, <1>h, <1>r, <1>1, <1>2, <3>1, <4>1
      <4>2. CASE v # w
        BY <1>0, <1>h, <1>r, <1>1, <1>2, <2>4, <3>1, <4>2 DEF ItemInv, WorkerOK, TypeOK, Held
      <4>. QED
        BY <4>1, <4>2
    <3>3. tiles[operation[i]] = 0 /\ Executing(i) = {}
      <4>1. CASE v = w
        BY <1>0, <1>h, <1>r, <1>1, <1>2, <2>4, <3>1, <4>1
      <4>2. CASE v # w
        BY <1>0, <1>h, <1>r, <1>1, <1>2, <2>4, <3>1, <4>2 DEF TileInv, Held
      <4>. QED
        BY <4>1, <4>2
    <3>4. i # h \/ at # "tile"
      BY <1>0, <1>h, <1>r, <1>1, <1>2, <3>3
    <3>5. Executing(i)' = {}
      BY <2>3, <3>3, <3>4
    <3>6. Executing(Held(v))' = {}
      BY <3>1, <3>5 DEF Executing, Held
    <3>. QED
      BY <1>0, <1>h, <1>r, <1>1, <1>2, <3>1, <3>2, <3>3, <3>6 DEF Held
  <2>5. ASSUME NEW i \in Items, drainers'[i].closed, operation'[i] # None
        PROVE  tiles'[operation'[i]] = 0 /\ Executing(i)' = {}
    <3>1. tiles[operation[i]] = 0 /\ Executing(i) = {} /\ operation[i] \in Recordings
      BY <1>0, <1>h, <1>r, <1>1, <1>2, <2>5 DEF TileInv, TypeOK
    <3>2. i # h \/ at # "tile"
      BY <1>0, <1>h, <1>r, <1>1, <1>2, <3>1
    <3>. QED
      BY <1>0, <1>h, <1>r, <1>1, <1>2, <2>3, <3>1, <3>2
  <2>. QED
    BY <2>4, <2>5 DEF TileInv
<1>11. AttachInv'
  <2>1. AttachFrame
    BY <1>0, <1>h, <1>r, <1>1, <1>2 DEF AttachFrame
  <2>. QED
    BY <1>0, <2>1, AttachFramed
<1>12. OutcomeIsTrue'
  BY <1>0, <1>h, <1>r, <1>1, <1>2, OutcomeFramed
<1>13. PhaseInv'
  <2>1. Inside' = Inside /\ w \in Inside
    BY <1>0, <1>h, <1>r, <1>1, <1>2 DEF Inside
  <2>2. \A v \in Workers : pc[v] # "release" /\ pc'[v] # "release"
    BY <1>0, <1>h, <1>r, <1>1, <1>2, <2>1 DEF PhaseInv
  <2>3. (phase # "running" => producer.at = "idle" /\ OperationsEnded)'
    BY <1>0, <1>h, <1>r, <1>1, <1>2 DEF PhaseInv, OperationsEnded
  <2>4. (terminal \/ slot = "released" => phase # "running")'
    BY <1>0, <1>h, <1>r, <1>1, <1>2 DEF PhaseInv
  <2>5. \A v \in Workers : local'[v].result = "completed" => phase' # "running"
    BY <1>0, <1>h, <1>r, <1>1, <1>2 DEF PhaseInv
  <2>6. slot' # "idle"
    BY <1>0, <1>h, <1>r, <1>1, <1>2, <2>1 DEF PhaseInv
  <2>. QED
    BY <2>1, <2>2, <2>3, <2>4, <2>5, <2>6 DEF PhaseInv
<1>14. CoverInv'
  <2>1. CASE at \in {"tile", "close"}
    <3>1. Works(w)'
      BY <1>0, <1>h, <1>r, <1>1, <1>2, <2>1 DEF Works
    <3>. QED
      BY <3>1, BackedCovers DEF Backed
  <2>2. CASE at = "leave"
    <3>1. PICK v \in Workers : pc[v] = "tile"
      BY <1>0, <1>h, <1>r, <1>1, <1>2, <2>2 DEF Executing
    <3>2. Works(v)'
      BY <1>0, <1>h, <1>r, <1>1, <1>2, <3>1 DEF Works
    <3>. QED
      BY <3>2, BackedCovers DEF Backed
  <2>. QED
    BY <1>1, <2>1, <2>2
<1>. QED
  BY <1>3, <1>4, <1>5, <1>6, <1>7, <1>8, <1>9, <1>10, <1>11, <1>12, <1>13, <1>14 DEF Inv

LEMMA FinishTileKeeps ==
  ASSUME Inv, NEW w \in Workers, FinishTile(w) PROVE Inv'
<1>0. /\ TypeOK /\ LocalInv /\ ClaimsAreCounted /\ LockInv /\ SnapshotInv /\ ItemInv
      /\ OwnerInv /\ TileInv /\ AttachInv /\ OutcomeIsTrue /\ PhaseInv /\ CoverInv
  BY DEF Inv
<1>. DEFINE h == local[w].item
<1>h. /\ h \in Items /\ drainers \in [Items -> Tag] /\ drainers[h] \in Tag
      /\ local[w] \in Locals /\ pc[w] = "tile" /\ ClaimsOn(h) \subseteq Workers
      /\ LocalOK(w) /\ WorkerOK(w) /\ ItemOK(h)
  <2>1. pc[w] = "tile" /\ h \in Items
    BY <1>0 DEF FinishTile, LocalInv, LocalOK, HoldPcs, Registered, Held
  <2>. QED
    BY <1>0, <2>1 DEF TypeOK, Locals, ClaimsOn, LocalInv, ItemInv
<1>. DEFINE r == operation[h]
<1>r. r \in Recordings /\ tiles \in [Recordings -> Nat] /\ outcome[r] = None
  BY <1>0, <1>h DEF TypeOK, WorkerOK, AttachInv, Held
<1>1. PICK at \in {"close", "leave"}, l \in Locals :
        /\ Go(w, at, l) /\ l.item = h /\ l.gen = local[w].gen /\ l.next = local[w].next
        /\ l.result = "work"
        /\ at = "close" => tiles[r] = 0 /\ Executing(h) = {w}
        /\ error \subseteq error' /\ error' \subseteq error \cup {r}
        /\ UNCHANGED <<revision, current, ready, pending, free, allocated, drainers, operation,
                       tiles, outcome, phase, slot, needs, terminal, producer>>
  <2>1. UNCHANGED <<revision, current, ready, pending, free, allocated, drainers, operation, tiles, outcome, phase, slot, needs, terminal, producer>>
    BY DEF FinishTile, queueVars, listVars, itemVars, slotVars
  <2>2. PICK l \in Locals : l = [local[w] EXCEPT !.result = "work"]
    BY <1>h DEF Locals
  <2>3. l.item = h /\ l.gen = local[w].gen /\ l.next = local[w].next /\ l.result = "work"
    BY <1>h, <2>2 DEF Locals
  <2>4. PICK at \in {"close", "leave"} : at = IF tiles[r] = 0 /\ Executing(h) = {w} THEN "close" ELSE "leave"
    OBVIOUS
  <2>5. Go(w, at, l)
    BY <2>2, <2>4 DEF FinishTile, WithResult, Held
  <2>6. error \subseteq error' /\ error' \subseteq error \cup {r}
    BY DEF FinishTile, Held
  <2>. QED
    BY <2>1, <2>3, <2>4, <2>5, <2>6
<1>2. /\ pc' \in [Workers -> Pcs] /\ local' \in [Workers -> Locals]
      /\ pc'[w] = at /\ local'[w] = l
      /\ \A v \in Workers : v # w => pc'[v] = pc[v] /\ local'[v] = local[v]
  <2>1. at \in Pcs
    BY <1>1 DEF Pcs
  <2>. QED
    BY <1>0, <1>1, <2>1, Moved
<1>3. TypeOK'
  BY <1>0, <1>h, <1>r, <1>1, <1>2 DEF TypeOK, Locals, Revisions
<1>4. LocalInv'
  <2>. SUFFICES ASSUME NEW v \in Workers PROVE LocalOK(v)'
    BY DEF LocalInv
  <2>1. CASE v = w
    BY <1>0, <1>h, <1>r, <1>1, <1>2, <2>1 DEF LocalInv, LocalOK, HoldPcs, Registered, Held
  <2>2. CASE v # w
    BY <1>0, <1>h, <1>r, <1>1, <1>2, <2>2 DEF LocalInv, LocalOK, Held
  <2>. QED
    BY <2>1, <2>2
<1>5. ClaimsAreCounted'
  <2>1. CountFrame
    BY <1>0, <1>h, <1>r, <1>1, <1>2 DEF CountFrame, Registered
  <2>. QED
    BY <1>0, <2>1, CountFramed
<1>6. LockInv'
  <2>1. LockFrame
    BY <1>0, <1>h, <1>r, <1>1, <1>2 DEF LockFrame, Locks, ProducerLocks
  <2>. QED
    BY <1>0, <2>1, LockFramed
<1>7. SnapshotInv'
  <2>1. SnapshotOK(w)'
    BY <1>0, <1>h, <1>r, <1>1, <1>2 DEF SnapshotInv, SnapshotOK, Seen, Updating, Held
  <2>2. ASSUME NEW v \in Workers, v # w PROVE SnapshotOK(v)'
    <3>1. SnapshotOK(v) /\ pc'[v] = pc[v] /\ local'[v] = local[v]
      BY <1>0, <1>h, <1>r, <1>1, <1>2, <2>2 DEF SnapshotInv
    <3>2. pc[v] = "register" => local[v].item \in Items
      BY <1>0 DEF LocalInv, LocalOK, HoldPcs, Held
    <3>. QED
      BY <1>0, <1>h, <1>r, <1>1, <1>2, <3>1, <3>2, <2>2 DEF SnapshotOK, Seen, Updating, Held
  <2>3. Seen(Control)' /\ producer'.at = "cas" => ~Updating'
    BY <1>0, <1>h, <1>r, <1>1, <1>2, Constants DEF SnapshotInv, Seen, Updating
  <2>. QED
    BY <2>1, <2>2, <2>3 DEF SnapshotInv
<1>8. ItemInv'
  <2>1. ItemFrame
    BY <1>0, <1>h, <1>r, <1>1, <1>2 DEF ItemFrame, Closers, Releasers
  <2>2. ASSUME NEW v \in Workers
        PROVE  /\ pc'[v] \in Registered \ {"leave"} =>
                    local'[v].item \in Items /\ ~drainers[local'[v].item].claimed
               /\ pc'[v] \in {"processor", "tile", "close"} =>
                    /\ operation[local'[v].item] # None
                    /\ current = local'[v].item \/ drainers[local'[v].item].closed
               /\ pc'[v] = "clear" => pc[v] = "clear"
    <3>1. LocalOK(v) /\ WorkerOK(v)
      BY <1>0 DEF LocalInv, ItemInv
    <3>2. CASE v = w
      BY <1>0, <1>h, <1>r, <1>1, <1>2, <3>1, <3>2 DEF WorkerOK, LocalOK, HoldPcs, Registered, Held
    <3>3. CASE v # w
      BY <1>0, <1>h, <1>r, <1>1, <1>2, <3>1, <3>3 DEF WorkerOK, LocalOK, HoldPcs, Held
    <3>. QED
      BY <3>2, <3>3
  <2>. QED
    BY <1>0, <2>1, <2>2, ItemFramed
<1>9. OwnerInv'
  <2>1. OwnerFrame
    BY <1>0, <1>h, <1>r, <1>1, <1>2 DEF OwnerFrame
  <2>. QED
    BY <1>0, <2>1, OwnerFramed
<1>10. TileInv'
  <2>1. ASSUME NEW i \in Items PROVE Executing(i)' \subseteq Executing(i) \ {w}
    BY <1>0, <1>h, <1>r, <1>1, <1>2 DEF Executing, Held
  <2>2. ASSUME NEW v \in Workers, pc'[v] = "close"
        PROVE  (tiles[operation[Held(v)]] = 0 /\ Executing(Held(v)) = {})'
    <3>1. PICK i \in Items : i = local'[v].item /\ (v # w => i = local[v].item)
      BY <1>0, <1>h, <1>r, <1>1, <1>2, <2>2 DEF LocalInv, LocalOK, HoldPcs, Registered, Held
    <3>2. tiles[operation[i]] = 0 /\ Executing(i)' = {}
      <4>1. CASE v = w
        BY <1>0, <1>h, <1>r, <1>1, <1>2, <2>1, <2>2, <3>1, <4>1
      <4>2. CASE v # w
        BY <1>0, <1>h, <1>r, <1>1, <1>2, <2>1, <2>2, <3>1, <4>2 DEF TileInv, Held
      <4>. QED
        BY <4>1, <4>2
    <3>3. Executing(Held(v))' = {}
      BY <3>1, <3>2 DEF Executing, Held
    <3>. QED
      BY <1>0, <1>h, <1>r, <1>1, <1>2, <3>1, <3>2, <3>3 DEF Held
  <2>3. ASSUME NEW i \in Items, drainers'[i].closed, operation'[i] # None
        PROVE  tiles'[operation'[i]] = 0 /\ Executing(i)' = {}
    BY <1>0, <1>h, <1>r, <1>1, <1>2, <2>1, <2>3 DEF TileInv
  <2>. QED
    BY <2>2, <2>3 DEF TileInv
<1>11. AttachInv'
  <2>1. AttachFrame
    BY <1>0, <1>h, <1>r, <1>1, <1>2 DEF AttachFrame
  <2>. QED
    BY <1>0, <2>1, AttachFramed
<1>12. OutcomeIsTrue'
  BY <1>0, <1>h, <1>r, <1>1, <1>2, Constants DEF OutcomeIsTrue, Outcomes
<1>13. PhaseInv'
  <2>1. Inside' = Inside /\ w \in Inside
    BY <1>0, <1>h, <1>r, <1>1, <1>2 DEF Inside
  <2>2. \A v \in Workers : pc[v] # "release" /\ pc'[v] # "release"
    BY <1>0, <1>h, <1>r, <1>1, <1>2, <2>1 DEF PhaseInv
  <2>3. (phase # "running" => producer.at = "idle" /\ OperationsEnded)'
    BY <1>0, <1>h, <1>r, <1>1, <1>2 DEF PhaseInv, OperationsEnded
  <2>4. (terminal \/ slot = "released" => phase # "running")'
    BY <1>0, <1>h, <1>r, <1>1, <1>2 DEF PhaseInv
  <2>5. \A v \in Workers : local'[v].result = "completed" => phase' # "running"
    BY <1>0, <1>h, <1>r, <1>1, <1>2 DEF PhaseInv
  <2>6. slot' # "idle"
    BY <1>0, <1>h, <1>r, <1>1, <1>2, <2>1 DEF PhaseInv
  <2>. QED
    BY <2>1, <2>2, <2>3, <2>4, <2>5, <2>6 DEF PhaseInv
<1>14. CoverInv'
  <2>1. Works(w)'
    BY <1>0, <1>h, <1>r, <1>1, <1>2 DEF Works, LocalInv, LocalOK
  <2>. QED
    BY <2>1, BackedCovers DEF Backed
<1>. QED
  BY <1>3, <1>4, <1>5, <1>6, <1>7, <1>8, <1>9, <1>10, <1>11, <1>12, <1>13, <1>14 DEF Inv

LEMMA CloseKeeps ==
  ASSUME Inv, NEW w \in Workers, Close(w) PROVE Inv'
<1>0. /\ TypeOK /\ LocalInv /\ ClaimsAreCounted /\ LockInv /\ SnapshotInv /\ ItemInv
      /\ OwnerInv /\ TileInv /\ AttachInv /\ OutcomeIsTrue /\ PhaseInv /\ CoverInv
  BY DEF Inv
<1>. DEFINE h == local[w].item
<1>h. /\ h \in Items /\ drainers \in [Items -> Tag] /\ drainers[h] \in Tag
      /\ local[w] \in Locals /\ pc[w] = "close" /\ ClaimsOn(h) \subseteq Workers
      /\ LocalOK(w) /\ WorkerOK(w) /\ ItemOK(h)
  <2>1. pc[w] = "close" /\ h \in Items
    BY <1>0 DEF Close, LocalInv, LocalOK, HoldPcs, Registered, Held
  <2>. QED
    BY <1>0, <2>1 DEF TypeOK, Locals, ClaimsOn, LocalInv, ItemInv
<1>. DEFINE r == operation[h]
<1>r. r \in Recordings /\ tiles \in [Recordings -> Nat] /\ outcome[r] = None
  BY <1>0, <1>h DEF TypeOK, WorkerOK, AttachInv, Held
<1>1. PICK at \in {"pop", "leave"}, l \in Locals :
        /\ Go(w, at, l) /\ l = local[w]
        /\ at = "pop" <=> ~drainers[h].closed
        /\ drainers' \in [Items -> Tag] /\ \A i \in Items : i # h => drainers'[i] = drainers[i]
        /\ drainers'[h].gen = drainers[h].gen
        /\ drainers'[h].count = drainers[h].count /\ drainers'[h].claimed = drainers[h].claimed
        /\ drainers'[h].closed
        /\ UNCHANGED <<revision, current, ready, pending, free, allocated, operation, tiles,
                       error, outcome, phase, slot, needs, terminal, producer>>
  <2>1. UNCHANGED <<revision, current, ready, pending, free, allocated, operation, tiles, error, outcome, phase, slot, needs, terminal, producer>>
    BY DEF Close, queueVars, listVars, itemVars, slotVars
  <2>2. drainers' = [drainers EXCEPT ![h].closed = TRUE]
    BY DEF Close, Held
  <2>3. /\ drainers' \in [Items -> Tag] /\ \A i \in Items : i # h => drainers'[i] = drainers[i]
        /\ drainers'[h].gen = drainers[h].gen
        /\ drainers'[h].count = drainers[h].count /\ drainers'[h].claimed = drainers[h].claimed
        /\ drainers'[h].closed
    BY <1>h, <2>2 DEF Tag
  <2>4. Go(w, IF ~drainers[h].closed THEN "pop" ELSE "leave", local[w])
    BY DEF Close, Held
  <2>5. PICK at \in {"pop", "leave"} : at = IF ~drainers[h].closed THEN "pop" ELSE "leave"
    OBVIOUS
  <2>6. Go(w, at, local[w]) /\ (at = "pop" <=> ~drainers[h].closed)
    BY <2>4, <2>5
  <2>. QED
    BY <1>h, <2>1, <2>3, <2>6
<1>2. /\ pc' \in [Workers -> Pcs] /\ local' \in [Workers -> Locals]
      /\ pc'[w] = at /\ local'[w] = l
      /\ \A v \in Workers : v # w => pc'[v] = pc[v] /\ local'[v] = local[v]
  <2>1. at \in Pcs
    BY <1>1 DEF Pcs
  <2>. QED
    BY <1>0, <1>1, <2>1, Moved
<1>3. TypeOK'
  BY <1>0, <1>h, <1>r, <1>1, <1>2 DEF TypeOK, Locals, Revisions
<1>4. LocalInv'
  <2>. SUFFICES ASSUME NEW v \in Workers PROVE LocalOK(v)'
    BY DEF LocalInv
  <2>1. CASE v = w
    BY <1>0, <1>h, <1>r, <1>1, <1>2, <2>1 DEF LocalInv, LocalOK, HoldPcs, Registered, Held
  <2>2. CASE v # w
    BY <1>0, <1>h, <1>r, <1>1, <1>2, <2>2 DEF LocalInv, LocalOK, Held
  <2>. QED
    BY <2>1, <2>2
<1>5. ClaimsAreCounted'
  <2>1. CountFrame
    BY <1>0, <1>h, <1>r, <1>1, <1>2 DEF CountFrame, Registered
  <2>. QED
    BY <1>0, <2>1, CountFramed
<1>6. LockInv'
  <2>1. LockFrame
    BY <1>0, <1>h, <1>r, <1>1, <1>2 DEF LockFrame, Locks, ProducerLocks
  <2>. QED
    BY <1>0, <2>1, LockFramed
<1>7. SnapshotInv'
  <2>1. SnapshotOK(w)'
    BY <1>0, <1>h, <1>r, <1>1, <1>2 DEF SnapshotInv, SnapshotOK, Seen, Updating, Held
  <2>2. ASSUME NEW v \in Workers, v # w PROVE SnapshotOK(v)'
    <3>1. SnapshotOK(v) /\ pc'[v] = pc[v] /\ local'[v] = local[v]
      BY <1>0, <1>h, <1>r, <1>1, <1>2, <2>2 DEF SnapshotInv
    <3>2. pc[v] = "register" => local[v].item \in Items
      BY <1>0 DEF LocalInv, LocalOK, HoldPcs, Held
    <3>. QED
      BY <1>0, <1>h, <1>r, <1>1, <1>2, <3>1, <3>2, <2>2 DEF SnapshotOK, Seen, Updating, Held
  <2>3. Seen(Control)' /\ producer'.at = "cas" => ~Updating'
    BY <1>0, <1>h, <1>r, <1>1, <1>2, Constants DEF SnapshotInv, Seen, Updating
  <2>. QED
    BY <2>1, <2>2, <2>3 DEF SnapshotInv
<1>8. ItemInv'
  <2>1. current = h \/ drainers[h].closed
    BY <1>h DEF WorkerOK, Held
  <2>2. ~drainers[h].closed => \A v \in Workers : pc[v] \notin Closers
    <3>1. ASSUME NEW v \in Workers, pc[v] \in Closers, ~drainers[h].closed PROVE FALSE
      <4>1. current = local[v].item /\ drainers[local[v].item].closed
        BY <1>0, <3>1 DEF ItemInv, WorkerOK, Held
      <4>. QED
        BY <2>1, <3>1, <4>1
    <3>. QED
      BY <3>1
  <2>3. ASSUME NEW v \in Workers PROVE WorkerOK(v)'
    <3>1. LocalOK(v) /\ WorkerOK(v)
      BY <1>0 DEF LocalInv, ItemInv
    <3>2. \A i \in Items : /\ drainers'[i].claimed = drainers[i].claimed
                            /\ drainers'[i].gen = drainers[i].gen
                            /\ drainers[i].closed => drainers'[i].closed
      BY <1>0, <1>h, <1>r, <1>1, <1>2
    <3>3. CASE v # w
      <4>1. /\ pc'[v] \in Registered \ {"leave"} => ~drainers'[local'[v].item].claimed
            /\ pc'[v] \in {"processor", "tile", "close"} =>
                 /\ operation'[local'[v].item] # None
                 /\ current' = local'[v].item \/ drainers'[local'[v].item].closed
            /\ pc'[v] \in Closers => current' = local'[v].item /\ drainers'[local'[v].item].closed
            /\ pc'[v] \in Releasers =>
                 drainers'[local'[v].item].claimed /\ local'[v].gen = drainers'[local'[v].item].gen
            /\ pc'[v] = "clear" => operation'[local'[v].item] # None
        BY <1>0, <1>h, <1>r, <1>1, <1>2, <3>1, <3>2, <3>3
        DEF WorkerOK, LocalOK, HoldPcs, Registered, Held, Closers, Releasers
      <4>2. ASSUME NEW u \in Workers
            PROVE  /\ pc'[v] \in Closers /\ pc'[u] \in Closers => u = v
                   /\ pc'[v] \in Releasers /\ pc'[u] \in Releasers /\ local'[u].item = local'[v].item =>
                        u = v
        BY <1>0, <1>h, <1>r, <1>1, <1>2, <2>2, <3>1, <3>3 DEF WorkerOK, Held, Closers, Releasers
      <4>. QED
        BY <4>1, <4>2 DEF WorkerOK, Held
    <3>4. CASE v = w
      <4>1. \A u \in Workers : pc'[w] \in Closers /\ pc'[u] \in Closers => u = w
        BY <1>0, <1>h, <1>r, <1>1, <1>2, <2>2 DEF Closers
      <4>. QED
        BY <1>0, <1>h, <1>r, <1>1, <1>2, <2>1, <3>1, <3>2, <3>4, <4>1
        DEF WorkerOK, LocalOK, HoldPcs, Registered, Held, Closers, Releasers
    <3>. QED
      BY <3>3, <3>4
  <2>4. ASSUME NEW i \in Items PROVE ItemOK(i)'
    <3>1. ItemOK(i)
      BY <1>0 DEF ItemInv
    <3>2. CASE i # h
      <4>1. drainers'[i] = drainers[i]
        BY <1>0, <1>h, <1>r, <1>1, <1>2, <3>2
      <4>2. ASSUME NEW v \in Workers, pc[v] \in Closers PROVE pc'[v] \in Closers /\ local'[v] = local[v]
        BY <1>0, <1>h, <1>r, <1>1, <1>2, <4>2 DEF Closers
      <4>. QED
        BY <1>0, <1>h, <1>r, <1>1, <1>2, <3>1, <4>1, <4>2 DEF ItemOK, Held
    <3>3. CASE i = h
      <4>1. ~drainers'[i].claimed /\ operation'[i] # None
        BY <1>0, <1>h, <1>r, <1>1, <1>2, <3>3 DEF WorkerOK, Registered, Held
      <4>2. CASE at = "pop"
        <5>1. pc'[w] \in Closers /\ Held(w)' = i
          BY <1>0, <1>h, <1>r, <1>1, <1>2, <3>3, <4>2 DEF Closers, Held
        <5>. QED
          BY <1>0, <1>h, <1>r, <1>1, <1>2, <4>1, <5>1, <3>3 DEF ItemOK
      <4>3. CASE at = "leave"
        <5>1. drainers[h].closed
          BY <1>0, <1>h, <1>r, <1>1, <1>2, <4>3
        <5>2. ASSUME NEW v \in Workers, pc[v] \in Closers PROVE pc'[v] \in Closers /\ local'[v] = local[v]
          BY <1>0, <1>h, <1>r, <1>1, <1>2, <5>2 DEF Closers
        <5>. QED
          BY <1>0, <1>h, <1>r, <1>1, <1>2, <3>1, <3>3, <4>1, <5>1, <5>2 DEF ItemOK, Held
      <4>. QED
        BY <1>1, <4>2, <4>3
    <3>. QED
      BY <3>2, <3>3
  <2>. QED
    BY <2>3, <2>4 DEF ItemInv
<1>9. OwnerInv'
  <2>1. ASSUME NEW i \in Items
        PROVE  /\ IsFree(i)' <=> IsFree(i)
               /\ IsPending(i)' <=> IsPending(i)
               /\ IsNext(i)' <=> IsNext(i)
               /\ IsProduced(i)' <=> IsProduced(i)
               /\ IsOpen(i) \/ IsClosed(i) <=> IsOpen(i)' \/ IsClosed(i)'
               /\ operation'[i] = operation[i] /\ allocated' = allocated
    <3>1. IsNext(i)' <=> IsNext(i)
      BY <1>0, <1>h, <1>r, <1>1, <1>2 DEF IsNext
    <3>2. current = h \/ drainers[h].closed
      BY <1>h DEF WorkerOK, Held
    <3>. QED
      BY <1>0, <1>h, <1>r, <1>1, <1>2, <3>1, <3>2
      DEF IsFree, IsPending, IsProduced, IsOpen, IsClosed
  <2>2. ASSUME NEW i \in Items PROVE OwnerOK(i)'
    BY <1>0, <2>1 DEF OwnerInv, OwnerOK
  <2>. QED
    BY <1>0, <1>h, <1>r, <1>1, <1>2, <2>2 DEF OwnerInv
<1>10. TileInv'
  <2>1. ASSUME NEW i \in Items PROVE Executing(i)' \subseteq Executing(i)
    BY <1>0, <1>h, <1>r, <1>1, <1>2 DEF Executing, Held
  <2>2. tiles[operation[h]] = 0 /\ Executing(h) = {}
    BY <1>0, <1>h DEF TileInv, Held
  <2>3. ASSUME NEW v \in Workers, pc'[v] = "close"
        PROVE  (tiles[operation[Held(v)]] = 0 /\ Executing(Held(v)) = {})'
    <3>0. v # w /\ pc[v] = "close"
      BY <1>0, <1>h, <1>r, <1>1, <1>2, <2>3
    <3>1. PICK i \in Items : i = local'[v].item /\ i = local[v].item
      BY <1>0, <1>h, <1>r, <1>1, <1>2, <3>0 DEF LocalInv, LocalOK, HoldPcs, Registered, Held
    <3>2. tiles[operation[i]] = 0 /\ Executing(i)' = {}
      BY <1>0, <1>h, <1>r, <1>1, <1>2, <2>1, <3>0, <3>1 DEF TileInv, Held
    <3>3. Executing(Held(v))' = {}
      BY <3>1, <3>2 DEF Executing, Held
    <3>. QED
      BY <1>0, <1>h, <1>r, <1>1, <1>2, <3>1, <3>2, <3>3 DEF Held
  <2>4. ASSUME NEW i \in Items, drainers'[i].closed, operation'[i] # None
        PROVE  tiles'[operation'[i]] = 0 /\ Executing(i)' = {}
    BY <1>0, <1>h, <1>r, <1>1, <1>2, <2>1, <2>2, <2>4 DEF TileInv
  <2>. QED
    BY <2>3, <2>4 DEF TileInv
<1>11. AttachInv'
  <2>1. AttachFrame
    BY <1>0, <1>h, <1>r, <1>1, <1>2 DEF AttachFrame
  <2>. QED
    BY <1>0, <2>1, AttachFramed
<1>12. OutcomeIsTrue'
  BY <1>0, <1>h, <1>r, <1>1, <1>2, OutcomeFramed
<1>13. PhaseInv'
  <2>1. Inside' = Inside /\ w \in Inside
    BY <1>0, <1>h, <1>r, <1>1, <1>2 DEF Inside
  <2>2. \A v \in Workers : pc[v] # "release" /\ pc'[v] # "release"
    BY <1>0, <1>h, <1>r, <1>1, <1>2, <2>1 DEF PhaseInv
  <2>3. (phase # "running" => producer.at = "idle" /\ OperationsEnded)'
    BY <1>0, <1>h, <1>r, <1>1, <1>2 DEF PhaseInv, OperationsEnded
  <2>4. (terminal \/ slot = "released" => phase # "running")'
    BY <1>0, <1>h, <1>r, <1>1, <1>2 DEF PhaseInv
  <2>5. \A v \in Workers : local'[v].result = "completed" => phase' # "running"
    BY <1>0, <1>h, <1>r, <1>1, <1>2 DEF PhaseInv
  <2>6. slot' # "idle"
    BY <1>0, <1>h, <1>r, <1>1, <1>2, <2>1 DEF PhaseInv
  <2>. QED
    BY <2>1, <2>2, <2>3, <2>4, <2>5, <2>6 DEF PhaseInv
<1>14. CoverInv'
  <2>1. Works(w)'
    BY <1>0, <1>h, <1>r, <1>1, <1>2 DEF Works, LocalInv, LocalOK
  <2>. QED
    BY <2>1, BackedCovers DEF Backed
<1>. QED
  BY <1>3, <1>4, <1>5, <1>6, <1>7, <1>8, <1>9, <1>10, <1>11, <1>12, <1>13, <1>14 DEF Inv


----------------------------------------------------------------------------
(* Publishing the next recording.                                          *)

LEMMA PopNextKeeps ==
  ASSUME Inv, NEW w \in Workers, PopNext(w) PROVE Inv'
<1>0. /\ TypeOK /\ LocalInv /\ ClaimsAreCounted /\ LockInv /\ SnapshotInv /\ ItemInv
      /\ OwnerInv /\ TileInv /\ AttachInv /\ OutcomeIsTrue /\ PhaseInv /\ CoverInv
  BY DEF Inv
<1>. DEFINE h == local[w].item
<1>h. /\ h \in Items /\ drainers \in [Items -> Tag] /\ drainers[h] \in Tag
      /\ local[w] \in Locals /\ pc[w] = "pop" /\ ClaimsOn(h) \subseteq Workers
      /\ LocalOK(w) /\ WorkerOK(w) /\ ItemOK(h)
  <2>1. pc[w] = "pop" /\ h \in Items
    BY <1>0 DEF PopNext, LocalInv, LocalOK, HoldPcs, Registered, Held
  <2>. QED
    BY <1>0, <2>1 DEF TypeOK, Locals, ClaimsOn, LocalInv, ItemInv
<1>1. PICK at \in {"begin"}, l \in Locals :
        /\ Go(w, at, l) /\ l.item = h /\ l.gen = local[w].gen /\ l.result = local[w].result
        /\ l.next \in Items \cup {None}
        /\ pending' \in Seq(Items) /\ IsInjective(pending')
        /\ ToSet(pending') = ToSet(pending) \ {l.next}
        /\ l.next # None => l.next \in ToSet(pending)
        /\ UNCHANGED <<revision, current, ready, free, allocated, drainers, operation, tiles,
                       error, outcome, phase, slot, needs, terminal, producer>>
  <2>1. UNCHANGED <<revision, current, ready, free, allocated, drainers, operation, tiles, error, outcome, phase, slot, needs, terminal, producer>>
    BY DEF PopNext, queueVars, listVars, itemVars, slotVars
  <2>2. PICK n \in Items \cup {None} :
          /\ n = Popped(pending) /\ pending' = Rest(pending)
          /\ pending' \in Seq(Items) /\ IsInjective(pending')
          /\ ToSet(pending') = ToSet(pending) \ {n}
          /\ n # None => n \in ToSet(pending)
    <3>1. pending \in Seq(Items) /\ IsInjective(pending) /\ pending' = Rest(pending)
      BY <1>0 DEF TypeOK, OwnerInv, PopNext
    <3>. QED
      BY <3>1, RestFacts
  <2>3. PICK l \in Locals : l = [local[w] EXCEPT !.next = n]
    BY <1>h DEF Locals
  <2>4. l.item = h /\ l.gen = local[w].gen /\ l.next = n /\ l.result = local[w].result
    BY <1>h, <2>3 DEF Locals
  <2>5. Go(w, "begin", l)
    BY <2>2, <2>3 DEF PopNext
  <2>. QED
    BY <2>1, <2>2, <2>4, <2>5
<1>2. /\ pc' \in [Workers -> Pcs] /\ local' \in [Workers -> Locals]
      /\ pc'[w] = at /\ local'[w] = l
      /\ \A v \in Workers : v # w => pc'[v] = pc[v] /\ local'[v] = local[v]
  <2>1. at \in Pcs
    BY <1>1 DEF Pcs
  <2>. QED
    BY <1>0, <1>1, <2>1, Moved
<1>3. TypeOK'
  BY <1>0, <1>h, <1>1, <1>2 DEF TypeOK, Locals, Revisions
<1>4. LocalInv'
  <2>. SUFFICES ASSUME NEW v \in Workers PROVE LocalOK(v)'
    BY DEF LocalInv
  <2>1. CASE v = w
    BY <1>0, <1>h, <1>1, <1>2, <2>1 DEF LocalInv, LocalOK, HoldPcs, Registered, Held
  <2>2. CASE v # w
    BY <1>0, <1>h, <1>1, <1>2, <2>2 DEF LocalInv, LocalOK, Held
  <2>. QED
    BY <2>1, <2>2
<1>5. ClaimsAreCounted'
  <2>1. CountFrame
    BY <1>0, <1>h, <1>1, <1>2 DEF CountFrame, Registered
  <2>. QED
    BY <1>0, <2>1, CountFramed
<1>6. LockInv'
  <2>1. LockFrame
    BY <1>0, <1>h, <1>1, <1>2 DEF LockFrame, Locks, ProducerLocks
  <2>. QED
    BY <1>0, <2>1, LockFramed
<1>7. SnapshotInv'
  <2>1. SnapshotOK(w)'
    BY <1>0, <1>h, <1>1, <1>2 DEF SnapshotInv, SnapshotOK, Seen, Updating, Held
  <2>2. ASSUME NEW v \in Workers, v # w PROVE SnapshotOK(v)'
    <3>1. SnapshotOK(v) /\ pc'[v] = pc[v] /\ local'[v] = local[v]
      BY <1>0, <1>h, <1>1, <1>2, <2>2 DEF SnapshotInv
    <3>2. pc[v] = "register" => local[v].item \in Items
      BY <1>0 DEF LocalInv, LocalOK, HoldPcs, Held
    <3>. QED
      BY <1>0, <1>h, <1>1, <1>2, <3>1, <3>2, <2>2 DEF SnapshotOK, Seen, Updating, Held
  <2>3. Seen(Control)' /\ producer'.at = "cas" => ~Updating'
    BY <1>0, <1>h, <1>1, <1>2, Constants DEF SnapshotInv, Seen, Updating
  <2>. QED
    BY <2>1, <2>2, <2>3 DEF SnapshotInv
<1>8. ItemInv'
  <2>1. ItemFrame
    BY <1>0, <1>h, <1>1, <1>2 DEF ItemFrame, Closers, Releasers
  <2>2. ASSUME NEW v \in Workers
        PROVE  /\ pc'[v] \in Registered \ {"leave"} =>
                    local'[v].item \in Items /\ ~drainers[local'[v].item].claimed
               /\ pc'[v] \in {"processor", "tile", "close"} =>
                    /\ operation[local'[v].item] # None
                    /\ current = local'[v].item \/ drainers[local'[v].item].closed
               /\ pc'[v] = "clear" => pc[v] = "clear"
    <3>1. LocalOK(v) /\ WorkerOK(v)
      BY <1>0 DEF LocalInv, ItemInv
    <3>2. CASE v = w
      BY <1>0, <1>h, <1>1, <1>2, <3>1, <3>2 DEF WorkerOK, LocalOK, HoldPcs, Registered, Held
    <3>3. CASE v # w
      BY <1>0, <1>h, <1>1, <1>2, <3>1, <3>3 DEF WorkerOK, LocalOK, HoldPcs, Held
    <3>. QED
      BY <3>2, <3>3
  <2>. QED
    BY <1>0, <2>1, <2>2, ItemFramed
<1>9. OwnerInv'
  <2>0. PICK n : n = l.next
    OBVIOUS
  <2>1. ASSUME NEW i \in Items
        PROVE  /\ IsFree(i)' <=> IsFree(i)
               /\ IsPending(i)' <=> IsPending(i) /\ i # n
               /\ IsNext(i)' <=> IsNext(i) \/ i = n
               /\ i = n => IsPending(i)
               /\ IsProduced(i)' <=> IsProduced(i)
               /\ IsOpen(i)' <=> IsOpen(i)
               /\ IsClosed(i)' <=> IsClosed(i)
               /\ operation'[i] = operation[i] /\ allocated' = allocated
    <3>1. IsNext(i)' <=> IsNext(i) \/ i = n
      BY <1>0, <1>h, <1>1, <1>2, <2>0 DEF IsNext
    <3>. QED
      BY <1>0, <1>h, <1>1, <1>2, <2>0, <3>1, Constants
      DEF IsFree, IsPending, IsProduced, IsOpen, IsClosed
  <2>2. ASSUME NEW i \in Items PROVE OwnerOK(i)'
    <3>1. OwnerOK(i)
      BY <1>0 DEF OwnerInv
    <3>. QED
      BY <2>1, <3>1 DEF OwnerOK
  <2>. QED
    BY <1>0, <1>h, <1>1, <1>2, <2>2 DEF OwnerInv
<1>10. TileInv'
  <2>1. TileFrame
    BY <1>0, <1>h, <1>1, <1>2 DEF TileFrame
  <2>. QED
    BY <1>0, <2>1, TileFramed
<1>11. AttachInv'
  <2>1. AttachFrame
    BY <1>0, <1>h, <1>1, <1>2 DEF AttachFrame
  <2>. QED
    BY <1>0, <2>1, AttachFramed
<1>12. OutcomeIsTrue'
  BY <1>0, <1>h, <1>1, <1>2, OutcomeFramed
<1>13. PhaseInv'
  <2>1. Inside' = Inside /\ w \in Inside
    BY <1>0, <1>h, <1>1, <1>2 DEF Inside
  <2>2. \A v \in Workers : pc[v] # "release" /\ pc'[v] # "release"
    BY <1>0, <1>h, <1>1, <1>2, <2>1 DEF PhaseInv
  <2>3. (phase # "running" => producer.at = "idle" /\ OperationsEnded)'
    BY <1>0, <1>h, <1>1, <1>2 DEF PhaseInv, OperationsEnded
  <2>4. (terminal \/ slot = "released" => phase # "running")'
    BY <1>0, <1>h, <1>1, <1>2 DEF PhaseInv
  <2>5. \A v \in Workers : local'[v].result = "completed" => phase' # "running"
    BY <1>0, <1>h, <1>1, <1>2 DEF PhaseInv
  <2>6. slot' # "idle"
    BY <1>0, <1>h, <1>1, <1>2, <2>1 DEF PhaseInv
  <2>. QED
    BY <2>1, <2>2, <2>3, <2>4, <2>5, <2>6 DEF PhaseInv
<1>14. CoverInv'
  <2>1. Works(w)'
    BY <1>0, <1>h, <1>1, <1>2 DEF Works, LocalInv, LocalOK
  <2>. QED
    BY <2>1, BackedCovers DEF Backed
<1>. QED
  BY <1>3, <1>4, <1>5, <1>6, <1>7, <1>8, <1>9, <1>10, <1>11, <1>12, <1>13, <1>14 DEF Inv

LEMMA BeginUpdateKeeps ==
  ASSUME Inv, NEW w \in Workers, BeginUpdate(w) PROVE Inv'
<1>0. /\ TypeOK /\ LocalInv /\ ClaimsAreCounted /\ LockInv /\ SnapshotInv /\ ItemInv
      /\ OwnerInv /\ TileInv /\ AttachInv /\ OutcomeIsTrue /\ PhaseInv /\ CoverInv
  BY DEF Inv
<1>. DEFINE h == local[w].item
<1>h. /\ h \in Items /\ drainers \in [Items -> Tag] /\ drainers[h] \in Tag
      /\ local[w] \in Locals /\ pc[w] = "begin" /\ ClaimsOn(h) \subseteq Workers
      /\ LocalOK(w) /\ WorkerOK(w) /\ ItemOK(h)
  <2>1. pc[w] = "begin" /\ h \in Items
    BY <1>0 DEF BeginUpdate, LocalInv, LocalOK, HoldPcs, Registered, Held
  <2>. QED
    BY <1>0, <2>1 DEF TypeOK, Locals, ClaimsOn, LocalInv, ItemInv
<1>1. PICK at \in {"store"}, l \in Locals :
        /\ Go(w, at, l) /\ l = local[w] /\ ~Updating
        /\ revision' \in Revisions /\ revision'.updating = TRUE /\ revision'.seen = {}
        /\ UNCHANGED <<current, ready, pending, free, allocated, drainers, operation, tiles,
                       error, outcome, phase, slot, needs, terminal, producer>>
  BY <1>h, EvenOdd DEF BeginUpdate, queueVars, listVars, itemVars, slotVars
<1>2. /\ pc' \in [Workers -> Pcs] /\ local' \in [Workers -> Locals]
      /\ pc'[w] = at /\ local'[w] = l
      /\ \A v \in Workers : v # w => pc'[v] = pc[v] /\ local'[v] = local[v]
  <2>1. at \in Pcs
    BY <1>1 DEF Pcs
  <2>. QED
    BY <1>0, <1>1, <2>1, Moved
<1>3. TypeOK'
  BY <1>0, <1>h, <1>1, <1>2 DEF TypeOK, Locals, Revisions
<1>4. LocalInv'
  <2>. SUFFICES ASSUME NEW v \in Workers PROVE LocalOK(v)'
    BY DEF LocalInv
  <2>1. CASE v = w
    BY <1>0, <1>h, <1>1, <1>2, <2>1 DEF LocalInv, LocalOK, HoldPcs, Registered, Held
  <2>2. CASE v # w
    BY <1>0, <1>h, <1>1, <1>2, <2>2 DEF LocalInv, LocalOK, Held
  <2>. QED
    BY <2>1, <2>2
<1>5. ClaimsAreCounted'
  <2>1. CountFrame
    BY <1>0, <1>h, <1>1, <1>2 DEF CountFrame, Registered
  <2>. QED
    BY <1>0, <2>1, CountFramed
<1>6. LockInv'
  <2>1. (\A v \in Workers : ~Locks(v)) /\ ~ProducerLocks
    BY <1>0, <1>h, <1>1, <1>2 DEF LockInv
  <2>2. \A v \in Workers : Locks(v)' <=> v = w
    BY <1>0, <1>h, <1>1, <1>2, <2>1 DEF Locks
  <2>. QED
    BY <1>0, <1>h, <1>1, <1>2, <2>1, <2>2 DEF LockInv, ProducerLocks, Updating
<1>7. SnapshotInv'
  <2>1. SnapshotOK(w)'
    BY <1>0, <1>h, <1>1, <1>2 DEF SnapshotInv, SnapshotOK, Seen, Updating, Held
  <2>2. ASSUME NEW v \in Workers, v # w PROVE SnapshotOK(v)'
    <3>1. SnapshotOK(v) /\ pc'[v] = pc[v] /\ local'[v] = local[v]
      BY <1>0, <1>h, <1>1, <1>2, <2>2 DEF SnapshotInv
    <3>2. pc[v] = "register" => local[v].item \in Items
      BY <1>0 DEF LocalInv, LocalOK, HoldPcs, Held
    <3>. QED
      BY <1>0, <1>h, <1>1, <1>2, <3>1, <3>2, <2>2 DEF SnapshotOK, Seen, Updating, Held
  <2>3. Seen(Control)' /\ producer'.at = "cas" => ~Updating'
    BY <1>0, <1>h, <1>1, <1>2, Constants DEF SnapshotInv, Seen, Updating
  <2>. QED
    BY <2>1, <2>2, <2>3 DEF SnapshotInv
<1>8. ItemInv'
  <2>1. ItemFrame
    BY <1>0, <1>h, <1>1, <1>2 DEF ItemFrame, Closers, Releasers
  <2>2. ASSUME NEW v \in Workers
        PROVE  /\ pc'[v] \in Registered \ {"leave"} =>
                    local'[v].item \in Items /\ ~drainers[local'[v].item].claimed
               /\ pc'[v] \in {"processor", "tile", "close"} =>
                    /\ operation[local'[v].item] # None
                    /\ current = local'[v].item \/ drainers[local'[v].item].closed
               /\ pc'[v] = "clear" => pc[v] = "clear"
    <3>1. LocalOK(v) /\ WorkerOK(v)
      BY <1>0 DEF LocalInv, ItemInv
    <3>2. CASE v = w
      BY <1>0, <1>h, <1>1, <1>2, <3>1, <3>2 DEF WorkerOK, LocalOK, HoldPcs, Registered, Held
    <3>3. CASE v # w
      BY <1>0, <1>h, <1>1, <1>2, <3>1, <3>3 DEF WorkerOK, LocalOK, HoldPcs, Held
    <3>. QED
      BY <3>2, <3>3
  <2>. QED
    BY <1>0, <2>1, <2>2, ItemFramed
<1>9. OwnerInv'
  <2>1. OwnerFrame
    BY <1>0, <1>h, <1>1, <1>2 DEF OwnerFrame
  <2>. QED
    BY <1>0, <2>1, OwnerFramed
<1>10. TileInv'
  <2>1. TileFrame
    BY <1>0, <1>h, <1>1, <1>2 DEF TileFrame
  <2>. QED
    BY <1>0, <2>1, TileFramed
<1>11. AttachInv'
  <2>1. AttachFrame
    BY <1>0, <1>h, <1>1, <1>2 DEF AttachFrame
  <2>. QED
    BY <1>0, <2>1, AttachFramed
<1>12. OutcomeIsTrue'
  BY <1>0, <1>h, <1>1, <1>2, OutcomeFramed
<1>13. PhaseInv'
  <2>1. Inside' = Inside /\ w \in Inside
    BY <1>0, <1>h, <1>1, <1>2 DEF Inside
  <2>2. \A v \in Workers : pc[v] # "release" /\ pc'[v] # "release"
    BY <1>0, <1>h, <1>1, <1>2, <2>1 DEF PhaseInv
  <2>3. (phase # "running" => producer.at = "idle" /\ OperationsEnded)'
    BY <1>0, <1>h, <1>1, <1>2 DEF PhaseInv, OperationsEnded
  <2>4. (terminal \/ slot = "released" => phase # "running")'
    BY <1>0, <1>h, <1>1, <1>2 DEF PhaseInv
  <2>5. \A v \in Workers : local'[v].result = "completed" => phase' # "running"
    BY <1>0, <1>h, <1>1, <1>2 DEF PhaseInv
  <2>6. slot' # "idle"
    BY <1>0, <1>h, <1>1, <1>2, <2>1 DEF PhaseInv
  <2>. QED
    BY <2>1, <2>2, <2>3, <2>4, <2>5, <2>6 DEF PhaseInv
<1>14. CoverInv'
  <2>1. Works(w)'
    BY <1>0, <1>h, <1>1, <1>2 DEF Works, LocalInv, LocalOK
  <2>. QED
    BY <2>1, BackedCovers DEF Backed
<1>. QED
  BY <1>3, <1>4, <1>5, <1>6, <1>7, <1>8, <1>9, <1>10, <1>11, <1>12, <1>13, <1>14 DEF Inv

LEMMA StoreNextKeeps ==
  ASSUME Inv, NEW w \in Workers, StoreNext(w) PROVE Inv'
<1>0. /\ TypeOK /\ LocalInv /\ ClaimsAreCounted /\ LockInv /\ SnapshotInv /\ ItemInv
      /\ OwnerInv /\ TileInv /\ AttachInv /\ OutcomeIsTrue /\ PhaseInv /\ CoverInv
  BY DEF Inv
<1>. DEFINE h == local[w].item
<1>h. /\ h \in Items /\ drainers \in [Items -> Tag] /\ drainers[h] \in Tag
      /\ local[w] \in Locals /\ pc[w] = "store" /\ ClaimsOn(h) \subseteq Workers
      /\ LocalOK(w) /\ WorkerOK(w) /\ ItemOK(h)
  <2>1. pc[w] = "store" /\ h \in Items
    BY <1>0 DEF StoreNext, LocalInv, LocalOK, HoldPcs, Registered, Held
  <2>. QED
    BY <1>0, <2>1 DEF TypeOK, Locals, ClaimsOn, LocalInv, ItemInv
<1>n. /\ current = h /\ drainers[h].closed /\ revision.updating
      /\ \A v \in Workers : pc[v] \in Closers <=> v = w
  BY <1>0, <1>h DEF WorkerOK, Closers, LockInv, Locks, Updating, Held
<1>m. ASSUME NEW i \in Items PROVE OwnerOK(i)
  BY <1>0 DEF OwnerInv
<1>1. PICK at \in {"end"}, l \in Locals :
        /\ Go(w, at, l) /\ l = local[w] /\ l.next \in Items \cup {None}
        /\ current' = l.next
        /\ UNCHANGED <<revision, ready, pending, free, allocated, drainers, operation, tiles,
                       error, outcome, phase, slot, needs, terminal, producer>>
  <2>1. local[w].next \in Items \cup {None}
    BY <1>h DEF LocalOK
  <2>. QED
    BY <1>h, <2>1 DEF StoreNext, queueVars, listVars, itemVars, slotVars
<1>2. /\ pc' \in [Workers -> Pcs] /\ local' \in [Workers -> Locals]
      /\ pc'[w] = at /\ local'[w] = l
      /\ \A v \in Workers : v # w => pc'[v] = pc[v] /\ local'[v] = local[v]
  <2>1. at \in Pcs
    BY <1>1 DEF Pcs
  <2>. QED
    BY <1>0, <1>1, <2>1, Moved
<1>3. TypeOK'
  BY <1>0, <1>h, <1>1, <1>2, <1>n DEF TypeOK, Locals, Revisions
<1>4. LocalInv'
  <2>. SUFFICES ASSUME NEW v \in Workers PROVE LocalOK(v)'
    BY DEF LocalInv
  <2>1. CASE v = w
    BY <1>0, <1>h, <1>1, <1>2, <1>n, <2>1 DEF LocalInv, LocalOK, HoldPcs, Registered, Held
  <2>2. CASE v # w
    BY <1>0, <1>h, <1>1, <1>2, <1>n, <2>2 DEF LocalInv, LocalOK, Held
  <2>. QED
    BY <2>1, <2>2
<1>5. ClaimsAreCounted'
  <2>1. CountFrame
    BY <1>0, <1>h, <1>1, <1>2, <1>n DEF CountFrame, Registered
  <2>. QED
    BY <1>0, <2>1, CountFramed
<1>6. LockInv'
  <2>1. LockFrame
    BY <1>0, <1>h, <1>1, <1>2, <1>n DEF LockFrame, Locks, ProducerLocks
  <2>. QED
    BY <1>0, <2>1, LockFramed
<1>7. SnapshotInv'
  <2>1. SnapshotOK(w)'
    BY <1>0, <1>h, <1>1, <1>2, <1>n DEF SnapshotInv, SnapshotOK, Seen, Updating, Held
  <2>2. ASSUME NEW v \in Workers, v # w PROVE SnapshotOK(v)'
    <3>1. SnapshotOK(v) /\ pc'[v] = pc[v] /\ local'[v] = local[v]
      BY <1>0, <1>h, <1>1, <1>2, <1>n, <2>2 DEF SnapshotInv
    <3>2. pc[v] = "register" => local[v].item \in Items
      BY <1>0 DEF LocalInv, LocalOK, HoldPcs, Held
    <3>. QED
      BY <1>0, <1>h, <1>1, <1>2, <1>n, <3>1, <3>2, <2>2 DEF SnapshotOK, Seen, Updating, Held
  <2>3. Seen(Control)' /\ producer'.at = "cas" => ~Updating'
    BY <1>0, <1>h, <1>1, <1>2, <1>n, Constants DEF SnapshotInv, Seen, Updating
  <2>. QED
    BY <2>1, <2>2, <2>3 DEF SnapshotInv
<1>8. ItemInv'
  <2>1. ASSUME NEW v \in Workers PROVE WorkerOK(v)'
    <3>1. LocalOK(v) /\ WorkerOK(v)
      BY <1>0 DEF LocalInv, ItemInv
    <3>2. CASE v = w
      BY <1>0, <1>h, <1>1, <1>2, <1>n, <3>1, <3>2
      DEF WorkerOK, Registered, Closers, Releasers, Held
    <3>3. CASE v # w
      <4>1. pc'[v] \notin Closers
        BY <1>0, <1>h, <1>1, <1>2, <1>n, <3>3
      <4>. QED
        BY <1>0, <1>h, <1>1, <1>2, <1>n, <3>1, <3>3, <4>1 DEF WorkerOK, Releasers, Held
    <3>. QED
      BY <3>2, <3>3
  <2>2. ASSUME NEW i \in Items PROVE ItemOK(i)'
    <3>1. ItemOK(i) /\ OwnerOK(i)
      BY <1>0, <1>m DEF ItemInv
    <3>2. ASSUME current' = i PROVE operation[i] # None /\ ~drainers[i].closed
      <4>1. IsNext(i)
        BY <1>0, <1>h, <1>1, <1>2, <1>n, <3>2 DEF IsNext
      <4>. QED
        BY <3>1, <4>1 DEF OwnerOK, IsClosed
    <3>. QED
      BY <1>0, <1>h, <1>1, <1>2, <1>n, <3>1, <3>2 DEF ItemOK
  <2>. QED
    BY <2>1, <2>2 DEF ItemInv
<1>9. OwnerInv'
  <2>1. ASSUME NEW i \in Items
        PROVE  /\ IsFree(i)' <=> IsFree(i)
               /\ IsPending(i)' <=> IsPending(i)
               /\ IsNext(i) <=> i = l.next
               /\ ~IsNext(i)'
               /\ IsProduced(i)' <=> IsProduced(i)
               /\ ~IsOpen(i)
               /\ IsOpen(i)' <=> i = l.next /\ ~IsClosed(i)
               /\ IsClosed(i)' <=> IsClosed(i)
               /\ operation'[i] = operation[i] /\ allocated' = allocated
    <3>1. IsNext(i) <=> i = l.next
      BY <1>0, <1>h, <1>1, <1>2, <1>n DEF IsNext, Closers
    <3>2. ~IsNext(i)'
      BY <1>0, <1>h, <1>1, <1>2, <1>n DEF IsNext, Closers
    <3>. QED
      BY <1>0, <1>h, <1>1, <1>2, <1>n, <3>1, <3>2
      DEF IsFree, IsPending, IsProduced, IsOpen, IsClosed
  <2>2. ASSUME NEW i \in Items PROVE OwnerOK(i)'
    BY <1>m, <2>1 DEF OwnerOK
  <2>. QED
    BY <1>0, <1>h, <1>1, <1>2, <1>n, <2>2 DEF OwnerInv
<1>10. TileInv'
  <2>1. TileFrame
    BY <1>0, <1>h, <1>1, <1>2, <1>n DEF TileFrame
  <2>. QED
    BY <1>0, <2>1, TileFramed
<1>11. AttachInv'
  <2>1. AttachFrame
    BY <1>0, <1>h, <1>1, <1>2, <1>n DEF AttachFrame
  <2>. QED
    BY <1>0, <2>1, AttachFramed
<1>12. OutcomeIsTrue'
  BY <1>0, <1>h, <1>1, <1>2, <1>n, OutcomeFramed
<1>13. PhaseInv'
  <2>1. Inside' = Inside /\ w \in Inside
    BY <1>0, <1>h, <1>1, <1>2, <1>n DEF Inside
  <2>2. \A v \in Workers : pc[v] # "release" /\ pc'[v] # "release"
    BY <1>0, <1>h, <1>1, <1>2, <1>n, <2>1 DEF PhaseInv
  <2>3. (phase # "running" => producer.at = "idle" /\ OperationsEnded)'
    BY <1>0, <1>h, <1>1, <1>2, <1>n DEF PhaseInv, OperationsEnded
  <2>4. (terminal \/ slot = "released" => phase # "running")'
    BY <1>0, <1>h, <1>1, <1>2, <1>n DEF PhaseInv
  <2>5. \A v \in Workers : local'[v].result = "completed" => phase' # "running"
    BY <1>0, <1>h, <1>1, <1>2, <1>n DEF PhaseInv
  <2>6. slot' # "idle"
    BY <1>0, <1>h, <1>1, <1>2, <1>n, <2>1 DEF PhaseInv
  <2>. QED
    BY <2>1, <2>2, <2>3, <2>4, <2>5, <2>6 DEF PhaseInv
<1>14. CoverInv'
  <2>1. Works(w)'
    BY <1>0, <1>h, <1>1, <1>2, <1>n DEF Works, LocalInv, LocalOK
  <2>. QED
    BY <2>1, BackedCovers DEF Backed
<1>. QED
  BY <1>3, <1>4, <1>5, <1>6, <1>7, <1>8, <1>9, <1>10, <1>11, <1>12, <1>13, <1>14 DEF Inv

LEMMA EndUpdateKeeps ==
  ASSUME Inv, NEW w \in Workers, EndUpdate(w) PROVE Inv'
<1>0. /\ TypeOK /\ LocalInv /\ ClaimsAreCounted /\ LockInv /\ SnapshotInv /\ ItemInv
      /\ OwnerInv /\ TileInv /\ AttachInv /\ OutcomeIsTrue /\ PhaseInv /\ CoverInv
  BY DEF Inv
<1>. DEFINE h == local[w].item
<1>h. /\ h \in Items /\ drainers \in [Items -> Tag] /\ drainers[h] \in Tag
      /\ local[w] \in Locals /\ pc[w] = "end" /\ ClaimsOn(h) \subseteq Workers
      /\ LocalOK(w) /\ WorkerOK(w) /\ ItemOK(h)
  <2>1. pc[w] = "end" /\ h \in Items
    BY <1>0 DEF EndUpdate, LocalInv, LocalOK, HoldPcs, Registered, Held
  <2>. QED
    BY <1>0, <2>1 DEF TypeOK, Locals, ClaimsOn, LocalInv, ItemInv
<1>1. PICK at \in {"schedule", "leave"}, l \in Locals :
        /\ Go(w, at, l) /\ l.item = h /\ l.gen = local[w].gen /\ l.next = None
        /\ l.result = local[w].result
        /\ revision' \in Revisions /\ revision'.updating = FALSE /\ revision'.seen = {}
        /\ UNCHANGED <<current, ready, pending, free, allocated, drainers, operation, tiles,
                       error, outcome, phase, slot, needs, terminal, producer>>
  <2>1. UNCHANGED <<current, ready, pending, free, allocated, drainers, operation, tiles, error, outcome, phase, slot, needs, terminal, producer>>
    BY DEF EndUpdate, queueVars, listVars, itemVars, slotVars
  <2>2. PICK l \in Locals : l = [local[w] EXCEPT !.next = None]
    BY <1>h DEF Locals
  <2>3. l.item = h /\ l.gen = local[w].gen /\ l.next = None /\ l.result = local[w].result
    BY <1>h, <2>2 DEF Locals
  <2>4. PICK at \in {"schedule", "leave"} : at = IF local[w].next # None THEN "schedule" ELSE "leave"
    OBVIOUS
  <2>5. Go(w, at, l) /\ revision' = Even
    BY <2>2, <2>4 DEF EndUpdate
  <2>. QED
    BY <2>1, <2>3, <2>5, EvenOdd
<1>2. /\ pc' \in [Workers -> Pcs] /\ local' \in [Workers -> Locals]
      /\ pc'[w] = at /\ local'[w] = l
      /\ \A v \in Workers : v # w => pc'[v] = pc[v] /\ local'[v] = local[v]
  <2>1. at \in Pcs
    BY <1>1 DEF Pcs
  <2>. QED
    BY <1>0, <1>1, <2>1, Moved
<1>3. TypeOK'
  BY <1>0, <1>h, <1>1, <1>2 DEF TypeOK, Locals, Revisions
<1>4. LocalInv'
  <2>. SUFFICES ASSUME NEW v \in Workers PROVE LocalOK(v)'
    BY DEF LocalInv
  <2>1. CASE v = w
    BY <1>0, <1>h, <1>1, <1>2, <2>1 DEF LocalInv, LocalOK, HoldPcs, Registered, Held
  <2>2. CASE v # w
    BY <1>0, <1>h, <1>1, <1>2, <2>2 DEF LocalInv, LocalOK, Held
  <2>. QED
    BY <2>1, <2>2
<1>5. ClaimsAreCounted'
  <2>1. CountFrame
    BY <1>0, <1>h, <1>1, <1>2 DEF CountFrame, Registered
  <2>. QED
    BY <1>0, <2>1, CountFramed
<1>6. LockInv'
  <2>1. (\A v \in Workers : Locks(v) <=> v = w) /\ ~ProducerLocks
    BY <1>0, <1>h DEF LockInv, Locks
  <2>2. \A v \in Workers : ~Locks(v)'
    BY <1>0, <1>h, <1>1, <1>2, <2>1 DEF Locks
  <2>. QED
    BY <1>0, <1>h, <1>1, <1>2, <2>1, <2>2 DEF LockInv, ProducerLocks, Updating
<1>7. SnapshotInv'
  <2>1. SnapshotOK(w)'
    BY <1>0, <1>h, <1>1, <1>2 DEF SnapshotInv, SnapshotOK, Seen, Updating, Held
  <2>2. ASSUME NEW v \in Workers, v # w PROVE SnapshotOK(v)'
    <3>1. SnapshotOK(v) /\ pc'[v] = pc[v] /\ local'[v] = local[v]
      BY <1>0, <1>h, <1>1, <1>2, <2>2 DEF SnapshotInv
    <3>2. pc[v] = "register" => local[v].item \in Items
      BY <1>0 DEF LocalInv, LocalOK, HoldPcs, Held
    <3>. QED
      BY <1>0, <1>h, <1>1, <1>2, <3>1, <3>2, <2>2 DEF SnapshotOK, Seen, Updating, Held
  <2>3. Seen(Control)' /\ producer'.at = "cas" => ~Updating'
    BY <1>0, <1>h, <1>1, <1>2, Constants DEF SnapshotInv, Seen, Updating
  <2>. QED
    BY <2>1, <2>2, <2>3 DEF SnapshotInv
<1>8. ItemInv'
  <2>1. ItemFrame
    BY <1>0, <1>h, <1>1, <1>2 DEF ItemFrame, Closers, Releasers
  <2>2. ASSUME NEW v \in Workers
        PROVE  /\ pc'[v] \in Registered \ {"leave"} =>
                    local'[v].item \in Items /\ ~drainers[local'[v].item].claimed
               /\ pc'[v] \in {"processor", "tile", "close"} =>
                    /\ operation[local'[v].item] # None
                    /\ current = local'[v].item \/ drainers[local'[v].item].closed
               /\ pc'[v] = "clear" => pc[v] = "clear"
    <3>1. LocalOK(v) /\ WorkerOK(v)
      BY <1>0 DEF LocalInv, ItemInv
    <3>2. CASE v = w
      BY <1>0, <1>h, <1>1, <1>2, <3>1, <3>2 DEF WorkerOK, LocalOK, HoldPcs, Registered, Held
    <3>3. CASE v # w
      BY <1>0, <1>h, <1>1, <1>2, <3>1, <3>3 DEF WorkerOK, LocalOK, HoldPcs, Held
    <3>. QED
      BY <3>2, <3>3
  <2>. QED
    BY <1>0, <2>1, <2>2, ItemFramed
<1>9. OwnerInv'
  <2>1. OwnerFrame
    BY <1>0, <1>h, <1>1, <1>2 DEF OwnerFrame
  <2>. QED
    BY <1>0, <2>1, OwnerFramed
<1>10. TileInv'
  <2>1. TileFrame
    BY <1>0, <1>h, <1>1, <1>2 DEF TileFrame
  <2>. QED
    BY <1>0, <2>1, TileFramed
<1>11. AttachInv'
  <2>1. AttachFrame
    BY <1>0, <1>h, <1>1, <1>2 DEF AttachFrame
  <2>. QED
    BY <1>0, <2>1, AttachFramed
<1>12. OutcomeIsTrue'
  BY <1>0, <1>h, <1>1, <1>2, OutcomeFramed
<1>13. PhaseInv'
  <2>1. Inside' = Inside /\ w \in Inside
    BY <1>0, <1>h, <1>1, <1>2 DEF Inside
  <2>2. \A v \in Workers : pc[v] # "release" /\ pc'[v] # "release"
    BY <1>0, <1>h, <1>1, <1>2, <2>1 DEF PhaseInv
  <2>3. (phase # "running" => producer.at = "idle" /\ OperationsEnded)'
    BY <1>0, <1>h, <1>1, <1>2 DEF PhaseInv, OperationsEnded
  <2>4. (terminal \/ slot = "released" => phase # "running")'
    BY <1>0, <1>h, <1>1, <1>2 DEF PhaseInv
  <2>5. \A v \in Workers : local'[v].result = "completed" => phase' # "running"
    BY <1>0, <1>h, <1>1, <1>2 DEF PhaseInv
  <2>6. slot' # "idle"
    BY <1>0, <1>h, <1>1, <1>2, <2>1 DEF PhaseInv
  <2>. QED
    BY <2>1, <2>2, <2>3, <2>4, <2>5, <2>6 DEF PhaseInv
<1>14. CoverInv'
  <2>1. Works(w)'
    BY <1>0, <1>h, <1>1, <1>2 DEF Works, LocalInv, LocalOK
  <2>. QED
    BY <2>1, BackedCovers DEF Backed
<1>. QED
  BY <1>3, <1>4, <1>5, <1>6, <1>7, <1>8, <1>9, <1>10, <1>11, <1>12, <1>13, <1>14 DEF Inv

LEMMA ScheduleNextKeeps ==
  ASSUME Inv, NEW w \in Workers, ScheduleNext(w) PROVE Inv'
<1>0. /\ TypeOK /\ LocalInv /\ ClaimsAreCounted /\ LockInv /\ SnapshotInv /\ ItemInv
      /\ OwnerInv /\ TileInv /\ AttachInv /\ OutcomeIsTrue /\ PhaseInv /\ CoverInv
  BY DEF Inv
<1>. DEFINE h == local[w].item
<1>h. /\ h \in Items /\ drainers \in [Items -> Tag] /\ drainers[h] \in Tag
      /\ local[w] \in Locals /\ pc[w] = "schedule" /\ ClaimsOn(h) \subseteq Workers
      /\ LocalOK(w) /\ WorkerOK(w) /\ ItemOK(h)
  <2>1. pc[w] = "schedule" /\ h \in Items
    BY <1>0 DEF ScheduleNext, LocalInv, LocalOK, HoldPcs, Registered, Held
  <2>. QED
    BY <1>0, <2>1 DEF TypeOK, Locals, ClaimsOn, LocalInv, ItemInv
<1>1. PICK at \in {"leave"}, l \in Locals :
        /\ Go(w, at, l) /\ l = local[w]
        /\ slot' = slot /\ needs' \in BOOLEAN /\ terminal' = terminal
        /\ UNCHANGED <<revision, current, ready, pending, free, allocated, drainers, operation,
                       tiles, error, outcome, phase, producer>>
  <2>1. slot # "idle"
    BY <1>0, <1>h DEF PhaseInv, Inside
  <2>. QED
    BY <1>h, <2>1 DEF ScheduleNext, Schedule, queueVars, listVars, itemVars, slotVars
<1>2. /\ pc' \in [Workers -> Pcs] /\ local' \in [Workers -> Locals]
      /\ pc'[w] = at /\ local'[w] = l
      /\ \A v \in Workers : v # w => pc'[v] = pc[v] /\ local'[v] = local[v]
  <2>1. at \in Pcs
    BY <1>1 DEF Pcs
  <2>. QED
    BY <1>0, <1>1, <2>1, Moved
<1>3. TypeOK'
  BY <1>0, <1>h, <1>1, <1>2 DEF TypeOK, Locals, Revisions
<1>4. LocalInv'
  <2>. SUFFICES ASSUME NEW v \in Workers PROVE LocalOK(v)'
    BY DEF LocalInv
  <2>1. CASE v = w
    BY <1>0, <1>h, <1>1, <1>2, <2>1 DEF LocalInv, LocalOK, HoldPcs, Registered, Held
  <2>2. CASE v # w
    BY <1>0, <1>h, <1>1, <1>2, <2>2 DEF LocalInv, LocalOK, Held
  <2>. QED
    BY <2>1, <2>2
<1>5. ClaimsAreCounted'
  <2>1. CountFrame
    BY <1>0, <1>h, <1>1, <1>2 DEF CountFrame, Registered
  <2>. QED
    BY <1>0, <2>1, CountFramed
<1>6. LockInv'
  <2>1. LockFrame
    BY <1>0, <1>h, <1>1, <1>2 DEF LockFrame, Locks, ProducerLocks
  <2>. QED
    BY <1>0, <2>1, LockFramed
<1>7. SnapshotInv'
  <2>1. SnapshotOK(w)'
    BY <1>0, <1>h, <1>1, <1>2 DEF SnapshotInv, SnapshotOK, Seen, Updating, Held
  <2>2. ASSUME NEW v \in Workers, v # w PROVE SnapshotOK(v)'
    <3>1. SnapshotOK(v) /\ pc'[v] = pc[v] /\ local'[v] = local[v]
      BY <1>0, <1>h, <1>1, <1>2, <2>2 DEF SnapshotInv
    <3>2. pc[v] = "register" => local[v].item \in Items
      BY <1>0 DEF LocalInv, LocalOK, HoldPcs, Held
    <3>. QED
      BY <1>0, <1>h, <1>1, <1>2, <3>1, <3>2, <2>2 DEF SnapshotOK, Seen, Updating, Held
  <2>3. Seen(Control)' /\ producer'.at = "cas" => ~Updating'
    BY <1>0, <1>h, <1>1, <1>2, Constants DEF SnapshotInv, Seen, Updating
  <2>. QED
    BY <2>1, <2>2, <2>3 DEF SnapshotInv
<1>8. ItemInv'
  <2>1. ItemFrame
    BY <1>0, <1>h, <1>1, <1>2 DEF ItemFrame, Closers, Releasers
  <2>2. ASSUME NEW v \in Workers
        PROVE  /\ pc'[v] \in Registered \ {"leave"} =>
                    local'[v].item \in Items /\ ~drainers[local'[v].item].claimed
               /\ pc'[v] \in {"processor", "tile", "close"} =>
                    /\ operation[local'[v].item] # None
                    /\ current = local'[v].item \/ drainers[local'[v].item].closed
               /\ pc'[v] = "clear" => pc[v] = "clear"
    <3>1. LocalOK(v) /\ WorkerOK(v)
      BY <1>0 DEF LocalInv, ItemInv
    <3>2. CASE v = w
      BY <1>0, <1>h, <1>1, <1>2, <3>1, <3>2 DEF WorkerOK, LocalOK, HoldPcs, Registered, Held
    <3>3. CASE v # w
      BY <1>0, <1>h, <1>1, <1>2, <3>1, <3>3 DEF WorkerOK, LocalOK, HoldPcs, Held
    <3>. QED
      BY <3>2, <3>3
  <2>. QED
    BY <1>0, <2>1, <2>2, ItemFramed
<1>9. OwnerInv'
  <2>1. OwnerFrame
    BY <1>0, <1>h, <1>1, <1>2 DEF OwnerFrame
  <2>. QED
    BY <1>0, <2>1, OwnerFramed
<1>10. TileInv'
  <2>1. TileFrame
    BY <1>0, <1>h, <1>1, <1>2 DEF TileFrame
  <2>. QED
    BY <1>0, <2>1, TileFramed
<1>11. AttachInv'
  <2>1. AttachFrame
    BY <1>0, <1>h, <1>1, <1>2 DEF AttachFrame
  <2>. QED
    BY <1>0, <2>1, AttachFramed
<1>12. OutcomeIsTrue'
  BY <1>0, <1>h, <1>1, <1>2, OutcomeFramed
<1>13. PhaseInv'
  <2>1. Inside' = Inside /\ w \in Inside
    BY <1>0, <1>h, <1>1, <1>2 DEF Inside
  <2>2. \A v \in Workers : pc[v] # "release" /\ pc'[v] # "release"
    BY <1>0, <1>h, <1>1, <1>2, <2>1 DEF PhaseInv
  <2>3. (phase # "running" => producer.at = "idle" /\ OperationsEnded)'
    BY <1>0, <1>h, <1>1, <1>2 DEF PhaseInv, OperationsEnded
  <2>4. (terminal \/ slot = "released" => phase # "running")'
    BY <1>0, <1>h, <1>1, <1>2 DEF PhaseInv
  <2>5. \A v \in Workers : local'[v].result = "completed" => phase' # "running"
    BY <1>0, <1>h, <1>1, <1>2 DEF PhaseInv
  <2>6. slot' # "idle"
    BY <1>0, <1>h, <1>1, <1>2, <2>1 DEF PhaseInv
  <2>. QED
    BY <2>1, <2>2, <2>3, <2>4, <2>5, <2>6 DEF PhaseInv
<1>14. CoverInv'
  <2>1. Works(w)'
    BY <1>0, <1>h, <1>1, <1>2 DEF Works, LocalInv, LocalOK
  <2>. QED
    BY <2>1, BackedCovers DEF Backed
<1>. QED
  BY <1>3, <1>4, <1>5, <1>6, <1>7, <1>8, <1>9, <1>10, <1>11, <1>12, <1>13, <1>14 DEF Inv


----------------------------------------------------------------------------
(* Leaving and releasing an item.                                          *)

LEMMA LeaveKeeps ==
  ASSUME Inv, NEW w \in Workers, Leave(w) PROVE Inv'
<1>0. /\ TypeOK /\ LocalInv /\ ClaimsAreCounted /\ LockInv /\ SnapshotInv /\ ItemInv
      /\ OwnerInv /\ TileInv /\ AttachInv /\ OutcomeIsTrue /\ PhaseInv /\ CoverInv
  BY DEF Inv
<1>. DEFINE h == local[w].item
<1>h. /\ h \in Items /\ drainers \in [Items -> Tag] /\ drainers[h] \in Tag
      /\ local[w] \in Locals /\ pc[w] = "leave" /\ ClaimsOn(h) \subseteq Workers
      /\ LocalOK(w) /\ WorkerOK(w) /\ ItemOK(h)
  <2>1. pc[w] = "leave" /\ h \in Items
    BY <1>0 DEF Leave, LocalInv, LocalOK, HoldPcs, Registered, Held
  <2>. QED
    BY <1>0, <2>1 DEF TypeOK, Locals, ClaimsOn, LocalInv, ItemInv
<1>c. /\ w \in ClaimsOn(h) /\ IsFiniteSet(ClaimsOn(h)) /\ drainers[h].count = Cardinality(ClaimsOn(h))
      /\ drainers[h].count \in Nat /\ drainers[h].count > 0
  <2>1. w \in ClaimsOn(h)
    BY <1>h DEF ClaimsOn, Registered, Held
  <2>2. IsFiniteSet(ClaimsOn(h))
    BY <1>h, Constants, FS_Subset
  <2>3. Cardinality(ClaimsOn(h)) # 0
    BY <2>1, <2>2, FS_EmptySet
  <2>. QED
    BY <1>0, <1>h, <2>1, <2>2, <2>3 DEF ClaimsAreCounted, Tag
<1>1. PICK at \in {"claim", "return"}, l \in Locals :
        /\ Go(w, at, l) /\ l.result = local[w].result
        /\ at = "claim" => l = local[w]
        /\ at = "return" => l.item = None /\ l.next = None
        /\ drainers' \in [Items -> Tag] /\ \A i \in Items : i # h => drainers'[i] = drainers[i]
        /\ drainers'[h].gen = drainers[h].gen
        /\ drainers'[h].count = drainers[h].count - 1
        /\ drainers'[h].closed = drainers[h].closed /\ drainers'[h].claimed = drainers[h].claimed
        /\ UNCHANGED <<revision, current, ready, pending, free, allocated, operation, tiles,
                       error, outcome, phase, slot, needs, terminal, producer>>
  <2>1. UNCHANGED <<revision, current, ready, pending, free, allocated, operation, tiles, error, outcome, phase, slot, needs, terminal, producer>>
    BY DEF Leave, queueVars, listVars, itemVars, slotVars
  <2>2. drainers' = [drainers EXCEPT ![h].count = @ - 1]
    BY DEF Leave, Held
  <2>3. /\ drainers' \in [Items -> Tag] /\ \A i \in Items : i # h => drainers'[i] = drainers[i]
        /\ drainers'[h].gen = drainers[h].gen
        /\ drainers'[h].count = drainers[h].count - 1
        /\ drainers'[h].closed = drainers[h].closed /\ drainers'[h].claimed = drainers[h].claimed
    BY <1>h, <1>c, <2>2 DEF Tag
  <2>4. PICK m \in Locals : m = [NoLocal EXCEPT !.result = local[w].result]
    BY <1>h, Constants DEF Locals
  <2>5. m.item = None /\ m.gen = 0 /\ m.next = None /\ m.result = local[w].result
    BY <2>4, NoLocalFacts DEF NoLocal
  <2>6. CASE LastOut(drainers[h], local[w].result)
    <3>1. Go(w, "claim", local[w])
      BY <2>6 DEF Leave, Held
    <3>. QED
      BY <1>h, <2>1, <2>3, <3>1
  <2>7. CASE ~LastOut(drainers[h], local[w].result)
    <3>1. Go(w, "return", m)
      BY <2>4, <2>7 DEF Leave, Held
    <3>. QED
      BY <1>h, <2>1, <2>3, <2>5, <3>1
  <2>. QED
    BY <2>6, <2>7
<1>2. /\ pc' \in [Workers -> Pcs] /\ local' \in [Workers -> Locals]
      /\ pc'[w] = at /\ local'[w] = l
      /\ \A v \in Workers : v # w => pc'[v] = pc[v] /\ local'[v] = local[v]
  <2>1. at \in Pcs
    BY <1>1 DEF Pcs
  <2>. QED
    BY <1>0, <1>1, <2>1, Moved
<1>3. TypeOK'
  BY <1>0, <1>h, <1>1, <1>2 DEF TypeOK, Locals, Revisions
<1>4. LocalInv'
  <2>. SUFFICES ASSUME NEW v \in Workers PROVE LocalOK(v)'
    BY DEF LocalInv
  <2>1. CASE v = w
    BY <1>0, <1>h, <1>1, <1>2, <2>1 DEF LocalInv, LocalOK, HoldPcs, Registered, Held
  <2>2. CASE v # w
    BY <1>0, <1>h, <1>1, <1>2, <2>2 DEF LocalInv, LocalOK, Held
  <2>. QED
    BY <2>1, <2>2
<1>5. ClaimsAreCounted'
  <2>0. PICK k \in Items : k = h
    BY <1>h
  <2>1. ClaimsOn(k)' = ClaimsOn(k) \ {w}
    BY <1>0, <1>h, <1>1, <1>2, <2>0 DEF ClaimsOn, Registered, Held
  <2>2. ASSUME NEW i \in Items, i # k PROVE ClaimsOn(i)' = ClaimsOn(i) /\ w \notin ClaimsOn(i)
    BY <1>0, <1>h, <1>1, <1>2, <2>0, <2>2 DEF ClaimsOn, Registered, Held
  <2>3. Cardinality(ClaimsOn(k)') = Cardinality(ClaimsOn(k)) - 1
    BY <1>c, <2>0, <2>1, FS_RemoveElement
  <2>4. ASSUME NEW i \in Items
        PROVE  /\ drainers'[i].count = Cardinality(ClaimsOn(i)')
               /\ \A v \in ClaimsOn(i)' : drainers'[i].gen = local'[v].gen
    <3>1. \A v \in ClaimsOn(i) : v \in Workers /\ drainers[i].gen = local[v].gen
      BY <1>0 DEF ClaimsAreCounted, ClaimsOn
    <3>2. drainers[i].count = Cardinality(ClaimsOn(i))
      BY <1>0 DEF ClaimsAreCounted
    <3>3. CASE i = k
      BY <1>0, <1>h, <1>1, <1>2, <2>0, <2>1, <2>3, <3>1, <3>2, <3>3
    <3>4. CASE i # k
      BY <1>0, <1>h, <1>1, <1>2, <2>0, <2>2, <3>1, <3>2, <3>4
    <3>. QED
      BY <3>3, <3>4
  <2>. QED
    BY <2>4 DEF ClaimsAreCounted
<1>6. LockInv'
  <2>1. LockFrame
    BY <1>0, <1>h, <1>1, <1>2 DEF LockFrame, Locks, ProducerLocks
  <2>. QED
    BY <1>0, <2>1, LockFramed
<1>7. SnapshotInv'
  <2>1. SnapshotOK(w)'
    BY <1>0, <1>h, <1>1, <1>2 DEF SnapshotInv, SnapshotOK, Seen, Updating, Held
  <2>2. ASSUME NEW v \in Workers, v # w PROVE SnapshotOK(v)'
    <3>1. SnapshotOK(v) /\ pc'[v] = pc[v] /\ local'[v] = local[v]
      BY <1>0, <1>h, <1>1, <1>2, <2>2 DEF SnapshotInv
    <3>2. pc[v] = "register" => local[v].item \in Items
      BY <1>0 DEF LocalInv, LocalOK, HoldPcs, Held
    <3>. QED
      BY <1>0, <1>h, <1>1, <1>2, <3>1, <3>2, <2>2 DEF SnapshotOK, Seen, Updating, Held
  <2>3. Seen(Control)' /\ producer'.at = "cas" => ~Updating'
    BY <1>0, <1>h, <1>1, <1>2, Constants DEF SnapshotInv, Seen, Updating
  <2>. QED
    BY <2>1, <2>2, <2>3 DEF SnapshotInv
<1>8. ItemInv'
  <2>1. ItemFrame
    BY <1>0, <1>h, <1>1, <1>2 DEF ItemFrame, Closers, Releasers
  <2>2. ASSUME NEW v \in Workers
        PROVE  /\ pc'[v] \in Registered \ {"leave"} =>
                    local'[v].item \in Items /\ ~drainers[local'[v].item].claimed
               /\ pc'[v] \in {"processor", "tile", "close"} =>
                    /\ operation[local'[v].item] # None
                    /\ current = local'[v].item \/ drainers[local'[v].item].closed
               /\ pc'[v] = "clear" => pc[v] = "clear"
    <3>1. LocalOK(v) /\ WorkerOK(v)
      BY <1>0 DEF LocalInv, ItemInv
    <3>2. CASE v = w
      BY <1>0, <1>h, <1>1, <1>2, <3>1, <3>2 DEF WorkerOK, LocalOK, HoldPcs, Registered, Held
    <3>3. CASE v # w
      BY <1>0, <1>h, <1>1, <1>2, <3>1, <3>3 DEF WorkerOK, LocalOK, HoldPcs, Held
    <3>. QED
      BY <3>2, <3>3
  <2>. QED
    BY <1>0, <2>1, <2>2, ItemFramed
<1>9. OwnerInv'
  <2>1. OwnerFrame
    BY <1>0, <1>h, <1>1, <1>2 DEF OwnerFrame
  <2>. QED
    BY <1>0, <2>1, OwnerFramed
<1>10. TileInv'
  <2>1. TileFrame
    BY <1>0, <1>h, <1>1, <1>2 DEF TileFrame
  <2>. QED
    BY <1>0, <2>1, TileFramed
<1>11. AttachInv'
  <2>1. AttachFrame
    BY <1>0, <1>h, <1>1, <1>2 DEF AttachFrame
  <2>. QED
    BY <1>0, <2>1, AttachFramed
<1>12. OutcomeIsTrue'
  BY <1>0, <1>h, <1>1, <1>2, OutcomeFramed
<1>13. PhaseInv'
  <2>1. Inside' = Inside /\ w \in Inside
    BY <1>0, <1>h, <1>1, <1>2 DEF Inside
  <2>2. \A v \in Workers : pc[v] # "release" /\ pc'[v] # "release"
    BY <1>0, <1>h, <1>1, <1>2, <2>1 DEF PhaseInv
  <2>3. (phase # "running" => producer.at = "idle" /\ OperationsEnded)'
    BY <1>0, <1>h, <1>1, <1>2 DEF PhaseInv, OperationsEnded
  <2>4. (terminal \/ slot = "released" => phase # "running")'
    BY <1>0, <1>h, <1>1, <1>2 DEF PhaseInv
  <2>5. \A v \in Workers : local'[v].result = "completed" => phase' # "running"
    BY <1>0, <1>h, <1>1, <1>2 DEF PhaseInv
  <2>6. slot' # "idle"
    BY <1>0, <1>h, <1>1, <1>2, <2>1 DEF PhaseInv
  <2>. QED
    BY <2>1, <2>2, <2>3, <2>4, <2>5, <2>6 DEF PhaseInv
<1>14. CoverInv'
  <2>1. CoverFrame(w)
    BY <1>0, <1>h, <1>1, <1>2 DEF CoverFrame, Outstanding, Fresh, Works, Seen, Updating
  <2>. QED
    BY <1>0, <2>1, CoverFramed
<1>. QED
  BY <1>3, <1>4, <1>5, <1>6, <1>7, <1>8, <1>9, <1>10, <1>11, <1>12, <1>13, <1>14 DEF Inv

LEMMA ClaimKeeps ==
  ASSUME Inv, NEW w \in Workers, Claim(w) PROVE Inv'
<1>0. /\ TypeOK /\ LocalInv /\ ClaimsAreCounted /\ LockInv /\ SnapshotInv /\ ItemInv
      /\ OwnerInv /\ TileInv /\ AttachInv /\ OutcomeIsTrue /\ PhaseInv /\ CoverInv
  BY DEF Inv
<1>. DEFINE h == local[w].item
<1>h. /\ h \in Items /\ drainers \in [Items -> Tag] /\ drainers[h] \in Tag
      /\ local[w] \in Locals /\ pc[w] = "claim" /\ ClaimsOn(h) \subseteq Workers
      /\ LocalOK(w) /\ WorkerOK(w) /\ ItemOK(h)
  <2>1. pc[w] = "claim" /\ h \in Items
    BY <1>0 DEF Claim, LocalInv, LocalOK, HoldPcs, Registered, Held
  <2>. QED
    BY <1>0, <2>1 DEF TypeOK, Locals, ClaimsOn, LocalInv, ItemInv
<1>z. ASSUME drainers[h].count = 0, NEW v \in Workers, pc[v] \in Registered PROVE local[v].item # h
  <2>1. IsFiniteSet(ClaimsOn(h)) /\ Cardinality(ClaimsOn(h)) = 0
    BY <1>0, <1>h, <1>z, Constants, FS_Subset DEF ClaimsAreCounted
  <2>2. ClaimsOn(h) = {}
    BY <2>1, FS_EmptySet
  <2>. QED
    BY <1>z, <2>2 DEF ClaimsOn, Held
<1>1. PICK at \in {"clear", "return"}, l \in Locals :
        /\ Go(w, at, l) /\ l.result = local[w].result
        /\ \/ /\ at = "clear" /\ l = local[w] /\ drainers[h].closed /\ ~drainers[h].claimed
              /\ drainers[h].count = 0 /\ drainers[h].gen = local[w].gen
              /\ drainers'[h].claimed
           \/ at = "return" /\ drainers' = drainers /\ l.item = None /\ l.next = None
        /\ drainers' \in [Items -> Tag] /\ \A i \in Items : i # h => drainers'[i] = drainers[i]
        /\ drainers'[h].gen = drainers[h].gen
        /\ drainers'[h].count = drainers[h].count /\ drainers'[h].closed = drainers[h].closed
        /\ UNCHANGED <<revision, current, ready, pending, free, allocated, operation, tiles,
                       error, outcome, phase, slot, needs, terminal, producer>>
  <2>1. UNCHANGED <<revision, current, ready, pending, free, allocated, operation, tiles, error, outcome, phase, slot, needs, terminal, producer>>
    BY DEF Claim, queueVars, listVars, itemVars, slotVars
  <2>2. PICK m \in Locals : m = [NoLocal EXCEPT !.result = local[w].result]
    BY <1>h, Constants DEF Locals
  <2>3. m.item = None /\ m.gen = 0 /\ m.next = None /\ m.result = local[w].result
    BY <2>2, NoLocalFacts DEF NoLocal
  <2>4. CASE Claimable(drainers[h], local[w].gen)
    <3>1. Go(w, "clear", local[w]) /\ drainers' = [drainers EXCEPT ![h].claimed = TRUE]
      BY <2>4 DEF Claim, Held
    <3>2. /\ drainers' \in [Items -> Tag] /\ \A i \in Items : i # h => drainers'[i] = drainers[i]
          /\ drainers'[h].gen = drainers[h].gen
          /\ drainers'[h].count = drainers[h].count /\ drainers'[h].closed = drainers[h].closed
          /\ drainers'[h].claimed
      BY <1>h, <3>1 DEF Tag
    <3>3. /\ drainers[h].closed /\ ~drainers[h].claimed
          /\ drainers[h].count = 0 /\ drainers[h].gen = local[w].gen
      BY <2>4 DEF Claimable, NewTag
    <3>. QED
      BY <1>h, <2>1, <3>1, <3>2, <3>3
  <2>5. CASE ~Claimable(drainers[h], local[w].gen)
    <3>1. Go(w, "return", m) /\ drainers' = drainers
      BY <2>2, <2>5 DEF Claim, Held
    <3>. QED
      BY <1>h, <2>1, <2>3, <3>1
  <2>. QED
    BY <2>4, <2>5
<1>2. /\ pc' \in [Workers -> Pcs] /\ local' \in [Workers -> Locals]
      /\ pc'[w] = at /\ local'[w] = l
      /\ \A v \in Workers : v # w => pc'[v] = pc[v] /\ local'[v] = local[v]
  <2>1. at \in Pcs
    BY <1>1 DEF Pcs
  <2>. QED
    BY <1>0, <1>1, <2>1, Moved
<1>3. TypeOK'
  BY <1>0, <1>h, <1>1, <1>2 DEF TypeOK, Locals, Revisions
<1>4. LocalInv'
  <2>. SUFFICES ASSUME NEW v \in Workers PROVE LocalOK(v)'
    BY DEF LocalInv
  <2>1. CASE v = w
    BY <1>0, <1>h, <1>1, <1>2, <2>1 DEF LocalInv, LocalOK, HoldPcs, Registered, Held
  <2>2. CASE v # w
    BY <1>0, <1>h, <1>1, <1>2, <2>2 DEF LocalInv, LocalOK, Held
  <2>. QED
    BY <2>1, <2>2
<1>5. ClaimsAreCounted'
  <2>1. CountFrame
    BY <1>0, <1>h, <1>1, <1>2 DEF CountFrame, Registered
  <2>. QED
    BY <1>0, <2>1, CountFramed
<1>6. LockInv'
  <2>1. LockFrame
    BY <1>0, <1>h, <1>1, <1>2 DEF LockFrame, Locks, ProducerLocks
  <2>. QED
    BY <1>0, <2>1, LockFramed
<1>7. SnapshotInv'
  <2>1. SnapshotOK(w)'
    BY <1>0, <1>h, <1>1, <1>2 DEF SnapshotInv, SnapshotOK, Seen, Updating, Held
  <2>2. ASSUME NEW v \in Workers, v # w PROVE SnapshotOK(v)'
    <3>1. SnapshotOK(v) /\ pc'[v] = pc[v] /\ local'[v] = local[v]
      BY <1>0, <1>h, <1>1, <1>2, <2>2 DEF SnapshotInv
    <3>2. pc[v] = "register" => local[v].item \in Items
      BY <1>0 DEF LocalInv, LocalOK, HoldPcs, Held
    <3>. QED
      BY <1>0, <1>h, <1>1, <1>2, <3>1, <3>2, <2>2 DEF SnapshotOK, Seen, Updating, Held
  <2>3. Seen(Control)' /\ producer'.at = "cas" => ~Updating'
    BY <1>0, <1>h, <1>1, <1>2, Constants DEF SnapshotInv, Seen, Updating
  <2>. QED
    BY <2>1, <2>2, <2>3 DEF SnapshotInv
<1>8. ItemInv'
  <2>1. CASE at = "return"
    <3>1. ItemFrame
      BY <1>0, <1>h, <1>1, <1>2, <2>1 DEF ItemFrame, Closers, Releasers
    <3>2. ASSUME NEW v \in Workers
          PROVE  /\ pc'[v] \in Registered \ {"leave"} =>
                      local'[v].item \in Items /\ ~drainers[local'[v].item].claimed
                 /\ pc'[v] \in {"processor", "tile", "close"} =>
                      /\ operation[local'[v].item] # None
                      /\ current = local'[v].item \/ drainers[local'[v].item].closed
                 /\ pc'[v] = "clear" => pc[v] = "clear"
      <4>1. LocalOK(v) /\ WorkerOK(v)
        BY <1>0 DEF LocalInv, ItemInv
      <4>. QED
        BY <1>0, <1>h, <1>1, <1>2, <2>1, <4>1 DEF WorkerOK, LocalOK, HoldPcs, Registered, Held
    <3>. QED
      BY <1>0, <3>1, <3>2, ItemFramed
  <2>2. CASE at = "clear"
    <3>0. \A v \in Workers : pc[v] \in Registered => local[v].item # h
      BY <1>1, <1>z, <2>2
    <3>1. ASSUME NEW v \in Workers, v # w PROVE WorkerOK(v)'
      <4>1. LocalOK(v) /\ WorkerOK(v)
        BY <1>0 DEF LocalInv, ItemInv
      <4>2. /\ pc'[v] \in Registered \ {"leave"} => ~drainers'[local'[v].item].claimed
            /\ pc'[v] \in {"processor", "tile", "close"} =>
                 /\ operation'[local'[v].item] # None
                 /\ current' = local'[v].item \/ drainers'[local'[v].item].closed
            /\ pc'[v] \in Closers => current' = local'[v].item /\ drainers'[local'[v].item].closed
            /\ pc'[v] = "clear" => operation'[local'[v].item] # None
        BY <1>0, <1>h, <1>1, <1>2, <2>2, <3>0, <3>1, <4>1
           DEF WorkerOK, LocalOK, HoldPcs, Registered, Held, Closers, Releasers
      <4>3. pc'[v] \in Releasers =>
              drainers'[local'[v].item].claimed /\ local'[v].gen = drainers'[local'[v].item].gen
        BY <1>0, <1>h, <1>1, <1>2, <2>2, <3>1, <4>1
        DEF WorkerOK, LocalOK, HoldPcs, Held, Releasers
      <4>4. ASSUME NEW u \in Workers
            PROVE  /\ pc'[v] \in Closers /\ pc'[u] \in Closers => u = v
                   /\ pc'[v] \in Releasers /\ pc'[u] \in Releasers /\ local'[u].item = local'[v].item =>
                        u = v
        <5>1. pc[v] \in Releasers => local[v].item # h
          BY <1>0, <1>h, <1>1, <1>2, <2>2, <4>1 DEF WorkerOK, Held
        <5>. QED
          BY <1>0, <1>h, <1>1, <1>2, <2>2, <3>1, <4>1, <5>1 DEF WorkerOK, Held, Closers, Releasers
      <4>. QED
        BY <4>2, <4>3, <4>4 DEF WorkerOK, Held
    <3>2. WorkerOK(w)'
      <4>1. ASSUME NEW v \in Workers, pc[v] \in Releasers PROVE local[v].item # h
        BY <1>0, <1>h, <1>1, <1>2, <2>2, <4>1 DEF ItemInv, WorkerOK, Held
      <4>2. \A v \in Workers : pc'[v] \in Releasers /\ local'[v].item = h => v = w
        BY <1>0, <1>h, <1>1, <1>2, <4>1
      <4>. QED
        BY <1>0, <1>h, <1>1, <1>2, <2>2, <4>2
        DEF WorkerOK, ItemOK, Registered, Closers, Releasers, Held
    <3>3. ASSUME NEW i \in Items PROVE ItemOK(i)'
      <4>1. ItemOK(i)
        BY <1>0 DEF ItemInv
      <4>2. ASSUME NEW v \in Workers, pc[v] \in Closers PROVE pc'[v] \in Closers /\ local'[v] = local[v]
        BY <1>0, <1>h, <1>1, <1>2, <4>2 DEF Closers
      <4>3. CASE i # h
        BY <1>0, <1>h, <1>1, <1>2, <4>1, <4>2, <4>3 DEF ItemOK, Held
      <4>4. CASE i = h
        <5>1. current # h
          BY <1>0, <1>h, <1>1, <1>2, <2>2, <3>0 DEF ItemOK, Closers, Registered, Held
        <5>. QED
          BY <1>0, <1>h, <1>1, <1>2, <2>2, <4>4, <5>1 DEF ItemOK
      <4>. QED
        BY <4>3, <4>4
    <3>. QED
      BY <3>1, <3>2, <3>3 DEF ItemInv
  <2>. QED
    BY <1>1, <2>1, <2>2
<1>9. OwnerInv'
  <2>1. OwnerFrame
    BY <1>0, <1>h, <1>1, <1>2 DEF OwnerFrame
  <2>. QED
    BY <1>0, <2>1, OwnerFramed
<1>10. TileInv'
  <2>1. TileFrame
    BY <1>0, <1>h, <1>1, <1>2 DEF TileFrame
  <2>. QED
    BY <1>0, <2>1, TileFramed
<1>11. AttachInv'
  <2>1. AttachFrame
    BY <1>0, <1>h, <1>1, <1>2 DEF AttachFrame
  <2>. QED
    BY <1>0, <2>1, AttachFramed
<1>12. OutcomeIsTrue'
  BY <1>0, <1>h, <1>1, <1>2, OutcomeFramed
<1>13. PhaseInv'
  <2>1. Inside' = Inside /\ w \in Inside
    BY <1>0, <1>h, <1>1, <1>2 DEF Inside
  <2>2. \A v \in Workers : pc[v] # "release" /\ pc'[v] # "release"
    BY <1>0, <1>h, <1>1, <1>2, <2>1 DEF PhaseInv
  <2>3. (phase # "running" => producer.at = "idle" /\ OperationsEnded)'
    BY <1>0, <1>h, <1>1, <1>2 DEF PhaseInv, OperationsEnded
  <2>4. (terminal \/ slot = "released" => phase # "running")'
    BY <1>0, <1>h, <1>1, <1>2 DEF PhaseInv
  <2>5. \A v \in Workers : local'[v].result = "completed" => phase' # "running"
    BY <1>0, <1>h, <1>1, <1>2 DEF PhaseInv
  <2>6. slot' # "idle"
    BY <1>0, <1>h, <1>1, <1>2, <2>1 DEF PhaseInv
  <2>. QED
    BY <2>1, <2>2, <2>3, <2>4, <2>5, <2>6 DEF PhaseInv
<1>14. CoverInv'
  <2>1. CoverFrame(w)
    BY <1>0, <1>h, <1>1, <1>2 DEF CoverFrame, Outstanding, Fresh, Works, Seen, Updating
  <2>. QED
    BY <1>0, <2>1, CoverFramed
<1>. QED
  BY <1>3, <1>4, <1>5, <1>6, <1>7, <1>8, <1>9, <1>10, <1>11, <1>12, <1>13, <1>14 DEF Inv

LEMMA ClearItemKeeps ==
  ASSUME Inv, NEW w \in Workers, ClearItem(w) PROVE Inv'
<1>0. /\ TypeOK /\ LocalInv /\ ClaimsAreCounted /\ LockInv /\ SnapshotInv /\ ItemInv
      /\ OwnerInv /\ TileInv /\ AttachInv /\ OutcomeIsTrue /\ PhaseInv /\ CoverInv
  BY DEF Inv
<1>. DEFINE h == local[w].item
<1>h. /\ h \in Items /\ drainers \in [Items -> Tag] /\ drainers[h] \in Tag
      /\ local[w] \in Locals /\ pc[w] = "clear" /\ ClaimsOn(h) \subseteq Workers
      /\ LocalOK(w) /\ WorkerOK(w) /\ ItemOK(h)
  <2>1. pc[w] = "clear" /\ h \in Items
    BY <1>0 DEF ClearItem, LocalInv, LocalOK, HoldPcs, Registered, Held
  <2>. QED
    BY <1>0, <2>1 DEF TypeOK, Locals, ClaimsOn, LocalInv, ItemInv
<1>. DEFINE r == operation[h]
<1>r. /\ r \in Recordings /\ r # None /\ outcome[r] = None /\ r \notin ToSet(ready)
      /\ operation \in [Items -> Recordings \cup {None}] /\ tiles[r] = 0
      /\ \A j \in Items : operation[j] = r => j = h
      /\ drainers[h].claimed /\ drainers[h].closed /\ current # h
  <2>1. operation \in [Items -> Recordings \cup {None}] /\ r # None
    BY <1>0, <1>h DEF TypeOK, WorkerOK, Held
  <2>2. drainers[h].claimed /\ drainers[h].closed /\ current # h
    BY <1>h DEF WorkerOK, ItemOK, Releasers, Held
  <2>. QED
    BY <1>0, <1>h, <2>1, <2>2 DEF AttachInv, TileInv
<1>1. PICK at \in {"reset"}, l \in Locals :
        /\ Go(w, at, l) /\ l.item = h /\ l.gen = local[w].gen /\ l.next = r
        /\ l.result = local[w].result
        /\ operation' \in [Items -> Recordings \cup {None}] /\ operation'[h] = None
        /\ \A i \in Items : i # h => operation'[i] = operation[i]
        /\ UNCHANGED <<revision, current, ready, pending, free, allocated, drainers, tiles,
                       error, outcome, phase, slot, needs, terminal, producer>>
  <2>1. UNCHANGED <<revision, current, ready, pending, free, allocated, drainers, tiles, error, outcome, phase, slot, needs, terminal, producer>>
    BY DEF ClearItem, queueVars, listVars, itemVars, slotVars
  <2>2. PICK l \in Locals : l = [local[w] EXCEPT !.next = r]
    BY <1>h, <1>r DEF Locals
  <2>3. l.item = h /\ l.gen = local[w].gen /\ l.next = r /\ l.result = local[w].result
    BY <1>h, <2>2 DEF Locals
  <2>4. Go(w, "reset", l) /\ operation' = [operation EXCEPT ![h] = None]
    BY <2>2 DEF ClearItem, Held
  <2>. QED
    BY <1>h, <1>r, <2>1, <2>3, <2>4
<1>2. /\ pc' \in [Workers -> Pcs] /\ local' \in [Workers -> Locals]
      /\ pc'[w] = at /\ local'[w] = l
      /\ \A v \in Workers : v # w => pc'[v] = pc[v] /\ local'[v] = local[v]
  <2>1. at \in Pcs
    BY <1>1 DEF Pcs
  <2>. QED
    BY <1>0, <1>1, <2>1, Moved
<1>3. TypeOK'
  BY <1>0, <1>h, <1>r, <1>1, <1>2 DEF TypeOK, Locals, Revisions
<1>4. LocalInv'
  <2>. SUFFICES ASSUME NEW v \in Workers PROVE LocalOK(v)'
    BY DEF LocalInv
  <2>1. CASE v = w
    BY <1>0, <1>h, <1>r, <1>1, <1>2, <2>1 DEF LocalInv, LocalOK, HoldPcs, Registered, Held
  <2>2. CASE v # w
    BY <1>0, <1>h, <1>r, <1>1, <1>2, <2>2 DEF LocalInv, LocalOK, Held
  <2>. QED
    BY <2>1, <2>2
<1>5. ClaimsAreCounted'
  <2>1. CountFrame
    BY <1>0, <1>h, <1>r, <1>1, <1>2 DEF CountFrame, Registered
  <2>. QED
    BY <1>0, <2>1, CountFramed
<1>6. LockInv'
  <2>1. LockFrame
    BY <1>0, <1>h, <1>r, <1>1, <1>2 DEF LockFrame, Locks, ProducerLocks
  <2>. QED
    BY <1>0, <2>1, LockFramed
<1>7. SnapshotInv'
  <2>1. SnapshotOK(w)'
    BY <1>0, <1>h, <1>r, <1>1, <1>2 DEF SnapshotInv, SnapshotOK, Seen, Updating, Held
  <2>2. ASSUME NEW v \in Workers, v # w PROVE SnapshotOK(v)'
    <3>1. SnapshotOK(v) /\ pc'[v] = pc[v] /\ local'[v] = local[v]
      BY <1>0, <1>h, <1>r, <1>1, <1>2, <2>2 DEF SnapshotInv
    <3>2. pc[v] = "register" => local[v].item \in Items
      BY <1>0 DEF LocalInv, LocalOK, HoldPcs, Held
    <3>. QED
      BY <1>0, <1>h, <1>r, <1>1, <1>2, <3>1, <3>2, <2>2 DEF SnapshotOK, Seen, Updating, Held
  <2>3. Seen(Control)' /\ producer'.at = "cas" => ~Updating'
    BY <1>0, <1>h, <1>r, <1>1, <1>2, Constants DEF SnapshotInv, Seen, Updating
  <2>. QED
    BY <2>1, <2>2, <2>3 DEF SnapshotInv
<1>8. ItemInv'
  <2>1. ASSUME NEW v \in Workers PROVE WorkerOK(v)'
    <3>1. LocalOK(v) /\ WorkerOK(v) /\ WorkerOK(w)
      BY <1>0 DEF LocalInv, ItemInv
    <3>2. CASE v = w
      <4>1. ASSUME NEW u \in Workers, pc'[u] \in Releasers, local'[u].item = h PROVE u = w
        BY <1>0, <1>h, <1>r, <1>1, <1>2, <3>1, <4>1 DEF WorkerOK, Releasers, Held
      <4>. QED
        BY <1>0, <1>h, <1>r, <1>1, <1>2, <3>1, <3>2, <4>1
        DEF WorkerOK, Registered, Closers, Releasers, Held
    <3>3. CASE v # w
      <4>1. pc'[v] \in {"processor", "tile", "close", "clear"} => local[v].item # h /\ local[v].item \in Items
        BY <1>0, <1>h, <1>r, <1>1, <1>2, <3>1, <3>3
        DEF WorkerOK, LocalOK, HoldPcs, Registered, Releasers, Held
      <4>2. /\ pc'[v] \in Registered \ {"leave"} => ~drainers'[local'[v].item].claimed
            /\ pc'[v] \in {"processor", "tile", "close"} =>
                 /\ operation'[local'[v].item] # None
                 /\ current' = local'[v].item \/ drainers'[local'[v].item].closed
            /\ pc'[v] \in Closers => current' = local'[v].item /\ drainers'[local'[v].item].closed
            /\ pc'[v] = "clear" => operation'[local'[v].item] # None
            /\ pc'[v] \in Releasers =>
                 drainers'[local'[v].item].claimed /\ local'[v].gen = drainers'[local'[v].item].gen
        BY <1>0, <1>h, <1>r, <1>1, <1>2, <3>1, <3>3, <4>1 DEF WorkerOK, Held
      <4>3. ASSUME NEW u \in Workers
            PROVE  /\ pc'[v] \in Closers /\ pc'[u] \in Closers => u = v
                   /\ pc'[v] \in Releasers /\ pc'[u] \in Releasers /\ local'[u].item = local'[v].item =>
                        u = v
        BY <1>0, <1>h, <1>r, <1>1, <1>2, <3>1, <3>3 DEF WorkerOK, Held, Closers, Releasers
      <4>. QED
        BY <4>2, <4>3 DEF WorkerOK, Held
    <3>. QED
      BY <3>2, <3>3
  <2>2. ASSUME NEW i \in Items PROVE ItemOK(i)'
    <3>1. ItemOK(i)
      BY <1>0 DEF ItemInv
    <3>2. ASSUME NEW v \in Workers, pc[v] \in Closers PROVE pc'[v] \in Closers /\ local'[v] = local[v]
      BY <1>0, <1>h, <1>r, <1>1, <1>2, <3>2 DEF Closers
    <3>. QED
      BY <1>0, <1>h, <1>r, <1>1, <1>2, <3>1, <3>2 DEF ItemOK, Held
  <2>. QED
    BY <2>1, <2>2 DEF ItemInv
<1>9. OwnerInv'
  <2>1. ASSUME NEW i \in Items
        PROVE  /\ IsFree(i)' <=> IsFree(i)
               /\ IsPending(i)' <=> IsPending(i)
               /\ IsNext(i)' <=> IsNext(i)
               /\ IsProduced(i)' <=> IsProduced(i)
               /\ IsOpen(i)' <=> IsOpen(i)
               /\ IsClosed(i)' <=> IsClosed(i)
               /\ operation'[i] = operation[i] \/ IsClosed(i)
               /\ allocated' = allocated
    <3>1. IsNext(i)' <=> IsNext(i)
      BY <1>0, <1>h, <1>r, <1>1, <1>2 DEF IsNext
    <3>. QED
      BY <1>0, <1>h, <1>r, <1>1, <1>2, <3>1 DEF IsFree, IsPending, IsProduced, IsOpen, IsClosed
  <2>2. ASSUME NEW i \in Items PROVE OwnerOK(i)'
    BY <1>0, <2>1 DEF OwnerInv, OwnerOK
  <2>. QED
    BY <1>0, <1>h, <1>r, <1>1, <1>2, <2>2 DEF OwnerInv
<1>10. TileInv'
  <2>1. ASSUME NEW i \in Items PROVE Executing(i)' = Executing(i)
    BY <1>0, <1>h, <1>r, <1>1, <1>2 DEF Executing, Held
  <2>2. ASSUME NEW v \in Workers, pc'[v] = "close"
        PROVE  (tiles[operation[Held(v)]] = 0 /\ Executing(Held(v)) = {})'
    <3>0. v # w /\ pc[v] = "close"
      BY <1>0, <1>h, <1>r, <1>1, <1>2, <2>2
    <3>1. PICK i \in Items : i = local'[v].item /\ i = local[v].item
      BY <1>0, <1>h, <1>r, <1>1, <1>2, <3>0 DEF LocalInv, LocalOK, HoldPcs, Registered, Held
    <3>4. ~drainers[i].claimed
      BY <1>0, <3>0, <3>1 DEF ItemInv, WorkerOK, Registered, Held
    <3>2. tiles[operation[i]] = 0 /\ Executing(i)' = {} /\ i # h
      BY <1>0, <1>r, <2>1, <3>0, <3>1, <3>4 DEF TileInv, Held
    <3>3. Executing(Held(v))' = {}
      BY <3>1, <3>2 DEF Executing, Held
    <3>. QED
      BY <1>0, <1>h, <1>r, <1>1, <1>2, <3>1, <3>2, <3>3 DEF Held
  <2>3. ASSUME NEW i \in Items, drainers'[i].closed, operation'[i] # None
        PROVE  tiles'[operation'[i]] = 0 /\ Executing(i)' = {}
    BY <1>0, <1>h, <1>r, <1>1, <1>2, <2>1, <2>3 DEF TileInv
  <2>. QED
    BY <2>2, <2>3 DEF TileInv
<1>11. AttachInv'
  <2>1. ASSUME NEW i \in Items, operation'[i] # None
        PROVE  /\ outcome'[operation'[i]] = None /\ operation'[i] \notin ToSet(ready)'
               /\ \A j \in Items : operation'[j] = operation'[i] => j = i
    BY <1>0, <1>h, <1>r, <1>1, <1>2, <2>1 DEF AttachInv
  <2>2. ASSUME NEW v \in Workers, Carries(v)'
        PROVE  /\ outcome'[local'[v].next] = None /\ local'[v].next \notin ToSet(ready)'
               /\ tiles'[local'[v].next] = 0
               /\ \A i \in Items : operation'[i] # local'[v].next
               /\ \A u \in Workers : Carries(u)' /\ local'[u].next = local'[v].next => u = v
    <3>1. \A u \in Workers : u # w => (Carries(u)' <=> Carries(u)) /\ local'[u].next = local[u].next
      BY <1>0, <1>h, <1>r, <1>1, <1>2 DEF Carries
    <3>2. \A u \in Workers : Carries(u) => local[u].next # r /\ local[u].next # None
      BY <1>0, <1>h, <1>r, <1>1, <1>2, Constants DEF AttachInv, LocalInv, LocalOK, Carries
    <3>3. CASE v = w
      BY <1>0, <1>h, <1>r, <1>1, <1>2, <3>1, <3>2, <3>3
    <3>4. CASE v # w
      <4>1. Carries(v) /\ local'[v].next = local[v].next
        BY <2>2, <3>1, <3>4
      <4>. QED
        BY <1>0, <1>h, <1>r, <1>1, <1>2, <3>1, <3>2, <3>4, <4>1 DEF AttachInv
    <3>. QED
      BY <3>3, <3>4
  <2>. QED
    BY <1>0, <1>h, <1>r, <1>1, <1>2, <2>1, <2>2 DEF AttachInv
<1>12. OutcomeIsTrue'
  BY <1>0, <1>h, <1>r, <1>1, <1>2, OutcomeFramed
<1>13. PhaseInv'
  <2>1. Inside' = Inside /\ w \in Inside
    BY <1>0, <1>h, <1>r, <1>1, <1>2 DEF Inside
  <2>2. \A v \in Workers : pc[v] # "release" /\ pc'[v] # "release"
    BY <1>0, <1>h, <1>r, <1>1, <1>2, <2>1 DEF PhaseInv
  <2>3. (phase # "running" => producer.at = "idle" /\ OperationsEnded)'
    BY <1>0, <1>h, <1>r, <1>1, <1>2 DEF PhaseInv, OperationsEnded
  <2>4. (terminal \/ slot = "released" => phase # "running")'
    BY <1>0, <1>h, <1>r, <1>1, <1>2 DEF PhaseInv
  <2>5. \A v \in Workers : local'[v].result = "completed" => phase' # "running"
    BY <1>0, <1>h, <1>r, <1>1, <1>2 DEF PhaseInv
  <2>6. slot' # "idle"
    BY <1>0, <1>h, <1>r, <1>1, <1>2, <2>1 DEF PhaseInv
  <2>. QED
    BY <2>1, <2>2, <2>3, <2>4, <2>5, <2>6 DEF PhaseInv
<1>14. CoverInv'
  <2>1. CoverFrame(w)
    BY <1>0, <1>h, <1>r, <1>1, <1>2 DEF CoverFrame, Outstanding, Fresh, Works, Seen, Updating
  <2>. QED
    BY <1>0, <2>1, CoverFramed
<1>. QED
  BY <1>3, <1>4, <1>5, <1>6, <1>7, <1>8, <1>9, <1>10, <1>11, <1>12, <1>13, <1>14 DEF Inv

LEMMA ResetItemKeeps ==
  ASSUME Inv, NEW w \in Workers, ResetItem(w) PROVE Inv'
<1>0. /\ TypeOK /\ LocalInv /\ ClaimsAreCounted /\ LockInv /\ SnapshotInv /\ ItemInv
      /\ OwnerInv /\ TileInv /\ AttachInv /\ OutcomeIsTrue /\ PhaseInv /\ CoverInv
  BY DEF Inv
<1>. DEFINE h == local[w].item
<1>h. /\ h \in Items /\ drainers \in [Items -> Tag] /\ drainers[h] \in Tag
      /\ local[w] \in Locals /\ pc[w] = "reset" /\ ClaimsOn(h) \subseteq Workers
      /\ LocalOK(w) /\ WorkerOK(w) /\ ItemOK(h)
  <2>1. pc[w] = "reset" /\ h \in Items
    BY <1>0 DEF ResetItem, LocalInv, LocalOK, HoldPcs, Registered, Held
  <2>. QED
    BY <1>0, <2>1 DEF TypeOK, Locals, ClaimsOn, LocalInv, ItemInv
<1>s. /\ drainers[h].count = 0 /\ drainers[h].closed /\ drainers[h].claimed /\ current # h
  <2>1. Resettable(drainers[h], local[w].gen)
    BY DEF ResetItem, Held
  <2>2. drainers[h].count = 0 /\ drainers[h].closed /\ drainers[h].claimed
    BY <2>1 DEF Resettable, NewTag
  <2>. QED
    BY <1>h, <2>2 DEF ItemOK
<1>z. ASSUME drainers[h].count = 0, NEW v \in Workers, pc[v] \in Registered PROVE local[v].item # h
  <2>1. IsFiniteSet(ClaimsOn(h)) /\ Cardinality(ClaimsOn(h)) = 0
    BY <1>0, <1>h, <1>z, Constants, FS_Subset DEF ClaimsAreCounted
  <2>2. ClaimsOn(h) = {}
    BY <2>1, FS_EmptySet
  <2>. QED
    BY <1>z, <2>2 DEF ClaimsOn, Held
<1>y. \A v \in Workers : pc[v] \in Registered => local[v].item # h
  BY <1>s, <1>z
<1>x. \A v \in Workers : v # w /\ pc[v] \in Releasers => local[v].item # h
  BY <1>h DEF WorkerOK, Releasers, Held
<1>1. PICK at \in {"finish"}, l \in Locals :
        /\ Go(w, at, l) /\ l.item = None /\ l.gen = 0 /\ l.next = local[w].next
        /\ l.result = local[w].result
        /\ drainers' \in [Items -> Tag] /\ \A i \in Items : i # h => drainers'[i] = drainers[i]
        /\ drainers'[h].count = 0 /\ ~drainers'[h].closed /\ ~drainers'[h].claimed
        /\ free' \in Seq(Items) /\ IsInjective(free') /\ ToSet(free') = ToSet(free) \cup {h}
        /\ UNCHANGED <<revision, current, ready, pending, allocated, operation, tiles, error,
                       outcome, phase, slot, needs, terminal, producer>>
  <2>1. UNCHANGED <<revision, current, ready, pending, allocated, operation, tiles, error, outcome, phase, slot, needs, terminal, producer>>
    BY DEF ResetItem, queueVars, listVars, itemVars, slotVars
  <2>2. PICK l \in Locals : l = [local[w] EXCEPT !.item = None, !.gen = 0]
    BY <1>h DEF Locals
  <2>3. l.item = None /\ l.gen = 0 /\ l.next = local[w].next /\ l.result = local[w].result
    BY <1>h, <2>2 DEF Locals
  <2>4. /\ Go(w, "finish", l) /\ drainers' = [drainers EXCEPT ![h] = NewTag(local[w].gen + 1)]
        /\ free' = Push(free, h)
    BY <2>2 DEF ResetItem, Held
  <2>5. /\ NewTag(local[w].gen + 1) \in Tag /\ NewTag(local[w].gen + 1).count = 0
        /\ ~NewTag(local[w].gen + 1).closed /\ ~NewTag(local[w].gen + 1).claimed
    BY <1>h DEF Tag, NewTag, Locals
  <2>6. /\ drainers' \in [Items -> Tag] /\ \A i \in Items : i # h => drainers'[i] = drainers[i]
        /\ drainers'[h].count = 0 /\ ~drainers'[h].closed /\ ~drainers'[h].claimed
    BY <1>h, <2>4, <2>5
  <2>7. free' \in Seq(Items) /\ IsInjective(free') /\ ToSet(free') = ToSet(free) \cup {h}
    <3>1. free \in Seq(Items) /\ IsInjective(free) /\ h \notin ToSet(free)
      BY <1>0, <1>h, <1>s DEF TypeOK, OwnerInv, OwnerOK, IsFree, IsClosed
    <3>2. /\ Push(free, h) \in Seq(Items) /\ IsInjective(Push(free, h))
          /\ ToSet(Push(free, h)) = ToSet(free) \cup {h}
      BY <1>h, <3>1, PushItem
    <3>. QED
      BY <2>4, <3>2
  <2>. QED
    BY <2>1, <2>3, <2>4, <2>6, <2>7
<1>2. /\ pc' \in [Workers -> Pcs] /\ local' \in [Workers -> Locals]
      /\ pc'[w] = at /\ local'[w] = l
      /\ \A v \in Workers : v # w => pc'[v] = pc[v] /\ local'[v] = local[v]
  <2>1. at \in Pcs
    BY <1>1 DEF Pcs
  <2>. QED
    BY <1>0, <1>1, <2>1, Moved
<1>3. TypeOK'
  BY <1>0, <1>h, <1>1, <1>2, <1>s, <1>y, <1>x DEF TypeOK, Locals, Revisions
<1>4. LocalInv'
  <2>. SUFFICES ASSUME NEW v \in Workers PROVE LocalOK(v)'
    BY DEF LocalInv
  <2>1. CASE v = w
    BY <1>0, <1>h, <1>1, <1>2, <1>s, <1>y, <1>x, <2>1
    DEF LocalInv, LocalOK, HoldPcs, Registered, Held
  <2>2. CASE v # w
    BY <1>0, <1>h, <1>1, <1>2, <1>s, <1>y, <1>x, <2>2 DEF LocalInv, LocalOK, Held
  <2>. QED
    BY <2>1, <2>2
<1>5. ClaimsAreCounted'
  <2>1. ASSUME NEW i \in Items
        PROVE  /\ drainers'[i].count = Cardinality(ClaimsOn(i)')
               /\ \A v \in ClaimsOn(i)' : drainers'[i].gen = local'[v].gen
    <3>1. ClaimsOn(i)' = ClaimsOn(i)
      BY <1>0, <1>h, <1>1, <1>2, <1>s, <1>y, <1>x DEF ClaimsOn, Registered, Held
    <3>2. CASE i = h
      <4>1. ClaimsOn(i) = {}
        BY <1>y, <3>2 DEF ClaimsOn, Held
      <4>. QED
        BY <1>0, <1>h, <1>1, <1>2, <1>s, <1>y, <1>x, <3>1, <3>2, <4>1, FS_EmptySet
    <3>3. CASE i # h
      <4>1. \A v \in ClaimsOn(i) : v \in Workers /\ v # w
        BY <1>h DEF ClaimsOn, Registered
      <4>. QED
        BY <1>0, <1>h, <1>1, <1>2, <1>s, <1>y, <1>x, <3>1, <3>3, <4>1 DEF ClaimsAreCounted
    <3>. QED
      BY <3>2, <3>3
  <2>. QED
    BY <2>1 DEF ClaimsAreCounted
<1>6. LockInv'
  <2>1. LockFrame
    BY <1>0, <1>h, <1>1, <1>2, <1>s, <1>y, <1>x DEF LockFrame, Locks, ProducerLocks
  <2>. QED
    BY <1>0, <2>1, LockFramed
<1>7. SnapshotInv'
  <2>1. ASSUME NEW v \in Workers PROVE SnapshotOK(v)'
    <3>1. SnapshotOK(v)
      BY <1>0 DEF SnapshotInv
    <3>2. CASE v = w
      BY <1>0, <1>h, <1>1, <1>2, <1>s, <1>y, <1>x, <3>2 DEF SnapshotOK
    <3>3. CASE v # w
      <4>1. Seen(v) /\ pc[v] = "register" => local[v].item \in Items /\ local[v].item # h
        BY <1>0, <1>s, <3>1 DEF SnapshotOK, LocalInv, LocalOK, HoldPcs, Held
      <4>. QED
        BY <1>0, <1>h, <1>1, <1>2, <1>s, <1>y, <1>x, <3>1, <3>3, <4>1
        DEF SnapshotOK, Seen, Updating, Held
    <3>. QED
      BY <3>2, <3>3
  <2>2. Seen(Control)' /\ producer'.at = "cas" => ~Updating'
    BY <1>0, <1>h, <1>1, <1>2, <1>s, <1>y, <1>x DEF SnapshotInv, Seen, Updating
  <2>. QED
    BY <2>1, <2>2 DEF SnapshotInv
<1>8. ItemInv'
  <2>1. ASSUME NEW v \in Workers PROVE WorkerOK(v)'
    <3>1. LocalOK(v) /\ WorkerOK(v)
      BY <1>0 DEF LocalInv, ItemInv
    <3>2. CASE v = w
      BY <1>0, <1>h, <1>1, <1>2, <1>s, <1>y, <1>x, <3>2
      DEF WorkerOK, Registered, Closers, Releasers
    <3>3. CASE v # w
      <4>1. /\ pc'[v] \in Registered \cup Releasers => drainers'[local'[v].item] = drainers[local[v].item]
            /\ local'[v] = local[v] /\ pc'[v] = pc[v]
        BY <1>0, <1>h, <1>1, <1>2, <1>s, <1>y, <1>x, <3>1, <3>3
        DEF LocalOK, HoldPcs, Releasers, Held
      <4>2. ASSUME NEW u \in Workers
            PROVE  /\ pc'[v] \in Closers /\ pc'[u] \in Closers => u = v
                   /\ pc'[v] \in Releasers /\ pc'[u] \in Releasers /\ local'[u].item = local'[v].item =>
                        u = v
        BY <1>0, <1>h, <1>1, <1>2, <1>s, <1>y, <1>x, <3>1, <3>3
        DEF WorkerOK, Held, Closers, Releasers
      <4>. QED
        BY <1>0, <1>h, <1>1, <1>2, <1>s, <1>y, <1>x, <3>1, <4>1, <4>2
        DEF WorkerOK, Held, Registered, Closers, Releasers
    <3>. QED
      BY <3>2, <3>3
  <2>2. ASSUME NEW i \in Items PROVE ItemOK(i)'
    <3>1. ItemOK(i)
      BY <1>0 DEF ItemInv
    <3>2. ASSUME NEW v \in Workers, pc[v] \in Closers PROVE pc'[v] \in Closers /\ local'[v] = local[v]
      BY <1>0, <1>h, <1>1, <1>2, <1>s, <1>y, <1>x, <3>2 DEF Closers
    <3>. QED
      BY <1>0, <1>h, <1>1, <1>2, <1>s, <1>y, <1>x, <3>1, <3>2 DEF ItemOK, Held
  <2>. QED
    BY <2>1, <2>2 DEF ItemInv
<1>9. OwnerInv'
  <2>1. ASSUME NEW i \in Items
        PROVE  /\ IsFree(i)' <=> IsFree(i) \/ i = h
               /\ IsPending(i)' <=> IsPending(i)
               /\ IsNext(i)' <=> IsNext(i)
               /\ IsProduced(i)' <=> IsProduced(i)
               /\ IsOpen(i)' <=> IsOpen(i)
               /\ IsClosed(i)' <=> IsClosed(i) /\ i # h
               /\ i = h => IsClosed(i) /\ ~IsOpen(i)
               /\ operation'[i] = operation[i] /\ allocated' = allocated
    <3>1. IsNext(i)' <=> IsNext(i)
      BY <1>0, <1>h, <1>1, <1>2, <1>s, <1>y, <1>x DEF IsNext
    <3>2. IsFree(i)' <=> IsFree(i) \/ i = h
      BY <1>0, <1>h, <1>1, <1>2, <1>s, <1>y, <1>x DEF IsFree
    <3>3. /\ IsPending(i)' <=> IsPending(i)
          /\ IsProduced(i)' <=> IsProduced(i)
      BY <1>0, <1>h, <1>1, <1>2, <1>s, <1>y, <1>x DEF IsPending, IsProduced
    <3>4. /\ IsOpen(i)' <=> IsOpen(i)
          /\ IsClosed(i)' <=> IsClosed(i) /\ i # h
          /\ i = h => IsClosed(i) /\ ~IsOpen(i)
      BY <1>0, <1>h, <1>1, <1>2, <1>s, <1>y, <1>x DEF IsOpen, IsClosed
    <3>5. operation'[i] = operation[i] /\ allocated' = allocated
      BY <1>1
    <3>. QED
      BY <3>1, <3>2, <3>3, <3>4, <3>5
  <2>2. ASSUME NEW i \in Items PROVE OwnerOK(i)'
    <3>1. OwnerOK(i)
      BY <1>0 DEF OwnerInv
    <3>. QED
      BY <2>1, <3>1 DEF OwnerOK
  <2>. QED
    BY <1>0, <1>h, <1>1, <1>2, <1>s, <1>y, <1>x, <2>2 DEF OwnerInv
<1>10. TileInv'
  <2>1. TileFrame
    BY <1>0, <1>h, <1>1, <1>2, <1>s, <1>y, <1>x DEF TileFrame
  <2>. QED
    BY <1>0, <2>1, TileFramed
<1>11. AttachInv'
  <2>1. AttachFrame
    BY <1>0, <1>h, <1>1, <1>2, <1>s, <1>y, <1>x DEF AttachFrame
  <2>. QED
    BY <1>0, <2>1, AttachFramed
<1>12. OutcomeIsTrue'
  BY <1>0, <1>h, <1>1, <1>2, <1>s, <1>y, <1>x, OutcomeFramed
<1>13. PhaseInv'
  <2>1. Inside' = Inside /\ w \in Inside
    BY <1>0, <1>h, <1>1, <1>2, <1>s, <1>y, <1>x DEF Inside
  <2>2. \A v \in Workers : pc[v] # "release" /\ pc'[v] # "release"
    BY <1>0, <1>h, <1>1, <1>2, <1>s, <1>y, <1>x, <2>1 DEF PhaseInv
  <2>3. (phase # "running" => producer.at = "idle" /\ OperationsEnded)'
    BY <1>0, <1>h, <1>1, <1>2, <1>s, <1>y, <1>x DEF PhaseInv, OperationsEnded
  <2>4. (terminal \/ slot = "released" => phase # "running")'
    BY <1>0, <1>h, <1>1, <1>2, <1>s, <1>y, <1>x DEF PhaseInv
  <2>5. \A v \in Workers : local'[v].result = "completed" => phase' # "running"
    BY <1>0, <1>h, <1>1, <1>2, <1>s, <1>y, <1>x DEF PhaseInv
  <2>6. slot' # "idle"
    BY <1>0, <1>h, <1>1, <1>2, <1>s, <1>y, <1>x, <2>1 DEF PhaseInv
  <2>. QED
    BY <2>1, <2>2, <2>3, <2>4, <2>5, <2>6 DEF PhaseInv
<1>14. CoverInv'
  <2>1. CoverFrame(w)
    BY <1>0, <1>h, <1>1, <1>2, <1>s, <1>y, <1>x
    DEF CoverFrame, Outstanding, Fresh, Works, Seen, Updating
  <2>. QED
    BY <1>0, <2>1, CoverFramed
<1>. QED
  BY <1>3, <1>4, <1>5, <1>6, <1>7, <1>8, <1>9, <1>10, <1>11, <1>12, <1>13, <1>14 DEF Inv

LEMMA FinishOperationKeeps ==
  ASSUME Inv, NEW w \in Workers, FinishOperation(w) PROVE Inv'
<1>0. /\ TypeOK /\ LocalInv /\ ClaimsAreCounted /\ LockInv /\ SnapshotInv /\ ItemInv
      /\ OwnerInv /\ TileInv /\ AttachInv /\ OutcomeIsTrue /\ PhaseInv /\ CoverInv
  BY DEF Inv
<1>. DEFINE r == local[w].next
<1>r. /\ pc[w] = "finish" /\ local[w] \in Locals /\ r \in Recordings
      /\ outcome \in [Recordings -> Outcomes \cup {None}]
      /\ tiles[r] = 0 /\ r \notin ToSet(ready)
      /\ \A i \in Items : operation[i] # r
      /\ \A v \in Workers : Carries(v) /\ v # w => local[v].next # r
  <2>1. pc[w] = "finish" /\ Carries(w)
    BY DEF FinishOperation, Carries
  <2>2. r \in Recordings /\ local[w] \in Locals
    BY <1>0, <2>1 DEF LocalInv, LocalOK, TypeOK, Locals
  <2>. QED
    BY <1>0, <2>1, <2>2 DEF AttachInv, TypeOK
<1>1. PICK at \in {"return"}, l \in Locals :
        /\ Go(w, at, l) /\ l.gen = local[w].gen /\ l.next = None /\ l.result = local[w].result
        /\ outcome' \in [Recordings -> Outcomes \cup {None}]
        /\ \A q \in Recordings : q # r => outcome'[q] = outcome[q]
        /\ outcome'[r] = IF r \in error THEN "failed" ELSE "complete"
        /\ UNCHANGED <<revision, current, ready, pending, free, allocated, drainers, operation,
                       tiles, error, phase, slot, needs, terminal, producer>>
  <2>1. UNCHANGED <<revision, current, ready, pending, free, allocated, drainers, operation, tiles, error, phase, slot, needs, terminal, producer>>
    BY DEF FinishOperation, queueVars, listVars, itemVars, slotVars
  <2>2. PICK l \in Locals : l = [local[w] EXCEPT !.next = None]
    BY <1>r DEF Locals
  <2>3. l.gen = local[w].gen /\ l.next = None /\ l.result = local[w].result
    BY <1>r, <2>2 DEF Locals
  <2>4. PICK q \in Outcomes : q = IF r \in error THEN "failed" ELSE "complete"
    BY DEF Outcomes
  <2>5. Go(w, "return", l) /\ outcome' = [outcome EXCEPT ![r] = q]
    BY <2>2, <2>4 DEF FinishOperation, ProcessorStatus
  <2>. QED
    BY <1>r, <2>1, <2>3, <2>4, <2>5
<1>2. /\ pc' \in [Workers -> Pcs] /\ local' \in [Workers -> Locals]
      /\ pc'[w] = at /\ local'[w] = l
      /\ \A v \in Workers : v # w => pc'[v] = pc[v] /\ local'[v] = local[v]
  <2>1. at \in Pcs
    BY <1>1 DEF Pcs
  <2>. QED
    BY <1>0, <1>1, <2>1, Moved
<1>3. TypeOK'
  BY <1>0, <1>r, <1>1, <1>2 DEF TypeOK, Locals, Revisions
<1>4. LocalInv'
  <2>. SUFFICES ASSUME NEW v \in Workers PROVE LocalOK(v)'
    BY DEF LocalInv
  <2>1. CASE v = w
    BY <1>0, <1>r, <1>1, <1>2, <2>1 DEF LocalInv, LocalOK, HoldPcs, Registered, Held
  <2>2. CASE v # w
    BY <1>0, <1>r, <1>1, <1>2, <2>2 DEF LocalInv, LocalOK, Held
  <2>. QED
    BY <2>1, <2>2
<1>5. ClaimsAreCounted'
  <2>1. CountFrame
    BY <1>0, <1>r, <1>1, <1>2 DEF CountFrame, Registered
  <2>. QED
    BY <1>0, <2>1, CountFramed
<1>6. LockInv'
  <2>1. LockFrame
    BY <1>0, <1>r, <1>1, <1>2 DEF LockFrame, Locks, ProducerLocks
  <2>. QED
    BY <1>0, <2>1, LockFramed
<1>7. SnapshotInv'
  <2>1. SnapshotOK(w)'
    BY <1>0, <1>r, <1>1, <1>2 DEF SnapshotInv, SnapshotOK, Seen, Updating, Held
  <2>2. ASSUME NEW v \in Workers, v # w PROVE SnapshotOK(v)'
    <3>1. SnapshotOK(v) /\ pc'[v] = pc[v] /\ local'[v] = local[v]
      BY <1>0, <1>r, <1>1, <1>2, <2>2 DEF SnapshotInv
    <3>2. pc[v] = "register" => local[v].item \in Items
      BY <1>0 DEF LocalInv, LocalOK, HoldPcs, Held
    <3>. QED
      BY <1>0, <1>r, <1>1, <1>2, <3>1, <3>2, <2>2 DEF SnapshotOK, Seen, Updating, Held
  <2>3. Seen(Control)' /\ producer'.at = "cas" => ~Updating'
    BY <1>0, <1>r, <1>1, <1>2, Constants DEF SnapshotInv, Seen, Updating
  <2>. QED
    BY <2>1, <2>2, <2>3 DEF SnapshotInv
<1>8. ItemInv'
  <2>1. ItemFrame
    BY <1>0, <1>r, <1>1, <1>2 DEF ItemFrame, Closers, Releasers
  <2>2. ASSUME NEW v \in Workers
        PROVE  /\ pc'[v] \in Registered \ {"leave"} =>
                    local'[v].item \in Items /\ ~drainers[local'[v].item].claimed
               /\ pc'[v] \in {"processor", "tile", "close"} =>
                    /\ operation[local'[v].item] # None
                    /\ current = local'[v].item \/ drainers[local'[v].item].closed
               /\ pc'[v] = "clear" => pc[v] = "clear"
    <3>1. LocalOK(v) /\ WorkerOK(v)
      BY <1>0 DEF LocalInv, ItemInv
    <3>2. CASE v = w
      BY <1>0, <1>r, <1>1, <1>2, <3>1, <3>2 DEF WorkerOK, LocalOK, HoldPcs, Registered, Held
    <3>3. CASE v # w
      BY <1>0, <1>r, <1>1, <1>2, <3>1, <3>3 DEF WorkerOK, LocalOK, HoldPcs, Held
    <3>. QED
      BY <3>2, <3>3
  <2>. QED
    BY <1>0, <2>1, <2>2, ItemFramed
<1>9. OwnerInv'
  <2>1. OwnerFrame
    BY <1>0, <1>r, <1>1, <1>2 DEF OwnerFrame
  <2>. QED
    BY <1>0, <2>1, OwnerFramed
<1>10. TileInv'
  <2>1. TileFrame
    BY <1>0, <1>r, <1>1, <1>2 DEF TileFrame
  <2>. QED
    BY <1>0, <2>1, TileFramed
<1>11. AttachInv'
  <2>0. \A v \in Workers : Carries(v)' => Carries(v) /\ v # w /\ local'[v].next = local[v].next
    BY <1>0, <1>r, <1>1, <1>2 DEF Carries
  <2>1. ready' = ready /\ \A q \in ToSet(ready) : q \in Recordings /\ outcome'[q] = None
    <3>1. ready \in Seq(Recordings)
      BY <1>0 DEF TypeOK
    <3>2. \A q \in ToSet(ready) : q \in Recordings
      BY <3>1 DEF ToSet
    <3>. QED
      BY <1>0, <1>r, <1>1, <1>2, <3>2 DEF AttachInv
  <2>2. ASSUME NEW i \in Items, operation'[i] # None
        PROVE  /\ outcome'[operation'[i]] = None /\ operation'[i] \notin ToSet(ready)'
               /\ \A j \in Items : operation'[j] = operation'[i] => j = i
    BY <1>0, <1>r, <1>1, <1>2, <2>2 DEF AttachInv, TypeOK
  <2>3. ASSUME NEW v \in Workers, Carries(v)'
        PROVE  /\ outcome'[local'[v].next] = None /\ local'[v].next \notin ToSet(ready)'
               /\ tiles'[local'[v].next] = 0
               /\ \A i \in Items : operation'[i] # local'[v].next
               /\ \A u \in Workers : Carries(u)' /\ local'[u].next = local'[v].next => u = v
    <3>1. local[v].next \in Recordings
      BY <1>0, <2>0, <2>3 DEF LocalInv, LocalOK, Carries
    <3>. QED
      BY <1>0, <1>r, <1>1, <1>2, <2>0, <2>3, <3>1 DEF AttachInv
  <2>. QED
    BY <1>0, <1>r, <1>1, <1>2, <2>1, <2>2, <2>3 DEF AttachInv
<1>12. OutcomeIsTrue'
  BY <1>0, <1>r, <1>1, <1>2 DEF OutcomeIsTrue
<1>13. PhaseInv'
  <2>1. Inside' = Inside /\ w \in Inside
    BY <1>0, <1>r, <1>1, <1>2, Constants DEF Inside
  <2>2. \A v \in Workers : pc[v] # "release" /\ pc'[v] # "release"
    BY <1>0, <1>r, <1>1, <1>2, Constants, <2>1 DEF PhaseInv
  <2>3. (phase # "running" => producer.at = "idle" /\ OperationsEnded)'
    BY <1>0, <1>r, <1>1, <1>2, Constants DEF PhaseInv, OperationsEnded, Outcomes
  <2>4. (terminal \/ slot = "released" => phase # "running")'
    BY <1>0, <1>r, <1>1, <1>2, Constants DEF PhaseInv
  <2>5. \A v \in Workers : local'[v].result = "completed" => phase' # "running"
    BY <1>0, <1>r, <1>1, <1>2, Constants DEF PhaseInv
  <2>6. slot' # "idle"
    BY <1>0, <1>r, <1>1, <1>2, Constants, <2>1 DEF PhaseInv
  <2>. QED
    BY <2>1, <2>2, <2>3, <2>4, <2>5, <2>6 DEF PhaseInv
<1>14. CoverInv'
  <2>1. CoverFrame(w)
    BY <1>0, <1>r, <1>1, <1>2 DEF CoverFrame, Outstanding, Fresh, Works, Seen, Updating
  <2>. QED
    BY <1>0, <2>1, CoverFramed
<1>. QED
  BY <1>3, <1>4, <1>5, <1>6, <1>7, <1>8, <1>9, <1>10, <1>11, <1>12, <1>13, <1>14 DEF Inv


----------------------------------------------------------------------------
(* Promoting and returning.                                                *)

LEMMA TryBeginKeeps ==
  ASSUME Inv, NEW w \in Workers, TryBegin(w) PROVE Inv'
<1>0. /\ TypeOK /\ LocalInv /\ ClaimsAreCounted /\ LockInv /\ SnapshotInv /\ ItemInv
      /\ OwnerInv /\ TileInv /\ AttachInv /\ OutcomeIsTrue /\ PhaseInv /\ CoverInv
  BY DEF Inv
<1>h. pc[w] = "promote" /\ local[w] \in Locals /\ LocalOK(w) /\ revision \in Revisions
  BY <1>0 DEF TryBegin, TypeOK, Locals, Revisions, LocalInv
<1>1. PICK at \in {"return", "promote_cas"}, l \in Locals :
        /\ Go(w, at, l) /\ l.item = None /\ l.gen = 0 /\ l.next = None /\ l.result = "none"
        /\ at = "return" <=> revision.updating
        /\ revision' \in Revisions /\ revision'.updating = revision.updating
        /\ \A x : x \in revision'.seen <=> x \in revision.seen \/ x = w
        /\ UNCHANGED <<current, ready, pending, free, allocated, drainers, operation, tiles,
                       error, outcome, phase, slot, needs, terminal, producer>>
  <2>1. UNCHANGED <<current, ready, pending, free, allocated, drainers, operation, tiles, error, outcome, phase, slot, needs, terminal, producer>> /\ Sees(w)
    BY DEF TryBegin, queueVars, listVars, itemVars, slotVars
  <2>2. /\ revision' \in Revisions /\ revision'.updating = revision.updating
        /\ \A x : x \in revision'.seen <=> x \in revision.seen \/ x = w
    BY <1>0, <2>1, SeesFacts
  <2>3. CASE Updating
    <3>1. Go(w, "return", NoLocal)
      BY <2>3 DEF TryBegin
    <3>. QED
      BY <2>1, <2>2, <2>3, <3>1, Constants, NoLocalFacts DEF Updating
  <2>4. CASE ~Updating
    <3>1. Go(w, "promote_cas", NoLocal)
      BY <2>4 DEF TryBegin
    <3>. QED
      BY <2>1, <2>2, <2>4, <3>1, Constants, NoLocalFacts DEF Updating
  <2>. QED
    BY <2>3, <2>4
<1>2. /\ pc' \in [Workers -> Pcs] /\ local' \in [Workers -> Locals]
      /\ pc'[w] = at /\ local'[w] = l
      /\ \A v \in Workers : v # w => pc'[v] = pc[v] /\ local'[v] = local[v]
  <2>1. at \in Pcs
    BY <1>1 DEF Pcs
  <2>. QED
    BY <1>0, <1>1, <2>1, Moved
<1>3. TypeOK'
  BY <1>0, <1>h, <1>1, <1>2 DEF TypeOK, Locals, Revisions
<1>4. LocalInv'
  <2>. SUFFICES ASSUME NEW v \in Workers PROVE LocalOK(v)'
    BY DEF LocalInv
  <2>1. CASE v = w
    BY <1>0, <1>h, <1>1, <1>2, <2>1 DEF LocalInv, LocalOK, HoldPcs, Registered, Held
  <2>2. CASE v # w
    BY <1>0, <1>h, <1>1, <1>2, <2>2 DEF LocalInv, LocalOK, Held
  <2>. QED
    BY <2>1, <2>2
<1>5. ClaimsAreCounted'
  <2>1. CountFrame
    BY <1>0, <1>h, <1>1, <1>2 DEF CountFrame, Registered
  <2>. QED
    BY <1>0, <2>1, CountFramed
<1>6. LockInv'
  <2>1. LockFrame
    BY <1>0, <1>h, <1>1, <1>2 DEF LockFrame, Locks, ProducerLocks
  <2>. QED
    BY <1>0, <2>1, LockFramed
<1>7. SnapshotInv'
  <2>1. SnapshotOK(w)'
    BY <1>0, <1>h, <1>1, <1>2 DEF SnapshotInv, SnapshotOK, Seen, Updating, Held
  <2>2. ASSUME NEW v \in Workers, v # w PROVE SnapshotOK(v)'
    <3>1. SnapshotOK(v) /\ pc'[v] = pc[v] /\ local'[v] = local[v]
      BY <1>0, <1>h, <1>1, <1>2, <2>2 DEF SnapshotInv
    <3>2. pc[v] = "register" => local[v].item \in Items
      BY <1>0 DEF LocalInv, LocalOK, HoldPcs, Held
    <3>. QED
      BY <1>0, <1>h, <1>1, <1>2, <3>1, <3>2, <2>2 DEF SnapshotOK, Seen, Updating, Held
  <2>3. Seen(Control)' /\ producer'.at = "cas" => ~Updating'
    BY <1>0, <1>h, <1>1, <1>2, Constants DEF SnapshotInv, Seen, Updating
  <2>. QED
    BY <2>1, <2>2, <2>3 DEF SnapshotInv
<1>8. ItemInv'
  <2>1. ItemFrame
    BY <1>0, <1>h, <1>1, <1>2 DEF ItemFrame, Closers, Releasers
  <2>2. ASSUME NEW v \in Workers
        PROVE  /\ pc'[v] \in Registered \ {"leave"} =>
                    local'[v].item \in Items /\ ~drainers[local'[v].item].claimed
               /\ pc'[v] \in {"processor", "tile", "close"} =>
                    /\ operation[local'[v].item] # None
                    /\ current = local'[v].item \/ drainers[local'[v].item].closed
               /\ pc'[v] = "clear" => pc[v] = "clear"
    <3>1. LocalOK(v) /\ WorkerOK(v)
      BY <1>0 DEF LocalInv, ItemInv
    <3>2. CASE v = w
      BY <1>0, <1>h, <1>1, <1>2, <3>1, <3>2 DEF WorkerOK, LocalOK, HoldPcs, Registered, Held
    <3>3. CASE v # w
      BY <1>0, <1>h, <1>1, <1>2, <3>1, <3>3 DEF WorkerOK, LocalOK, HoldPcs, Held
    <3>. QED
      BY <3>2, <3>3
  <2>. QED
    BY <1>0, <2>1, <2>2, ItemFramed
<1>9. OwnerInv'
  <2>1. OwnerFrame
    BY <1>0, <1>h, <1>1, <1>2 DEF OwnerFrame
  <2>. QED
    BY <1>0, <2>1, OwnerFramed
<1>10. TileInv'
  <2>1. TileFrame
    BY <1>0, <1>h, <1>1, <1>2 DEF TileFrame
  <2>. QED
    BY <1>0, <2>1, TileFramed
<1>11. AttachInv'
  <2>1. AttachFrame
    BY <1>0, <1>h, <1>1, <1>2 DEF AttachFrame
  <2>. QED
    BY <1>0, <2>1, AttachFramed
<1>12. OutcomeIsTrue'
  BY <1>0, <1>h, <1>1, <1>2, OutcomeFramed
<1>13. PhaseInv'
  <2>1. Inside' = Inside /\ w \in Inside
    BY <1>0, <1>h, <1>1, <1>2 DEF Inside
  <2>2. \A v \in Workers : pc[v] # "release" /\ pc'[v] # "release"
    BY <1>0, <1>h, <1>1, <1>2, <2>1 DEF PhaseInv
  <2>3. (phase # "running" => producer.at = "idle" /\ OperationsEnded)'
    BY <1>0, <1>h, <1>1, <1>2 DEF PhaseInv, OperationsEnded
  <2>4. (terminal \/ slot = "released" => phase # "running")'
    BY <1>0, <1>h, <1>1, <1>2 DEF PhaseInv
  <2>5. \A v \in Workers : local'[v].result = "completed" => phase' # "running"
    BY <1>0, <1>h, <1>1, <1>2 DEF PhaseInv
  <2>6. slot' # "idle"
    BY <1>0, <1>h, <1>1, <1>2, <2>1 DEF PhaseInv
  <2>. QED
    BY <2>1, <2>2, <2>3, <2>4, <2>5, <2>6 DEF PhaseInv
<1>14. CoverInv'
  <2>1. CoverFrame(w)
    BY <1>0, <1>h, <1>1, <1>2 DEF CoverFrame, Outstanding, Fresh, Works, Seen, Updating, LocalOK
  <2>. QED
    BY <1>0, <2>1, CoverFramed
<1>. QED
  BY <1>3, <1>4, <1>5, <1>6, <1>7, <1>8, <1>9, <1>10, <1>11, <1>12, <1>13, <1>14 DEF Inv

LEMMA TryBeginCasKeeps ==
  ASSUME Inv, NEW w \in Workers, TryBeginCas(w) PROVE Inv'
<1>0. /\ TypeOK /\ LocalInv /\ ClaimsAreCounted /\ LockInv /\ SnapshotInv /\ ItemInv
      /\ OwnerInv /\ TileInv /\ AttachInv /\ OutcomeIsTrue /\ PhaseInv /\ CoverInv
  BY DEF Inv
<1>h. pc[w] = "promote_cas" /\ local[w] \in Locals /\ LocalOK(w) /\ revision \in Revisions
  BY <1>0 DEF TryBeginCas, TypeOK, Locals, Revisions, LocalInv
<1>1. PICK at \in {"return", "promote_store"}, l \in Locals :
        /\ Go(w, at, l) /\ l.item = None /\ l.gen = 0 /\ l.next = None /\ l.result = "none"
        /\ \/ /\ at = "promote_store" /\ w \in revision.seen
              /\ revision'.updating = TRUE /\ revision'.seen = {}
           \/ at = "return" /\ w \notin revision.seen /\ revision' = revision
        /\ revision' \in Revisions
        /\ UNCHANGED <<current, ready, pending, free, allocated, drainers, operation, tiles,
                       error, outcome, phase, slot, needs, terminal, producer>>
  <2>1. UNCHANGED <<current, ready, pending, free, allocated, drainers, operation, tiles, error, outcome, phase, slot, needs, terminal, producer>>
    BY DEF TryBeginCas, queueVars, listVars, itemVars, slotVars
  <2>2. CASE Seen(w)
    <3>1. Go(w, "promote_store", NoLocal) /\ revision' = Odd
      BY <2>2 DEF TryBeginCas
    <3>. QED
      BY <2>1, <2>2, <3>1, Constants, NoLocalFacts, EvenOdd DEF Seen
  <2>3. CASE ~Seen(w)
    <3>1. Go(w, "return", NoLocal) /\ revision' = revision
      BY <2>3 DEF TryBeginCas
    <3>. QED
      BY <1>h, <2>1, <2>3, <3>1, Constants, NoLocalFacts DEF Seen
  <2>. QED
    BY <2>2, <2>3
<1>2. /\ pc' \in [Workers -> Pcs] /\ local' \in [Workers -> Locals]
      /\ pc'[w] = at /\ local'[w] = l
      /\ \A v \in Workers : v # w => pc'[v] = pc[v] /\ local'[v] = local[v]
  <2>1. at \in Pcs
    BY <1>1 DEF Pcs
  <2>. QED
    BY <1>0, <1>1, <2>1, Moved
<1>3. TypeOK'
  BY <1>0, <1>h, <1>1, <1>2 DEF TypeOK, Locals, Revisions
<1>4. LocalInv'
  <2>. SUFFICES ASSUME NEW v \in Workers PROVE LocalOK(v)'
    BY DEF LocalInv
  <2>1. CASE v = w
    BY <1>0, <1>h, <1>1, <1>2, <2>1 DEF LocalInv, LocalOK, HoldPcs, Registered, Held
  <2>2. CASE v # w
    BY <1>0, <1>h, <1>1, <1>2, <2>2 DEF LocalInv, LocalOK, Held
  <2>. QED
    BY <2>1, <2>2
<1>5. ClaimsAreCounted'
  <2>1. CountFrame
    BY <1>0, <1>h, <1>1, <1>2 DEF CountFrame, Registered
  <2>. QED
    BY <1>0, <2>1, CountFramed
<1>6. LockInv'
  <2>1. CASE at = "return"
    <3>1. LockFrame
      BY <1>0, <1>h, <1>1, <1>2, <2>1 DEF LockFrame, Locks, ProducerLocks
    <3>. QED
      BY <1>0, <3>1, LockFramed
  <2>2. CASE at = "promote_store"
    <3>0. ~Updating
      BY <1>0, <1>h, <1>1, <1>2, <2>2 DEF SnapshotInv, SnapshotOK, Seen
    <3>1. (\A v \in Workers : ~Locks(v)) /\ ~ProducerLocks
      BY <1>0, <3>0 DEF LockInv
    <3>2. \A v \in Workers : Locks(v)' <=> v = w
      BY <1>0, <1>h, <1>1, <1>2, <2>2, <3>1 DEF Locks
    <3>. QED
      BY <1>0, <1>h, <1>1, <1>2, <2>2, <3>1, <3>2 DEF LockInv, ProducerLocks, Updating
  <2>. QED
    BY <1>1, <2>1, <2>2
<1>7. SnapshotInv'
  <2>1. SnapshotOK(w)'
    BY <1>0, <1>h, <1>1, <1>2 DEF SnapshotInv, SnapshotOK, Seen, Updating, Held
  <2>2. ASSUME NEW v \in Workers, v # w PROVE SnapshotOK(v)'
    <3>1. SnapshotOK(v) /\ pc'[v] = pc[v] /\ local'[v] = local[v]
      BY <1>0, <1>h, <1>1, <1>2, <2>2 DEF SnapshotInv
    <3>2. pc[v] = "register" => local[v].item \in Items
      BY <1>0 DEF LocalInv, LocalOK, HoldPcs, Held
    <3>. QED
      BY <1>0, <1>h, <1>1, <1>2, <3>1, <3>2, <2>2 DEF SnapshotOK, Seen, Updating, Held
  <2>3. Seen(Control)' /\ producer'.at = "cas" => ~Updating'
    BY <1>0, <1>h, <1>1, <1>2, Constants DEF SnapshotInv, Seen, Updating
  <2>. QED
    BY <2>1, <2>2, <2>3 DEF SnapshotInv
<1>8. ItemInv'
  <2>1. ItemFrame
    BY <1>0, <1>h, <1>1, <1>2 DEF ItemFrame, Closers, Releasers
  <2>2. ASSUME NEW v \in Workers
        PROVE  /\ pc'[v] \in Registered \ {"leave"} =>
                    local'[v].item \in Items /\ ~drainers[local'[v].item].claimed
               /\ pc'[v] \in {"processor", "tile", "close"} =>
                    /\ operation[local'[v].item] # None
                    /\ current = local'[v].item \/ drainers[local'[v].item].closed
               /\ pc'[v] = "clear" => pc[v] = "clear"
    <3>1. LocalOK(v) /\ WorkerOK(v)
      BY <1>0 DEF LocalInv, ItemInv
    <3>2. CASE v = w
      BY <1>0, <1>h, <1>1, <1>2, <3>1, <3>2 DEF WorkerOK, LocalOK, HoldPcs, Registered, Held
    <3>3. CASE v # w
      BY <1>0, <1>h, <1>1, <1>2, <3>1, <3>3 DEF WorkerOK, LocalOK, HoldPcs, Held
    <3>. QED
      BY <3>2, <3>3
  <2>. QED
    BY <1>0, <2>1, <2>2, ItemFramed
<1>9. OwnerInv'
  <2>1. OwnerFrame
    BY <1>0, <1>h, <1>1, <1>2 DEF OwnerFrame
  <2>. QED
    BY <1>0, <2>1, OwnerFramed
<1>10. TileInv'
  <2>1. TileFrame
    BY <1>0, <1>h, <1>1, <1>2 DEF TileFrame
  <2>. QED
    BY <1>0, <2>1, TileFramed
<1>11. AttachInv'
  <2>1. AttachFrame
    BY <1>0, <1>h, <1>1, <1>2 DEF AttachFrame
  <2>. QED
    BY <1>0, <2>1, AttachFramed
<1>12. OutcomeIsTrue'
  BY <1>0, <1>h, <1>1, <1>2, OutcomeFramed
<1>13. PhaseInv'
  <2>1. Inside' = Inside /\ w \in Inside
    BY <1>0, <1>h, <1>1, <1>2 DEF Inside
  <2>2. \A v \in Workers : pc[v] # "release" /\ pc'[v] # "release"
    BY <1>0, <1>h, <1>1, <1>2, <2>1 DEF PhaseInv
  <2>3. (phase # "running" => producer.at = "idle" /\ OperationsEnded)'
    BY <1>0, <1>h, <1>1, <1>2 DEF PhaseInv, OperationsEnded
  <2>4. (terminal \/ slot = "released" => phase # "running")'
    BY <1>0, <1>h, <1>1, <1>2 DEF PhaseInv
  <2>5. \A v \in Workers : local'[v].result = "completed" => phase' # "running"
    BY <1>0, <1>h, <1>1, <1>2 DEF PhaseInv
  <2>6. slot' # "idle"
    BY <1>0, <1>h, <1>1, <1>2, <2>1 DEF PhaseInv
  <2>. QED
    BY <2>1, <2>2, <2>3, <2>4, <2>5, <2>6 DEF PhaseInv
<1>14. CoverInv'
  <2>1. CASE at = "return"
    <3>1. CoverFrame(w)
      BY <1>0, <1>h, <1>1, <1>2, <2>1
      DEF CoverFrame, Outstanding, Fresh, Works, Seen, Updating, LocalOK
    <3>. QED
      BY <1>0, <3>1, CoverFramed
  <2>2. CASE at = "promote_store"
    <3>1. Works(w)'
      BY <1>0, <1>h, <1>1, <1>2, <2>2 DEF Works
    <3>. QED
      BY <3>1, BackedCovers DEF Backed
  <2>. QED
    BY <1>1, <2>1, <2>2
<1>. QED
  BY <1>3, <1>4, <1>5, <1>6, <1>7, <1>8, <1>9, <1>10, <1>11, <1>12, <1>13, <1>14 DEF Inv

LEMMA PromotePendingKeeps ==
  ASSUME Inv, NEW w \in Workers, PromotePending(w) PROVE Inv'
<1>0. /\ TypeOK /\ LocalInv /\ ClaimsAreCounted /\ LockInv /\ SnapshotInv /\ ItemInv
      /\ OwnerInv /\ TileInv /\ AttachInv /\ OutcomeIsTrue /\ PhaseInv /\ CoverInv
  BY DEF Inv
<1>h. pc[w] = "promote_store" /\ local[w] \in Locals /\ LocalOK(w) /\ revision \in Revisions
  BY <1>0 DEF PromotePending, TypeOK, Locals, Revisions, LocalInv
<1>u. revision.updating
  BY <1>0, <1>h DEF LockInv, Locks, Updating
<1>k. current = None => \A v \in Workers : pc[v] \notin Closers
  BY <1>0, Constants DEF ItemInv, WorkerOK, LocalInv, LocalOK, HoldPcs, Registered, Closers, Held
<1>1. PICK at \in {"promote_end"}, l \in Locals :
        /\ Go(w, at, l) /\ l.item = local[w].item /\ l.gen = local[w].gen /\ l.next = local[w].next
        /\ l.result \in {"none", "work"}
        /\ l.result = "work" <=> current' # None
        /\ \/ /\ current = None /\ current' \in Items \cup {None}
              /\ pending' \in Seq(Items) /\ IsInjective(pending')
              /\ ToSet(pending') = ToSet(pending) \ {current'}
              /\ current' # None => current' \in ToSet(pending)
              /\ current' = None => pending' = <<>>
           \/ current # None /\ UNCHANGED <<current, pending>>
        /\ UNCHANGED <<revision, ready, free, allocated, drainers, operation, tiles, error,
                       outcome, phase, slot, needs, terminal, producer>>
  <2>1. UNCHANGED <<revision, ready, free, allocated, drainers, operation, tiles, error, outcome, phase, slot, needs, terminal, producer>>
    BY DEF PromotePending, queueVars, listVars, itemVars, slotVars
  <2>2. PICK q \in {"none", "work"} : q = IF current' = None THEN "none" ELSE "work"
    OBVIOUS
  <2>3. PICK l \in Locals : l = [local[w] EXCEPT !.result = q]
    BY <1>h DEF Locals
  <2>4. /\ l.item = local[w].item /\ l.gen = local[w].gen /\ l.next = local[w].next
        /\ l.result = q
    BY <1>h, <2>3 DEF Locals
  <2>5. Go(w, "promote_end", l)
    BY <2>2, <2>3 DEF PromotePending, WithResult
  <2>6. CASE current = None
    <3>1. current' = Popped(pending) /\ pending' = Rest(pending)
      BY <2>6 DEF PromotePending
    <3>2. pending \in Seq(Items) /\ IsInjective(pending)
      BY <1>0 DEF TypeOK, OwnerInv
    <3>3. /\ current' \in Items \cup {None}
          /\ pending' \in Seq(Items) /\ IsInjective(pending')
          /\ ToSet(pending') = ToSet(pending) \ {current'}
          /\ current' # None => current' \in ToSet(pending)
          /\ current' = None => pending = <<>>
      BY <3>1, <3>2, RestFacts
    <3>4. current' = None => pending' = <<>>
      BY <3>1, <3>3 DEF Rest
    <3>. QED
      BY <2>1, <2>2, <2>4, <2>5, <2>6, <3>3, <3>4
  <2>7. CASE current # None
    <3>1. UNCHANGED <<current, pending>>
      BY <2>7 DEF PromotePending
    <3>. QED
      BY <2>1, <2>2, <2>4, <2>5, <2>7, <3>1
  <2>. QED
    BY <2>6, <2>7
<1>2. /\ pc' \in [Workers -> Pcs] /\ local' \in [Workers -> Locals]
      /\ pc'[w] = at /\ local'[w] = l
      /\ \A v \in Workers : v # w => pc'[v] = pc[v] /\ local'[v] = local[v]
  <2>1. at \in Pcs
    BY <1>1 DEF Pcs
  <2>. QED
    BY <1>0, <1>1, <2>1, Moved
<1>3. TypeOK'
  BY <1>0, <1>h, <1>1, <1>2, <1>u DEF TypeOK, Locals, Revisions
<1>4. LocalInv'
  <2>. SUFFICES ASSUME NEW v \in Workers PROVE LocalOK(v)'
    BY DEF LocalInv
  <2>1. CASE v = w
    BY <1>0, <1>h, <1>1, <1>2, <1>u, <2>1 DEF LocalInv, LocalOK, HoldPcs, Registered, Held
  <2>2. CASE v # w
    BY <1>0, <1>h, <1>1, <1>2, <1>u, <2>2 DEF LocalInv, LocalOK, Held
  <2>. QED
    BY <2>1, <2>2
<1>5. ClaimsAreCounted'
  <2>1. CountFrame
    BY <1>0, <1>h, <1>1, <1>2, <1>u DEF CountFrame, Registered
  <2>. QED
    BY <1>0, <2>1, CountFramed
<1>6. LockInv'
  <2>1. LockFrame
    BY <1>0, <1>h, <1>1, <1>2, <1>u DEF LockFrame, Locks, ProducerLocks
  <2>. QED
    BY <1>0, <2>1, LockFramed
<1>7. SnapshotInv'
  <2>1. SnapshotOK(w)'
    BY <1>0, <1>h, <1>1, <1>2, <1>u DEF SnapshotInv, SnapshotOK, Seen, Updating, Held
  <2>2. ASSUME NEW v \in Workers, v # w PROVE SnapshotOK(v)'
    <3>1. SnapshotOK(v) /\ pc'[v] = pc[v] /\ local'[v] = local[v]
      BY <1>0, <1>h, <1>1, <1>2, <1>u, <2>2 DEF SnapshotInv
    <3>2. pc[v] = "register" => local[v].item \in Items
      BY <1>0 DEF LocalInv, LocalOK, HoldPcs, Held
    <3>. QED
      BY <1>0, <1>h, <1>1, <1>2, <1>u, <3>1, <3>2, <2>2 DEF SnapshotOK, Seen, Updating, Held
  <2>3. Seen(Control)' /\ producer'.at = "cas" => ~Updating'
    BY <1>0, <1>h, <1>1, <1>2, <1>u, Constants DEF SnapshotInv, Seen, Updating
  <2>. QED
    BY <2>1, <2>2, <2>3 DEF SnapshotInv
<1>8. ItemInv'
  <2>1. ASSUME NEW v \in Workers PROVE WorkerOK(v)'
    <3>1. LocalOK(v) /\ WorkerOK(v)
      BY <1>0 DEF LocalInv, ItemInv
    <3>2. CASE v = w
      BY <1>0, <1>h, <1>1, <1>2, <1>u, <3>1, <3>2
      DEF WorkerOK, Registered, Closers, Releasers, Held
    <3>3. CASE v # w
      <4>1. pc[v] \in {"processor", "tile", "close"} => local[v].item # None
        BY <3>1, Constants DEF LocalOK, HoldPcs, Registered, Held
      <4>2. \A u \in Workers : (pc'[u] \in Closers <=> pc[u] \in Closers) /\ (pc'[u] \in Releasers <=> pc[u] \in Releasers)
        BY <1>0, <1>h, <1>1, <1>2, <1>u DEF Closers, Releasers
      <4>3. \A u \in Workers : local'[u].item = local[u].item
        BY <1>0, <1>h, <1>1, <1>2, <1>u
      <4>4. pc'[v] = pc[v] /\ local'[v] = local[v]
        BY <1>0, <1>h, <1>1, <1>2, <1>u, <3>3
      <4>5. drainers' = drainers /\ operation' = operation
        BY <1>1
      <4>6. current' = current \/ current = None
        BY <1>1
      <4>7. pc[v] \in Closers => current' = local[v].item /\ drainers[local[v].item].closed
        BY <1>k, <3>1, <4>6 DEF WorkerOK, Held
      <4>8. pc[v] \in {"processor", "tile", "close"} =>
              current' = local[v].item \/ drainers[local[v].item].closed
        BY <3>1, <4>1, <4>6 DEF WorkerOK, Held
      <4>. QED
        BY <3>1, <4>2, <4>3, <4>4, <4>5, <4>7, <4>8 DEF WorkerOK, Held
    <3>. QED
      BY <3>2, <3>3
  <2>2. ASSUME NEW i \in Items PROVE ItemOK(i)'
    <3>1. ItemOK(i) /\ OwnerOK(i)
      BY <1>0 DEF ItemInv, OwnerInv
    <3>2. CASE current' = current
      <4>1. ASSUME NEW v \in Workers, pc[v] \in Closers PROVE pc'[v] \in Closers /\ local'[v] = local[v]
        BY <1>0, <1>h, <1>1, <1>2, <1>u, <4>1 DEF Closers
      <4>. QED
        BY <1>0, <1>h, <1>1, <1>2, <1>u, <3>1, <3>2, <4>1 DEF ItemOK, Held
    <3>3. CASE current' # current
      <4>1. ASSUME current' = i PROVE operation[i] # None /\ ~drainers[i].closed
        <5>1. IsPending(i)
          BY <1>1, <3>3, <4>1, Constants DEF IsPending
        <5>. QED
          BY <3>1, <5>1 DEF OwnerOK, IsClosed
      <4>. QED
        BY <1>0, <1>h, <1>1, <1>2, <1>u, <3>1, <4>1 DEF ItemOK
    <3>. QED
      BY <3>2, <3>3
  <2>. QED
    BY <2>1, <2>2 DEF ItemInv
<1>9. OwnerInv'
  <2>0. ASSUME NEW i \in Items
        PROVE  /\ IsNext(i)' <=> IsNext(i)
               /\ IsFree(i)' <=> IsFree(i)
               /\ IsProduced(i)' <=> IsProduced(i)
               /\ IsClosed(i)' <=> IsClosed(i)
               /\ operation'[i] = operation[i] /\ allocated' = allocated
    <3>1. IsNext(i)' <=> IsNext(i)
      BY <1>0, <1>h, <1>1, <1>2, <1>u DEF IsNext
    <3>. QED
      BY <1>1, <3>1 DEF IsFree, IsProduced, IsClosed
  <2>1. CASE current = None
    <3>1. ASSUME NEW i \in Items
          PROVE  /\ IsPending(i)' <=> IsPending(i) /\ i # current'
                 /\ ~IsOpen(i)
                 /\ IsOpen(i)' <=> i = current' /\ ~IsClosed(i)
                 /\ i = current' => IsPending(i)
      BY <1>1, <2>1, Constants DEF IsPending, IsOpen, IsClosed
    <3>2. ASSUME NEW i \in Items PROVE OwnerOK(i)'
      <4>1. OwnerOK(i)
        BY <1>0 DEF OwnerInv
      <4>. QED
        BY <2>0, <3>1, <4>1 DEF OwnerOK
    <3>. QED
      BY <1>0, <1>h, <1>1, <1>2, <1>u, <2>1, <3>2 DEF OwnerInv
  <2>2. CASE current # None
    <3>1. ASSUME NEW i \in Items
          PROVE  /\ IsPending(i)' <=> IsPending(i)
                 /\ IsOpen(i)' <=> IsOpen(i)
      BY <1>1, <2>2 DEF IsPending, IsOpen
    <3>2. ASSUME NEW i \in Items PROVE OwnerOK(i)'
      <4>1. OwnerOK(i)
        BY <1>0 DEF OwnerInv
      <4>. QED
        BY <2>0, <3>1, <4>1 DEF OwnerOK
    <3>. QED
      BY <1>0, <1>h, <1>1, <1>2, <1>u, <2>2, <3>2 DEF OwnerInv
  <2>. QED
    BY <2>1, <2>2
<1>10. TileInv'
  <2>1. TileFrame
    BY <1>0, <1>h, <1>1, <1>2, <1>u DEF TileFrame
  <2>. QED
    BY <1>0, <2>1, TileFramed
<1>11. AttachInv'
  <2>1. AttachFrame
    BY <1>0, <1>h, <1>1, <1>2, <1>u DEF AttachFrame
  <2>. QED
    BY <1>0, <2>1, AttachFramed
<1>12. OutcomeIsTrue'
  BY <1>0, <1>h, <1>1, <1>2, <1>u, OutcomeFramed
<1>13. PhaseInv'
  <2>1. Inside' = Inside /\ w \in Inside
    BY <1>0, <1>h, <1>1, <1>2, <1>u DEF Inside
  <2>2. \A v \in Workers : pc[v] # "release" /\ pc'[v] # "release"
    BY <1>0, <1>h, <1>1, <1>2, <1>u, <2>1 DEF PhaseInv
  <2>3. (phase # "running" => producer.at = "idle" /\ OperationsEnded)'
    BY <1>0, <1>h, <1>1, <1>2, <1>u DEF PhaseInv, OperationsEnded
  <2>4. (terminal \/ slot = "released" => phase # "running")'
    BY <1>0, <1>h, <1>1, <1>2, <1>u DEF PhaseInv
  <2>5. \A v \in Workers : local'[v].result = "completed" => phase' # "running"
    BY <1>0, <1>h, <1>1, <1>2, <1>u DEF PhaseInv
  <2>6. slot' # "idle"
    BY <1>0, <1>h, <1>1, <1>2, <1>u, <2>1 DEF PhaseInv
  <2>. QED
    BY <2>1, <2>2, <2>3, <2>4, <2>5, <2>6 DEF PhaseInv
<1>14. CoverInv'
  <2>1. CASE current' # None
    <3>1. Works(w)'
      BY <1>0, <1>h, <1>1, <1>2, <1>u, <2>1 DEF Works
    <3>. QED
      BY <3>1, BackedCovers DEF Backed
  <2>2. CASE current' = None
    <3>1. ~Outstanding'
      BY <1>1, <2>2 DEF Outstanding
    <3>. QED
      BY <3>1 DEF CoverInv
  <2>. QED
    BY <2>1, <2>2
<1>. QED
  BY <1>3, <1>4, <1>5, <1>6, <1>7, <1>8, <1>9, <1>10, <1>11, <1>12, <1>13, <1>14 DEF Inv

LEMMA PromoteEndKeeps ==
  ASSUME Inv, NEW w \in Workers, PromoteEnd(w) PROVE Inv'
<1>0. /\ TypeOK /\ LocalInv /\ ClaimsAreCounted /\ LockInv /\ SnapshotInv /\ ItemInv
      /\ OwnerInv /\ TileInv /\ AttachInv /\ OutcomeIsTrue /\ PhaseInv /\ CoverInv
  BY DEF Inv
<1>h. pc[w] = "promote_end" /\ local[w] \in Locals /\ LocalOK(w) /\ revision \in Revisions
  BY <1>0 DEF PromoteEnd, TypeOK, Locals, Revisions, LocalInv
<1>1. PICK at \in {"promote_schedule", "return"}, l \in Locals :
        /\ Go(w, at, l) /\ l = local[w]
        /\ at = "promote_schedule" <=> local[w].result = "work"
        /\ revision' \in Revisions /\ revision'.updating = FALSE /\ revision'.seen = {}
        /\ UNCHANGED <<current, ready, pending, free, allocated, drainers, operation, tiles,
                       error, outcome, phase, slot, needs, terminal, producer>>
  <2>1. UNCHANGED <<current, ready, pending, free, allocated, drainers, operation, tiles, error, outcome, phase, slot, needs, terminal, producer>> /\ revision' = Even
    BY DEF PromoteEnd, queueVars, listVars, itemVars, slotVars
  <2>2. PICK at \in {"promote_schedule", "return"} :
          at = IF local[w].result = "work" THEN "promote_schedule" ELSE "return"
    OBVIOUS
  <2>3. Go(w, at, local[w]) /\ (at = "promote_schedule" <=> local[w].result = "work")
    BY <2>2 DEF PromoteEnd
  <2>. QED
    BY <1>h, <2>1, <2>3, EvenOdd
<1>2. /\ pc' \in [Workers -> Pcs] /\ local' \in [Workers -> Locals]
      /\ pc'[w] = at /\ local'[w] = l
      /\ \A v \in Workers : v # w => pc'[v] = pc[v] /\ local'[v] = local[v]
  <2>1. at \in Pcs
    BY <1>1 DEF Pcs
  <2>. QED
    BY <1>0, <1>1, <2>1, Moved
<1>3. TypeOK'
  BY <1>0, <1>h, <1>1, <1>2 DEF TypeOK, Locals, Revisions
<1>4. LocalInv'
  <2>. SUFFICES ASSUME NEW v \in Workers PROVE LocalOK(v)'
    BY DEF LocalInv
  <2>1. CASE v = w
    BY <1>0, <1>h, <1>1, <1>2, <2>1 DEF LocalInv, LocalOK, HoldPcs, Registered, Held
  <2>2. CASE v # w
    BY <1>0, <1>h, <1>1, <1>2, <2>2 DEF LocalInv, LocalOK, Held
  <2>. QED
    BY <2>1, <2>2
<1>5. ClaimsAreCounted'
  <2>1. CountFrame
    BY <1>0, <1>h, <1>1, <1>2 DEF CountFrame, Registered
  <2>. QED
    BY <1>0, <2>1, CountFramed
<1>6. LockInv'
  <2>1. (\A v \in Workers : Locks(v) <=> v = w) /\ ~ProducerLocks
    BY <1>0, <1>h DEF LockInv, Locks
  <2>2. \A v \in Workers : ~Locks(v)'
    BY <1>0, <1>h, <1>1, <1>2, <2>1 DEF Locks
  <2>. QED
    BY <1>0, <1>h, <1>1, <1>2, <2>1, <2>2 DEF LockInv, ProducerLocks, Updating
<1>7. SnapshotInv'
  <2>1. SnapshotOK(w)'
    BY <1>0, <1>h, <1>1, <1>2 DEF SnapshotInv, SnapshotOK, Seen, Updating, Held
  <2>2. ASSUME NEW v \in Workers, v # w PROVE SnapshotOK(v)'
    <3>1. SnapshotOK(v) /\ pc'[v] = pc[v] /\ local'[v] = local[v]
      BY <1>0, <1>h, <1>1, <1>2, <2>2 DEF SnapshotInv
    <3>2. pc[v] = "register" => local[v].item \in Items
      BY <1>0 DEF LocalInv, LocalOK, HoldPcs, Held
    <3>. QED
      BY <1>0, <1>h, <1>1, <1>2, <3>1, <3>2, <2>2 DEF SnapshotOK, Seen, Updating, Held
  <2>3. Seen(Control)' /\ producer'.at = "cas" => ~Updating'
    BY <1>0, <1>h, <1>1, <1>2, Constants DEF SnapshotInv, Seen, Updating
  <2>. QED
    BY <2>1, <2>2, <2>3 DEF SnapshotInv
<1>8. ItemInv'
  <2>1. ItemFrame
    BY <1>0, <1>h, <1>1, <1>2 DEF ItemFrame, Closers, Releasers
  <2>2. ASSUME NEW v \in Workers
        PROVE  /\ pc'[v] \in Registered \ {"leave"} =>
                    local'[v].item \in Items /\ ~drainers[local'[v].item].claimed
               /\ pc'[v] \in {"processor", "tile", "close"} =>
                    /\ operation[local'[v].item] # None
                    /\ current = local'[v].item \/ drainers[local'[v].item].closed
               /\ pc'[v] = "clear" => pc[v] = "clear"
    <3>1. LocalOK(v) /\ WorkerOK(v)
      BY <1>0 DEF LocalInv, ItemInv
    <3>2. CASE v = w
      BY <1>0, <1>h, <1>1, <1>2, <3>1, <3>2 DEF WorkerOK, LocalOK, HoldPcs, Registered, Held
    <3>3. CASE v # w
      BY <1>0, <1>h, <1>1, <1>2, <3>1, <3>3 DEF WorkerOK, LocalOK, HoldPcs, Held
    <3>. QED
      BY <3>2, <3>3
  <2>. QED
    BY <1>0, <2>1, <2>2, ItemFramed
<1>9. OwnerInv'
  <2>1. OwnerFrame
    BY <1>0, <1>h, <1>1, <1>2 DEF OwnerFrame
  <2>. QED
    BY <1>0, <2>1, OwnerFramed
<1>10. TileInv'
  <2>1. TileFrame
    BY <1>0, <1>h, <1>1, <1>2 DEF TileFrame
  <2>. QED
    BY <1>0, <2>1, TileFramed
<1>11. AttachInv'
  <2>1. AttachFrame
    BY <1>0, <1>h, <1>1, <1>2 DEF AttachFrame
  <2>. QED
    BY <1>0, <2>1, AttachFramed
<1>12. OutcomeIsTrue'
  BY <1>0, <1>h, <1>1, <1>2, OutcomeFramed
<1>13. PhaseInv'
  <2>1. Inside' = Inside /\ w \in Inside
    BY <1>0, <1>h, <1>1, <1>2 DEF Inside
  <2>2. \A v \in Workers : pc[v] # "release" /\ pc'[v] # "release"
    BY <1>0, <1>h, <1>1, <1>2, <2>1 DEF PhaseInv
  <2>3. (phase # "running" => producer.at = "idle" /\ OperationsEnded)'
    BY <1>0, <1>h, <1>1, <1>2 DEF PhaseInv, OperationsEnded
  <2>4. (terminal \/ slot = "released" => phase # "running")'
    BY <1>0, <1>h, <1>1, <1>2 DEF PhaseInv
  <2>5. \A v \in Workers : local'[v].result = "completed" => phase' # "running"
    BY <1>0, <1>h, <1>1, <1>2 DEF PhaseInv
  <2>6. slot' # "idle"
    BY <1>0, <1>h, <1>1, <1>2, <2>1 DEF PhaseInv
  <2>. QED
    BY <2>1, <2>2, <2>3, <2>4, <2>5, <2>6 DEF PhaseInv
<1>14. CoverInv'
  <2>. SUFFICES ASSUME Outstanding', phase' = "running" PROVE Backed'
    BY DEF CoverInv
  <2>1. Backed
    BY <1>0, <1>h, <1>1, <1>2 DEF CoverInv, Outstanding
  <2>2. ASSUME NEW v \in Workers, Works(v) PROVE Works(v)'
    BY <1>0, <1>h, <1>1, <1>2, <2>2 DEF Works
  <2>. QED
    BY <1>1, <2>1, <2>2 DEF Backed
<1>. QED
  BY <1>3, <1>4, <1>5, <1>6, <1>7, <1>8, <1>9, <1>10, <1>11, <1>12, <1>13, <1>14 DEF Inv

LEMMA PromoteScheduleKeeps ==
  ASSUME Inv, NEW w \in Workers, PromoteSchedule(w) PROVE Inv'
<1>0. /\ TypeOK /\ LocalInv /\ ClaimsAreCounted /\ LockInv /\ SnapshotInv /\ ItemInv
      /\ OwnerInv /\ TileInv /\ AttachInv /\ OutcomeIsTrue /\ PhaseInv /\ CoverInv
  BY DEF Inv
<1>h. pc[w] = "promote_schedule" /\ local[w] \in Locals /\ LocalOK(w) /\ revision \in Revisions
  BY <1>0 DEF PromoteSchedule, TypeOK, Locals, Revisions, LocalInv
<1>1. PICK at \in {"return"}, l \in Locals :
        /\ Go(w, at, l) /\ l = local[w]
        /\ slot' = slot /\ needs' \in BOOLEAN /\ terminal' = terminal
        /\ UNCHANGED <<revision, current, ready, pending, free, allocated, drainers, operation,
                       tiles, error, outcome, phase, producer>>
  <2>1. slot # "idle"
    BY <1>0, <1>h DEF PhaseInv, Inside
  <2>. QED
    BY <1>h, <2>1 DEF PromoteSchedule, Schedule, queueVars, listVars, itemVars, slotVars
<1>2. /\ pc' \in [Workers -> Pcs] /\ local' \in [Workers -> Locals]
      /\ pc'[w] = at /\ local'[w] = l
      /\ \A v \in Workers : v # w => pc'[v] = pc[v] /\ local'[v] = local[v]
  <2>1. at \in Pcs
    BY <1>1 DEF Pcs
  <2>. QED
    BY <1>0, <1>1, <2>1, Moved
<1>3. TypeOK'
  BY <1>0, <1>h, <1>1, <1>2 DEF TypeOK, Locals, Revisions
<1>4. LocalInv'
  <2>. SUFFICES ASSUME NEW v \in Workers PROVE LocalOK(v)'
    BY DEF LocalInv
  <2>1. CASE v = w
    BY <1>0, <1>h, <1>1, <1>2, <2>1 DEF LocalInv, LocalOK, HoldPcs, Registered, Held
  <2>2. CASE v # w
    BY <1>0, <1>h, <1>1, <1>2, <2>2 DEF LocalInv, LocalOK, Held
  <2>. QED
    BY <2>1, <2>2
<1>5. ClaimsAreCounted'
  <2>1. CountFrame
    BY <1>0, <1>h, <1>1, <1>2 DEF CountFrame, Registered
  <2>. QED
    BY <1>0, <2>1, CountFramed
<1>6. LockInv'
  <2>1. LockFrame
    BY <1>0, <1>h, <1>1, <1>2 DEF LockFrame, Locks, ProducerLocks
  <2>. QED
    BY <1>0, <2>1, LockFramed
<1>7. SnapshotInv'
  <2>1. SnapshotOK(w)'
    BY <1>0, <1>h, <1>1, <1>2 DEF SnapshotInv, SnapshotOK, Seen, Updating, Held
  <2>2. ASSUME NEW v \in Workers, v # w PROVE SnapshotOK(v)'
    <3>1. SnapshotOK(v) /\ pc'[v] = pc[v] /\ local'[v] = local[v]
      BY <1>0, <1>h, <1>1, <1>2, <2>2 DEF SnapshotInv
    <3>2. pc[v] = "register" => local[v].item \in Items
      BY <1>0 DEF LocalInv, LocalOK, HoldPcs, Held
    <3>. QED
      BY <1>0, <1>h, <1>1, <1>2, <3>1, <3>2, <2>2 DEF SnapshotOK, Seen, Updating, Held
  <2>3. Seen(Control)' /\ producer'.at = "cas" => ~Updating'
    BY <1>0, <1>h, <1>1, <1>2, Constants DEF SnapshotInv, Seen, Updating
  <2>. QED
    BY <2>1, <2>2, <2>3 DEF SnapshotInv
<1>8. ItemInv'
  <2>1. ItemFrame
    BY <1>0, <1>h, <1>1, <1>2 DEF ItemFrame, Closers, Releasers
  <2>2. ASSUME NEW v \in Workers
        PROVE  /\ pc'[v] \in Registered \ {"leave"} =>
                    local'[v].item \in Items /\ ~drainers[local'[v].item].claimed
               /\ pc'[v] \in {"processor", "tile", "close"} =>
                    /\ operation[local'[v].item] # None
                    /\ current = local'[v].item \/ drainers[local'[v].item].closed
               /\ pc'[v] = "clear" => pc[v] = "clear"
    <3>1. LocalOK(v) /\ WorkerOK(v)
      BY <1>0 DEF LocalInv, ItemInv
    <3>2. CASE v = w
      BY <1>0, <1>h, <1>1, <1>2, <3>1, <3>2 DEF WorkerOK, LocalOK, HoldPcs, Registered, Held
    <3>3. CASE v # w
      BY <1>0, <1>h, <1>1, <1>2, <3>1, <3>3 DEF WorkerOK, LocalOK, HoldPcs, Held
    <3>. QED
      BY <3>2, <3>3
  <2>. QED
    BY <1>0, <2>1, <2>2, ItemFramed
<1>9. OwnerInv'
  <2>1. OwnerFrame
    BY <1>0, <1>h, <1>1, <1>2 DEF OwnerFrame
  <2>. QED
    BY <1>0, <2>1, OwnerFramed
<1>10. TileInv'
  <2>1. TileFrame
    BY <1>0, <1>h, <1>1, <1>2 DEF TileFrame
  <2>. QED
    BY <1>0, <2>1, TileFramed
<1>11. AttachInv'
  <2>1. AttachFrame
    BY <1>0, <1>h, <1>1, <1>2 DEF AttachFrame
  <2>. QED
    BY <1>0, <2>1, AttachFramed
<1>12. OutcomeIsTrue'
  BY <1>0, <1>h, <1>1, <1>2, OutcomeFramed
<1>13. PhaseInv'
  <2>1. Inside' = Inside /\ w \in Inside
    BY <1>0, <1>h, <1>1, <1>2 DEF Inside
  <2>2. \A v \in Workers : pc[v] # "release" /\ pc'[v] # "release"
    BY <1>0, <1>h, <1>1, <1>2, <2>1 DEF PhaseInv
  <2>3. (phase # "running" => producer.at = "idle" /\ OperationsEnded)'
    BY <1>0, <1>h, <1>1, <1>2 DEF PhaseInv, OperationsEnded
  <2>4. (terminal \/ slot = "released" => phase # "running")'
    BY <1>0, <1>h, <1>1, <1>2 DEF PhaseInv
  <2>5. \A v \in Workers : local'[v].result = "completed" => phase' # "running"
    BY <1>0, <1>h, <1>1, <1>2 DEF PhaseInv
  <2>6. slot' # "idle"
    BY <1>0, <1>h, <1>1, <1>2, <2>1 DEF PhaseInv
  <2>. QED
    BY <2>1, <2>2, <2>3, <2>4, <2>5, <2>6 DEF PhaseInv
<1>14. CoverInv'
  <2>1. Works(w)'
    BY <1>0, <1>h, <1>1, <1>2 DEF Works, LocalInv, LocalOK
  <2>. QED
    BY <2>1, BackedCovers DEF Backed
<1>. QED
  BY <1>3, <1>4, <1>5, <1>6, <1>7, <1>8, <1>9, <1>10, <1>11, <1>12, <1>13, <1>14 DEF Inv

LEMMA ReturnKeeps ==
  ASSUME Inv, NEW w \in Workers, Return(w) PROVE Inv'
<1>0. /\ TypeOK /\ LocalInv /\ ClaimsAreCounted /\ LockInv /\ SnapshotInv /\ ItemInv
      /\ OwnerInv /\ TileInv /\ AttachInv /\ OutcomeIsTrue /\ PhaseInv /\ CoverInv
  BY DEF Inv
<1>h. pc[w] = "return" /\ local[w] \in Locals /\ LocalOK(w) /\ revision \in Revisions
  BY <1>0 DEF Return, TypeOK, Locals, Revisions, LocalInv
<1>1. PICK at \in {"release", "out"}, l \in Locals :
        /\ Go(w, at, l) /\ l.item = None /\ l.gen = 0 /\ l.next = None /\ l.result = "none"
        /\ terminal' \in BOOLEAN /\ (terminal' => phase # "running")
        /\ slot' \in {"idle", "placed", "released"} /\ needs' \in BOOLEAN
        /\ \/ at = "release" /\ Inside = {w} /\ terminal' /\ slot' = "released"
           \/ /\ at = "out" /\ Inside = {w} /\ local[w].result = "none" /\ ~terminal'
              /\ slot' = IF needs THEN slot ELSE "idle"
           \/ /\ at = "out" /\ slot' = slot /\ needs' = (needs \/ local[w].result = "work")
              /\ Inside = {w} /\ ~terminal' => local[w].result # "none"
        /\ revision' \in Revisions /\ revision'.updating = revision.updating
        /\ \A x : x \in revision'.seen <=> x \in revision.seen /\ x # w
        /\ UNCHANGED <<current, ready, pending, free, allocated, drainers, operation, tiles,
                       error, outcome, phase, producer>>
  <2>1. UNCHANGED <<current, ready, pending, free, allocated, drainers, operation, tiles, error, outcome, phase, producer>> /\ Forgets(w)
    BY DEF Return, queueVars, listVars, itemVars, slotVars
  <2>2. /\ revision' \in Revisions /\ revision'.updating = revision.updating
        /\ \A x : x \in revision'.seen <=> x \in revision.seen /\ x # w
    BY <1>0, <2>1, ForgetsFacts
  <2>3. slot \in {"idle", "placed", "released"} /\ needs \in BOOLEAN /\ terminal \in BOOLEAN
    BY <1>0 DEF TypeOK
  <2>4. /\ terminal' = (terminal \/ local[w].result = "completed") /\ terminal' \in BOOLEAN
        /\ terminal' => phase # "running"
    BY <1>0, <2>3 DEF Return, PhaseInv
  <2>5. CASE terminal' /\ Inside = {w}
    <3>1. Go(w, "release", NoLocal) /\ slot' = "released" /\ needs' = needs
      BY <2>4, <2>5 DEF Return
    <3>. QED
      BY <2>1, <2>2, <2>3, <2>4, <2>5, <3>1, Constants, NoLocalFacts
  <2>6. CASE ~terminal' /\ Inside = {w} /\ local[w].result = "none"
    <3>1. Go(w, "out", NoLocal) /\ slot' = (IF needs THEN slot ELSE "idle") /\ needs' = FALSE
      BY <2>4, <2>6 DEF Return
    <3>2. slot' \in {"idle", "placed", "released"}
      BY <2>3, <3>1
    <3>. QED
      BY <2>1, <2>2, <2>4, <2>6, <3>1, <3>2, Constants, NoLocalFacts
  <2>7. CASE ~(terminal' /\ Inside = {w}) /\ ~(~terminal' /\ Inside = {w} /\ local[w].result = "none")
    <3>1. Go(w, "out", NoLocal) /\ slot' = slot /\ needs' = (needs \/ local[w].result = "work")
      BY <2>4, <2>7 DEF Return
    <3>2. needs' \in BOOLEAN
      BY <2>3, <3>1
    <3>. QED
      BY <2>1, <2>2, <2>3, <2>4, <2>7, <3>1, <3>2, Constants, NoLocalFacts
  <2>. QED
    BY <2>5, <2>6, <2>7
<1>2. /\ pc' \in [Workers -> Pcs] /\ local' \in [Workers -> Locals]
      /\ pc'[w] = at /\ local'[w] = l
      /\ \A v \in Workers : v # w => pc'[v] = pc[v] /\ local'[v] = local[v]
  <2>1. at \in Pcs
    BY <1>1 DEF Pcs
  <2>. QED
    BY <1>0, <1>1, <2>1, Moved
<1>3. TypeOK'
  BY <1>0, <1>h, <1>1, <1>2 DEF TypeOK, Locals, Revisions
<1>4. LocalInv'
  <2>. SUFFICES ASSUME NEW v \in Workers PROVE LocalOK(v)'
    BY DEF LocalInv
  <2>1. CASE v = w
    BY <1>0, <1>h, <1>1, <1>2, <2>1 DEF LocalInv, LocalOK, HoldPcs, Registered, Held
  <2>2. CASE v # w
    BY <1>0, <1>h, <1>1, <1>2, <2>2 DEF LocalInv, LocalOK, Held
  <2>. QED
    BY <2>1, <2>2
<1>5. ClaimsAreCounted'
  <2>1. CountFrame
    BY <1>0, <1>h, <1>1, <1>2 DEF CountFrame, Registered
  <2>. QED
    BY <1>0, <2>1, CountFramed
<1>6. LockInv'
  <2>1. LockFrame
    BY <1>0, <1>h, <1>1, <1>2 DEF LockFrame, Locks, ProducerLocks
  <2>. QED
    BY <1>0, <2>1, LockFramed
<1>7. SnapshotInv'
  <2>1. SnapshotOK(w)'
    BY <1>0, <1>h, <1>1, <1>2 DEF SnapshotInv, SnapshotOK, Seen, Updating, Held
  <2>2. ASSUME NEW v \in Workers, v # w PROVE SnapshotOK(v)'
    <3>1. SnapshotOK(v) /\ pc'[v] = pc[v] /\ local'[v] = local[v]
      BY <1>0, <1>h, <1>1, <1>2, <2>2 DEF SnapshotInv
    <3>2. pc[v] = "register" => local[v].item \in Items
      BY <1>0 DEF LocalInv, LocalOK, HoldPcs, Held
    <3>. QED
      BY <1>0, <1>h, <1>1, <1>2, <3>1, <3>2, <2>2 DEF SnapshotOK, Seen, Updating, Held
  <2>3. Seen(Control)' /\ producer'.at = "cas" => ~Updating'
    BY <1>0, <1>h, <1>1, <1>2, Constants DEF SnapshotInv, Seen, Updating
  <2>. QED
    BY <2>1, <2>2, <2>3 DEF SnapshotInv
<1>8. ItemInv'
  <2>1. ItemFrame
    BY <1>0, <1>h, <1>1, <1>2 DEF ItemFrame, Closers, Releasers
  <2>2. ASSUME NEW v \in Workers
        PROVE  /\ pc'[v] \in Registered \ {"leave"} =>
                    local'[v].item \in Items /\ ~drainers[local'[v].item].claimed
               /\ pc'[v] \in {"processor", "tile", "close"} =>
                    /\ operation[local'[v].item] # None
                    /\ current = local'[v].item \/ drainers[local'[v].item].closed
               /\ pc'[v] = "clear" => pc[v] = "clear"
    <3>1. LocalOK(v) /\ WorkerOK(v)
      BY <1>0 DEF LocalInv, ItemInv
    <3>2. CASE v = w
      BY <1>0, <1>h, <1>1, <1>2, <3>1, <3>2 DEF WorkerOK, LocalOK, HoldPcs, Registered, Held
    <3>3. CASE v # w
      BY <1>0, <1>h, <1>1, <1>2, <3>1, <3>3 DEF WorkerOK, LocalOK, HoldPcs, Held
    <3>. QED
      BY <3>2, <3>3
  <2>. QED
    BY <1>0, <2>1, <2>2, ItemFramed
<1>9. OwnerInv'
  <2>1. OwnerFrame
    BY <1>0, <1>h, <1>1, <1>2 DEF OwnerFrame
  <2>. QED
    BY <1>0, <2>1, OwnerFramed
<1>10. TileInv'
  <2>1. TileFrame
    BY <1>0, <1>h, <1>1, <1>2 DEF TileFrame
  <2>. QED
    BY <1>0, <2>1, TileFramed
<1>11. AttachInv'
  <2>1. AttachFrame
    BY <1>0, <1>h, <1>1, <1>2 DEF AttachFrame
  <2>. QED
    BY <1>0, <2>1, AttachFramed
<1>12. OutcomeIsTrue'
  BY <1>0, <1>h, <1>1, <1>2, OutcomeFramed
<1>13. PhaseInv'
  <2>1. w \in Inside /\ slot # "idle"
    BY <1>0, <1>h DEF PhaseInv, Inside
  <2>2. \A v \in Workers : pc[v] # "release"
    BY <1>0, <1>h, <2>1 DEF PhaseInv
  <2>3. Inside' = IF at = "out" THEN Inside \ {w} ELSE Inside
    BY <1>0, <1>h, <1>1, <1>2 DEF Inside
  <2>4. (slot = "idle" => Inside = {})'
    BY <1>1, <2>1, <2>3
  <2>5. \A v \in Workers : pc'[v] = "release" => slot' = "released" /\ Inside' = {v}
    BY <1>0, <1>h, <1>1, <1>2, <2>2, <2>3
  <2>6. (terminal \/ slot = "released" => phase # "running")'
    BY <1>0, <1>h, <1>1, <1>2 DEF PhaseInv
  <2>7. (phase # "running" => producer.at = "idle" /\ OperationsEnded)'
    BY <1>0, <1>h, <1>1, <1>2 DEF PhaseInv, OperationsEnded
  <2>8. \A v \in Workers : local'[v].result = "completed" => phase' # "running"
    BY <1>0, <1>h, <1>1, <1>2 DEF PhaseInv
  <2>. QED
    BY <2>4, <2>5, <2>6, <2>7, <2>8 DEF PhaseInv
<1>14. CoverInv'
  <2>. SUFFICES ASSUME Outstanding', phase' = "running"
       PROVE  /\ Backed' \/ (slot' = "placed" /\ Inside' = {}) \/ \E v \in Workers : Fresh(v)'
              /\ (\E v \in Workers : pc'[v] = "promote_end") => Backed'
    BY DEF CoverInv
  <2>1. Outstanding /\ phase = "running" /\ at = "out" /\ ~terminal' /\ producer' = producer
    BY <1>1 DEF Outstanding
  <2>2. w \in Inside /\ slot = "placed"
    <3>1. w \in Inside
      BY <1>h DEF Inside
    <3>. QED
      BY <1>0, <2>1, <3>1 DEF PhaseInv, TypeOK
  <2>3. Inside' = Inside \ {w}
    BY <1>0, <1>h, <1>1, <1>2, <2>1 DEF Inside
  <2>4. ASSUME NEW v \in Workers, v # w
        PROVE  /\ Works(v) => Works(v)'
               /\ Fresh(v) => Fresh(v)'
               /\ v \in Inside <=> pc'[v] # "out"
    BY <1>0, <1>h, <1>1, <1>2, <2>4 DEF Works, Fresh, Seen, Updating, Inside
  <2>5. ~Fresh(w) /\ (Works(w) => local[w].result = "work")
    BY <1>h DEF Fresh, Works
  <2>6. CASE Inside = {w}
    <3>1. \A v \in Workers : v # w => ~Works(v) /\ ~Fresh(v)
      BY <2>6 DEF Works, Fresh, Inside
    <3>2. \A v \in Workers : pc'[v] # "promote_end"
      BY <1>0, <1>h, <1>1, <1>2, <2>4, <2>6
    <3>3. Inside' = {}
      BY <2>3, <2>6
    <3>4. CASE slot' = "placed"
      BY <3>2, <3>3, <3>4
    <3>5. CASE slot' # "placed"
      <4>1. local[w].result = "none" /\ ~needs
        BY <1>1, <2>1, <2>2, <3>5
      <4>2. producer.at # "idle"
        BY <1>0, <2>1, <2>5, <2>6, <3>1, <4>1 DEF CoverInv, Backed
      <4>. QED
        BY <2>1, <4>2 DEF Backed
    <3>. QED
      BY <3>4, <3>5
  <2>7. CASE Inside # {w}
    <3>1. slot' = "placed" /\ needs' = (needs \/ local[w].result = "work")
      BY <1>1, <2>1, <2>2, <2>7
    <3>2. Backed => Backed'
      <4>1. CASE \E v \in Workers : Works(v)
        <5>1. PICK v \in Workers : Works(v)
          BY <4>1
        <5>2. CASE v = w
          BY <2>5, <3>1, <5>1, <5>2 DEF Backed
        <5>3. CASE v # w
          BY <2>4, <5>1, <5>3 DEF Backed
        <5>. QED
          BY <5>2, <5>3
      <4>. QED
        BY <2>1, <3>1, <4>1 DEF Backed
    <3>3. Backed \/ \E v \in Workers : Fresh(v)
      BY <1>0, <2>1, <2>2 DEF CoverInv
    <3>4. (\E v \in Workers : pc'[v] = "promote_end") => Backed
      BY <1>0, <1>h, <1>1, <1>2, <2>1 DEF CoverInv
    <3>. QED
      BY <2>4, <2>5, <3>2, <3>3, <3>4
  <2>. QED
    BY <2>6, <2>7
<1>. QED
  BY <1>3, <1>4, <1>5, <1>6, <1>7, <1>8, <1>9, <1>10, <1>11, <1>12, <1>13, <1>14 DEF Inv

LEMMA ProcessReleaseKeeps ==
  ASSUME Inv, NEW w \in Workers, ProcessRelease(w) PROVE Inv'
<1>0. /\ TypeOK /\ LocalInv /\ ClaimsAreCounted /\ LockInv /\ SnapshotInv /\ ItemInv
      /\ OwnerInv /\ TileInv /\ AttachInv /\ OutcomeIsTrue /\ PhaseInv /\ CoverInv
  BY DEF Inv
<1>h. pc[w] = "release" /\ local[w] \in Locals /\ LocalOK(w) /\ revision \in Revisions
  BY <1>0 DEF ProcessRelease, TypeOK, Locals, Revisions, LocalInv
<1>s. /\ phase # "running" /\ Inside = {w} /\ producer.at = "idle" /\ slot = "released"
      /\ \A i \in Items : operation[i] = None
      /\ current = None /\ pending = <<>> /\ Attached = {}
  <2>1. phase # "running" /\ Inside = {w} /\ producer.at = "idle" /\ slot = "released"
    BY <1>0, <1>h DEF PhaseInv
  <2>. QED
    BY <1>0, <2>1, Settled
<1>t. \A v \in Workers : v # w => pc[v] = "out"
  BY <1>s DEF Inside
<1>1. PICK at \in {"out"}, l \in Locals :
        /\ Go(w, at, l) /\ l.item = None /\ l.gen = 0 /\ l.next = None /\ l.result = "none" /\ phase' = "done"
        /\ revision' \in Revisions /\ revision'.updating = FALSE /\ revision'.seen = {}
        /\ UNCHANGED <<current, ready, pending, free, allocated, drainers, operation, tiles,
                       error, outcome, slot, needs, terminal, producer>>
  <2>1. /\ Go(w, "out", NoLocal) /\ phase' = "done" /\ revision' = Even
        /\ UNCHANGED <<ready, free, allocated, drainers, tiles, error, slot, needs, terminal,
                       producer>>
    BY DEF ProcessRelease, queueVars, listVars, itemVars, slotVars
  <2>2. current' = current /\ pending' = pending
    BY <1>s DEF ProcessRelease
  <2>3. operation' = operation
    <3>1. operation \in [Items -> Recordings \cup {None}] /\ operation' = [i \in Items |-> None]
      BY <1>0 DEF TypeOK, ProcessRelease
    <3>. QED
      BY <1>s, <3>1
  <2>4. outcome' = outcome
    <3>1. outcome \in [Recordings -> Outcomes \cup {None}]
      BY <1>0 DEF TypeOK
    <3>2. outcome' = [r \in Recordings |-> outcome[r]]
      BY <1>s DEF ProcessRelease
    <3>. QED
      BY <3>1, <3>2
  <2>. QED
    BY <2>1, <2>2, <2>3, <2>4, Constants, NoLocalFacts, EvenOdd
<1>2. /\ pc' \in [Workers -> Pcs] /\ local' \in [Workers -> Locals]
      /\ pc'[w] = at /\ local'[w] = l
      /\ \A v \in Workers : v # w => pc'[v] = pc[v] /\ local'[v] = local[v]
  <2>1. at \in Pcs
    BY <1>1 DEF Pcs
  <2>. QED
    BY <1>0, <1>1, <2>1, Moved
<1>3. TypeOK'
  BY <1>0, <1>h, <1>1, <1>2, <1>s, <1>t DEF TypeOK, Locals, Revisions
<1>4. LocalInv'
  <2>. SUFFICES ASSUME NEW v \in Workers PROVE LocalOK(v)'
    BY DEF LocalInv
  <2>1. CASE v = w
    BY <1>0, <1>h, <1>1, <1>2, <1>s, <1>t, <2>1 DEF LocalInv, LocalOK, HoldPcs, Registered, Held
  <2>2. CASE v # w
    BY <1>0, <1>h, <1>1, <1>2, <1>s, <1>t, <2>2 DEF LocalInv, LocalOK, Held
  <2>. QED
    BY <2>1, <2>2
<1>5. ClaimsAreCounted'
  <2>1. CountFrame
    BY <1>0, <1>h, <1>1, <1>2, <1>s, <1>t DEF CountFrame, Registered
  <2>. QED
    BY <1>0, <2>1, CountFramed
<1>6. LockInv'
  <2>1. (\A v \in Workers : ~Locks(v)') /\ ~ProducerLocks'
    BY <1>0, <1>h, <1>1, <1>2, <1>s, <1>t DEF Locks, ProducerLocks
  <2>. QED
    BY <1>1, <2>1 DEF LockInv, Updating
<1>7. SnapshotInv'
  <2>1. SnapshotOK(w)'
    BY <1>0, <1>h, <1>1, <1>2, <1>s, <1>t DEF SnapshotInv, SnapshotOK, Seen, Updating, Held
  <2>2. ASSUME NEW v \in Workers, v # w PROVE SnapshotOK(v)'
    <3>1. SnapshotOK(v) /\ pc'[v] = pc[v] /\ local'[v] = local[v]
      BY <1>0, <1>h, <1>1, <1>2, <1>s, <1>t, <2>2 DEF SnapshotInv
    <3>2. pc[v] = "register" => local[v].item \in Items
      BY <1>0 DEF LocalInv, LocalOK, HoldPcs, Held
    <3>. QED
      BY <1>0, <1>h, <1>1, <1>2, <1>s, <1>t, <3>1, <3>2, <2>2 DEF SnapshotOK, Seen, Updating, Held
  <2>3. Seen(Control)' /\ producer'.at = "cas" => ~Updating'
    BY <1>0, <1>h, <1>1, <1>2, <1>s, <1>t, Constants DEF SnapshotInv, Seen, Updating
  <2>. QED
    BY <2>1, <2>2, <2>3 DEF SnapshotInv
<1>8. ItemInv'
  <2>1. ItemFrame
    BY <1>0, <1>h, <1>1, <1>2, <1>s, <1>t DEF ItemFrame, Closers, Releasers
  <2>2. ASSUME NEW v \in Workers
        PROVE  /\ pc'[v] \in Registered \ {"leave"} =>
                    local'[v].item \in Items /\ ~drainers[local'[v].item].claimed
               /\ pc'[v] \in {"processor", "tile", "close"} =>
                    /\ operation[local'[v].item] # None
                    /\ current = local'[v].item \/ drainers[local'[v].item].closed
               /\ pc'[v] = "clear" => pc[v] = "clear"
    <3>1. LocalOK(v) /\ WorkerOK(v)
      BY <1>0 DEF LocalInv, ItemInv
    <3>2. CASE v = w
      BY <1>0, <1>h, <1>1, <1>2, <1>s, <1>t, <3>1, <3>2
      DEF WorkerOK, LocalOK, HoldPcs, Registered, Held
    <3>3. CASE v # w
      BY <1>0, <1>h, <1>1, <1>2, <1>s, <1>t, <3>1, <3>3 DEF WorkerOK, LocalOK, HoldPcs, Held
    <3>. QED
      BY <3>2, <3>3
  <2>. QED
    BY <1>0, <2>1, <2>2, ItemFramed
<1>9. OwnerInv'
  <2>1. OwnerFrame
    BY <1>0, <1>h, <1>1, <1>2, <1>s, <1>t DEF OwnerFrame
  <2>. QED
    BY <1>0, <2>1, OwnerFramed
<1>10. TileInv'
  <2>1. TileFrame
    BY <1>0, <1>h, <1>1, <1>2, <1>s, <1>t DEF TileFrame
  <2>. QED
    BY <1>0, <2>1, TileFramed
<1>11. AttachInv'
  <2>1. AttachFrame
    BY <1>0, <1>h, <1>1, <1>2, <1>s, <1>t DEF AttachFrame
  <2>. QED
    BY <1>0, <2>1, AttachFramed
<1>12. OutcomeIsTrue'
  BY <1>0, <1>h, <1>1, <1>2, <1>s, <1>t, OutcomeFramed
<1>13. PhaseInv'
  <2>1. Inside' = {}
    BY <1>0, <1>h, <1>1, <1>2, <1>s, <1>t DEF Inside
  <2>2. (phase # "running" => producer.at = "idle" /\ OperationsEnded)'
    BY <1>0, <1>h, <1>1, <1>2, <1>s, <1>t DEF PhaseInv, OperationsEnded
  <2>3. \A v \in Workers : pc'[v] # "release"
    BY <1>0, <1>h, <1>1, <1>2, <1>s, <1>t
  <2>. QED
    BY <1>1, <2>1, <2>2, <2>3 DEF PhaseInv
<1>14. CoverInv'
  BY <1>1 DEF CoverInv
<1>. QED
  BY <1>3, <1>4, <1>5, <1>6, <1>7, <1>8, <1>9, <1>10, <1>11, <1>12, <1>13, <1>14 DEF Inv


----------------------------------------------------------------------------
(* The producer.                                                           *)

LEMMA CheckEmptyKeeps ==
  ASSUME Inv, CheckEmpty PROVE Inv'
<1>0. /\ TypeOK /\ LocalInv /\ ClaimsAreCounted /\ LockInv /\ SnapshotInv /\ ItemInv
      /\ OwnerInv /\ TileInv /\ AttachInv /\ OutcomeIsTrue /\ PhaseInv /\ CoverInv
  BY DEF Inv
<1>1. /\ producer.at = "check" /\ producer'.at \in {"push", "try"} /\ producer'.item = producer.item
      /\ producer' \in [at : ProducerPcs, item : Items \cup {None}]
      /\ UNCHANGED <<revision, current, ready, pending, free, allocated, drainers, operation,
                     tiles, error, outcome, phase, slot, needs, terminal, pc, local>>
  BY <1>0
  DEF CheckEmpty, Produce, TypeOK, ProducerPcs, NoProduct, listVars, queueVars, itemVars, slotVars
<1>3. TypeOK'
  BY <1>0, <1>1 DEF TypeOK, Locals, Revisions
<1>4. LocalInv'
  BY <1>0, <1>1 DEF LocalInv, LocalOK, Held
<1>5. ClaimsAreCounted'
  BY <1>0, <1>1, CountFramed DEF CountFrame
<1>6. LockInv'
  BY <1>0, <1>1, LockFramed DEF LockFrame, Locks, ProducerLocks
<1>7. SnapshotInv'
  BY <1>0, <1>1 DEF SnapshotInv, SnapshotOK, Seen, Updating, Held
<1>8. ItemInv'
  <2>1. ItemFrame
    BY <1>0, <1>1 DEF ItemFrame
  <2>2. ASSUME NEW v \in Workers
        PROVE  /\ pc'[v] \in Registered \ {"leave"} =>
                    local'[v].item \in Items /\ ~drainers[local'[v].item].claimed
               /\ pc'[v] \in {"processor", "tile", "close"} =>
                    /\ operation[local'[v].item] # None
                    /\ current = local'[v].item \/ drainers[local'[v].item].closed
               /\ pc'[v] = "clear" => pc[v] = "clear"
    BY <1>0, <1>1 DEF LocalInv, ItemInv, WorkerOK, LocalOK, HoldPcs, Held
  <2>. QED
    BY <1>0, <2>1, <2>2, ItemFramed
<1>9. OwnerInv'
  BY <1>0, <1>1, OwnerFramed DEF OwnerFrame
<1>10. TileInv'
  BY <1>0, <1>1, TileFramed DEF TileFrame
<1>11. AttachInv'
  BY <1>0, <1>1, AttachFramed DEF AttachFrame
<1>12. OutcomeIsTrue'
  BY <1>0, <1>1, OutcomeFramed
<1>13. PhaseInv'
  BY <1>0, <1>1 DEF PhaseInv, OperationsEnded, Inside
<1>14. CoverInv'
  BY <1>0, <1>1, BackedCovers DEF Backed
<1>. QED
  BY <1>3, <1>4, <1>5, <1>6, <1>7, <1>8, <1>9, <1>10, <1>11, <1>12, <1>13, <1>14 DEF Inv

LEMMA TryPublishKeeps ==
  ASSUME Inv, TryPublish PROVE Inv'
<1>0. /\ TypeOK /\ LocalInv /\ ClaimsAreCounted /\ LockInv /\ SnapshotInv /\ ItemInv
      /\ OwnerInv /\ TileInv /\ AttachInv /\ OutcomeIsTrue /\ PhaseInv /\ CoverInv
  BY DEF Inv
<1>1. /\ producer.at = "try" /\ producer'.item = producer.item
      /\ producer'.at \in {"push", "cas"} /\ (producer'.at = "cas" => ~Updating)
      /\ revision' \in Revisions /\ revision'.updating = revision.updating
      /\ \A v \in Workers : v \in revision'.seen <=> v \in revision.seen
      /\ producer' \in [at : ProducerPcs, item : Items \cup {None}]
      /\ UNCHANGED <<current, ready, pending, free, allocated, drainers, operation, tiles,
                     error, outcome, phase, slot, needs, terminal, pc, local>>
  <2>1. Sees(Control)
    BY DEF TryPublish
  <2>2. /\ revision' \in Revisions /\ revision'.updating = revision.updating
        /\ \A x : x \in revision'.seen <=> x \in revision.seen \/ x = Control
    BY <1>0, <2>1, SeesFacts
  <2>3. \A v \in Workers : v \in revision'.seen <=> v \in revision.seen
    BY <2>2, Constants
  <2>. QED
    BY <1>0, <2>2, <2>3
    DEF TryPublish, Produce, TypeOK, ProducerPcs, NoProduct, listVars, queueVars, itemVars,
       slotVars
<1>3. TypeOK'
  BY <1>0, <1>1 DEF TypeOK, Locals, Revisions
<1>4. LocalInv'
  BY <1>0, <1>1 DEF LocalInv, LocalOK, Held
<1>5. ClaimsAreCounted'
  BY <1>0, <1>1, CountFramed DEF CountFrame
<1>6. LockInv'
  BY <1>0, <1>1, LockFramed DEF LockFrame, Locks, ProducerLocks
<1>7. SnapshotInv'
  BY <1>0, <1>1 DEF SnapshotInv, SnapshotOK, Seen, Updating, Held
<1>8. ItemInv'
  <2>1. ItemFrame
    BY <1>0, <1>1 DEF ItemFrame
  <2>2. ASSUME NEW v \in Workers
        PROVE  /\ pc'[v] \in Registered \ {"leave"} =>
                    local'[v].item \in Items /\ ~drainers[local'[v].item].claimed
               /\ pc'[v] \in {"processor", "tile", "close"} =>
                    /\ operation[local'[v].item] # None
                    /\ current = local'[v].item \/ drainers[local'[v].item].closed
               /\ pc'[v] = "clear" => pc[v] = "clear"
    BY <1>0, <1>1 DEF LocalInv, ItemInv, WorkerOK, LocalOK, HoldPcs, Held
  <2>. QED
    BY <1>0, <2>1, <2>2, ItemFramed
<1>9. OwnerInv'
  BY <1>0, <1>1, OwnerFramed DEF OwnerFrame
<1>10. TileInv'
  BY <1>0, <1>1, TileFramed DEF TileFrame
<1>11. AttachInv'
  BY <1>0, <1>1, AttachFramed DEF AttachFrame
<1>12. OutcomeIsTrue'
  BY <1>0, <1>1, OutcomeFramed
<1>13. PhaseInv'
  BY <1>0, <1>1 DEF PhaseInv, OperationsEnded, Inside
<1>14. CoverInv'
  BY <1>0, <1>1, BackedCovers DEF Backed
<1>. QED
  BY <1>3, <1>4, <1>5, <1>6, <1>7, <1>8, <1>9, <1>10, <1>11, <1>12, <1>13, <1>14 DEF Inv

LEMMA TryPublishCasKeeps ==
  ASSUME Inv, TryPublishCas PROVE Inv'
<1>0. /\ TypeOK /\ LocalInv /\ ClaimsAreCounted /\ LockInv /\ SnapshotInv /\ ItemInv
      /\ OwnerInv /\ TileInv /\ AttachInv /\ OutcomeIsTrue /\ PhaseInv /\ CoverInv
  BY DEF Inv
<1>1. /\ producer.at = "cas" /\ producer'.item = producer.item
      /\ \/ /\ ~Updating /\ producer'.at = "publish" /\ revision' = Odd
         \/ /\ producer'.at = "push" /\ revision' = revision
      /\ producer' \in [at : ProducerPcs, item : Items \cup {None}]
      /\ UNCHANGED <<current, ready, pending, free, allocated, drainers, operation, tiles,
                     error, outcome, phase, slot, needs, terminal, pc, local>>
  BY <1>0
  DEF TryPublishCas, SnapshotInv, Produce, TypeOK, ProducerPcs, NoProduct, listVars, queueVars,
     itemVars, slotVars
<1>3. TypeOK'
  BY <1>0, <1>1, EvenOdd DEF TypeOK, Locals, Revisions
<1>4. LocalInv'
  BY <1>0, <1>1 DEF LocalInv, LocalOK, Held
<1>5. ClaimsAreCounted'
  BY <1>0, <1>1, CountFramed DEF CountFrame
<1>6. LockInv'
  <2>1. CASE revision' = revision /\ producer'.at = "push"
    BY <1>0, <1>1, <2>1, LockFramed DEF LockFrame, Locks, ProducerLocks
  <2>2. CASE ~Updating /\ producer'.at = "publish" /\ revision' = Odd
    <3>1. \A v \in Workers : ~Locks(v)'
      BY <1>0, <1>1, <2>2 DEF LockInv, Locks
    <3>2. ProducerLocks' /\ Updating'
      BY <2>2, EvenOdd DEF ProducerLocks, Updating
    <3>. QED
      BY <3>1, <3>2 DEF LockInv
  <2>. QED
    BY <1>1, <2>1, <2>2
<1>7. SnapshotInv'
  <2>1. CASE revision' = revision /\ producer'.at = "push"
    BY <1>0, <1>1, <2>1 DEF SnapshotInv, SnapshotOK, Seen, Updating, Held
  <2>2. CASE revision' = Odd
    BY <1>0, <1>1, <2>2, EvenOdd DEF SnapshotInv, SnapshotOK, Seen
  <2>. QED
    BY <1>1, <2>1, <2>2
<1>8. ItemInv'
  <2>1. ItemFrame
    BY <1>0, <1>1 DEF ItemFrame
  <2>2. ASSUME NEW v \in Workers
        PROVE  /\ pc'[v] \in Registered \ {"leave"} =>
                    local'[v].item \in Items /\ ~drainers[local'[v].item].claimed
               /\ pc'[v] \in {"processor", "tile", "close"} =>
                    /\ operation[local'[v].item] # None
                    /\ current = local'[v].item \/ drainers[local'[v].item].closed
               /\ pc'[v] = "clear" => pc[v] = "clear"
    BY <1>0, <1>1 DEF LocalInv, ItemInv, WorkerOK, LocalOK, HoldPcs, Held
  <2>. QED
    BY <1>0, <2>1, <2>2, ItemFramed
<1>9. OwnerInv'
  BY <1>0, <1>1, OwnerFramed DEF OwnerFrame
<1>10. TileInv'
  BY <1>0, <1>1, TileFramed DEF TileFrame
<1>11. AttachInv'
  BY <1>0, <1>1, AttachFramed DEF AttachFrame
<1>12. OutcomeIsTrue'
  BY <1>0, <1>1, OutcomeFramed
<1>13. PhaseInv'
  BY <1>0, <1>1 DEF PhaseInv, OperationsEnded, Inside
<1>14. CoverInv'
  BY <1>0, <1>1, BackedCovers DEF Backed
<1>. QED
  BY <1>3, <1>4, <1>5, <1>6, <1>7, <1>8, <1>9, <1>10, <1>11, <1>12, <1>13, <1>14 DEF Inv

LEMMA PublishDirectKeeps ==
  ASSUME Inv, PublishDirect PROVE Inv'
<1>0. /\ TypeOK /\ LocalInv /\ ClaimsAreCounted /\ LockInv /\ SnapshotInv /\ ItemInv
      /\ OwnerInv /\ TileInv /\ AttachInv /\ OutcomeIsTrue /\ PhaseInv /\ CoverInv
  BY DEF Inv
<1>k. PICK k \in Items : k = producer.item
  BY <1>0 DEF OwnerInv, PublishDirect, TypeOK
<1>o. /\ ~IsFree(k) /\ ~IsPending(k) /\ ~IsNext(k) /\ ~drainers[k].closed /\ k \in allocated
      /\ operation[k] # None /\ ~drainers[k].claimed /\ None \notin Items
  BY <1>0, <1>k, Constants DEF OwnerInv, OwnerOK, IsProduced, IsClosed, ItemInv, ItemOK
<1>1. /\ producer.at = "publish" /\ Updating /\ k = producer.item
      /\ \/ /\ current = None /\ current' = k
            /\ producer'.at = "needs" /\ producer'.item = None
         \/ /\ producer'.at = "end_busy" /\ producer'.item = k /\ current' = current
      /\ producer' \in [at : ProducerPcs, item : Items \cup {None}]
      /\ UNCHANGED <<revision, ready, pending, free, allocated, drainers, operation, tiles,
                     error, outcome, phase, slot, needs, terminal, pc, local>>
  <2>1. producer.at = "publish" /\ Updating
    BY <1>0 DEF PublishDirect, LockInv, ProducerLocks
  <2>. QED
    BY <1>0, <1>k, <2>1
    DEF PublishDirect, MayPublish, Produce, TypeOK, ProducerPcs, NoProduct, listVars, queueVars,
       itemVars, slotVars
<1>3. TypeOK'
  BY <1>0, <1>1, <1>o DEF TypeOK, Locals, Revisions
<1>4. LocalInv'
  BY <1>0, <1>1, <1>o DEF LocalInv, LocalOK, Held
<1>5. ClaimsAreCounted'
  BY <1>0, <1>1, <1>o, CountFramed DEF CountFrame
<1>6. LockInv'
  BY <1>0, <1>1, <1>o, LockFramed DEF LockFrame, Locks, ProducerLocks
<1>7. SnapshotInv'
  BY <1>0, <1>1, <1>o DEF SnapshotInv, SnapshotOK, Seen, Updating, Held
<1>8. ItemInv'
  <2>1. CASE current' = current
    <3>1. ItemFrame
      BY <1>0, <1>1, <1>o, <2>1 DEF ItemFrame
    <3>2. ASSUME NEW v \in Workers
          PROVE  /\ pc'[v] \in Registered \ {"leave"} =>
                      local'[v].item \in Items /\ ~drainers[local'[v].item].claimed
                 /\ pc'[v] \in {"processor", "tile", "close"} =>
                      /\ operation[local'[v].item] # None
                      /\ current = local'[v].item \/ drainers[local'[v].item].closed
                 /\ pc'[v] = "clear" => pc[v] = "clear"
      BY <1>0, <1>1, <1>o DEF LocalInv, ItemInv, WorkerOK, LocalOK, HoldPcs, Held
    <3>. QED
      BY <1>0, <3>1, <3>2, ItemFramed
  <2>2. CASE current = None /\ current' = k
    <3>1. ASSUME NEW v \in Workers PROVE WorkerOK(v)'
      <4>1. WorkerOK(v) /\ LocalOK(v)
        BY <1>0 DEF ItemInv, LocalInv
      <4>2. pc[v] \notin Closers
        BY <1>0, <1>1, <1>o, <2>2, <4>1 DEF WorkerOK, LocalOK, HoldPcs, Registered, Closers, Held
      <4>3. pc[v] \in {"processor", "tile", "close"} => drainers[local[v].item].closed
        BY <1>0, <1>1, <1>o, <2>2, <4>1 DEF WorkerOK, LocalOK, HoldPcs, Registered, Held
      <4>. QED
        BY <1>0, <1>1, <1>o, <4>1, <4>2, <4>3 DEF WorkerOK, Held
    <3>2. ASSUME NEW i \in Items PROVE ItemOK(i)'
      <4>1. ItemOK(i)
        BY <1>0 DEF ItemInv
      <4>. QED
        BY <1>0, <1>1, <1>o, <2>2, <4>1 DEF ItemOK
    <3>. QED
      BY <3>1, <3>2 DEF ItemInv
  <2>. QED
    BY <1>1, <2>1, <2>2
<1>9. OwnerInv'
  <2>1. CASE current' = current /\ producer'.at = "end_busy" /\ producer'.item = k
    BY <1>0, <1>1, <1>o, <2>1, OwnerFramed DEF OwnerFrame
  <2>2. CASE current = None /\ current' = k /\ producer'.at = "needs" /\ producer'.item = None
    <3>1. ASSUME NEW i \in Items
          PROVE  /\ IsFree(i)' <=> IsFree(i)
                 /\ IsPending(i)' <=> IsPending(i)
                 /\ IsNext(i)' <=> IsNext(i)
                 /\ ~IsProduced(i)' /\ (IsProduced(i) <=> i = k)
                 /\ IsOpen(i)' <=> i = k
                 /\ ~IsOpen(i)
                 /\ IsClosed(i)' <=> IsClosed(i)
      BY <1>0, <1>1, <1>o, <2>2 DEF IsFree, IsPending, IsNext, IsProduced, IsOpen, IsClosed
    <3>2. ASSUME NEW i \in Items PROVE OwnerOK(i)'
      BY <1>0, <1>1, <1>o, <3>1 DEF OwnerInv, OwnerOK
    <3>. QED
      BY <1>0, <1>1, <1>o, <2>2, <3>2 DEF OwnerInv
  <2>. QED
    BY <1>1, <2>1, <2>2
<1>10. TileInv'
  BY <1>0, <1>1, <1>o, TileFramed DEF TileFrame
<1>11. AttachInv'
  BY <1>0, <1>1, <1>o, AttachFramed DEF AttachFrame
<1>12. OutcomeIsTrue'
  BY <1>0, <1>1, <1>o, OutcomeFramed
<1>13. PhaseInv'
  BY <1>0, <1>1, <1>o DEF PhaseInv, OperationsEnded, Inside
<1>14. CoverInv'
  BY <1>0, <1>1, <1>o, BackedCovers DEF Backed
<1>. QED
  BY <1>3, <1>4, <1>5, <1>6, <1>7, <1>8, <1>9, <1>10, <1>11, <1>12, <1>13, <1>14 DEF Inv

LEMMA LeaveWakeObligationKeeps ==
  ASSUME Inv, LeaveWakeObligation PROVE Inv'
<1>0. /\ TypeOK /\ LocalInv /\ ClaimsAreCounted /\ LockInv /\ SnapshotInv /\ ItemInv
      /\ OwnerInv /\ TileInv /\ AttachInv /\ OutcomeIsTrue /\ PhaseInv /\ CoverInv
  BY DEF Inv
<1>1. /\ producer.at = "needs" /\ producer'.at = "end_stored" /\ producer'.item = producer.item
      /\ needs' \in BOOLEAN
      /\ producer' \in [at : ProducerPcs, item : Items \cup {None}]
      /\ UNCHANGED <<revision, current, ready, pending, free, allocated, drainers, operation,
                     tiles, error, outcome, phase, slot, terminal, pc, local>>
  BY <1>0
  DEF LeaveWakeObligation, Produce, TypeOK, ProducerPcs, NoProduct, listVars, queueVars,
     itemVars, slotVars
<1>3. TypeOK'
  BY <1>0, <1>1 DEF TypeOK, Locals, Revisions
<1>4. LocalInv'
  BY <1>0, <1>1 DEF LocalInv, LocalOK, Held
<1>5. ClaimsAreCounted'
  BY <1>0, <1>1, CountFramed DEF CountFrame
<1>6. LockInv'
  BY <1>0, <1>1, LockFramed DEF LockFrame, Locks, ProducerLocks
<1>7. SnapshotInv'
  BY <1>0, <1>1 DEF SnapshotInv, SnapshotOK, Seen, Updating, Held
<1>8. ItemInv'
  <2>1. ItemFrame
    BY <1>0, <1>1 DEF ItemFrame
  <2>2. ASSUME NEW v \in Workers
        PROVE  /\ pc'[v] \in Registered \ {"leave"} =>
                    local'[v].item \in Items /\ ~drainers[local'[v].item].claimed
               /\ pc'[v] \in {"processor", "tile", "close"} =>
                    /\ operation[local'[v].item] # None
                    /\ current = local'[v].item \/ drainers[local'[v].item].closed
               /\ pc'[v] = "clear" => pc[v] = "clear"
    BY <1>0, <1>1 DEF LocalInv, ItemInv, WorkerOK, LocalOK, HoldPcs, Held
  <2>. QED
    BY <1>0, <2>1, <2>2, ItemFramed
<1>9. OwnerInv'
  BY <1>0, <1>1, OwnerFramed DEF OwnerFrame
<1>10. TileInv'
  BY <1>0, <1>1, TileFramed DEF TileFrame
<1>11. AttachInv'
  BY <1>0, <1>1, AttachFramed DEF AttachFrame
<1>12. OutcomeIsTrue'
  BY <1>0, <1>1, OutcomeFramed
<1>13. PhaseInv'
  BY <1>0, <1>1 DEF PhaseInv, OperationsEnded, Inside
<1>14. CoverInv'
  BY <1>0, <1>1, BackedCovers DEF Backed
<1>. QED
  BY <1>3, <1>4, <1>5, <1>6, <1>7, <1>8, <1>9, <1>10, <1>11, <1>12, <1>13, <1>14 DEF Inv

LEMMA EndPublishKeeps ==
  ASSUME Inv, EndPublish PROVE Inv'
<1>0. /\ TypeOK /\ LocalInv /\ ClaimsAreCounted /\ LockInv /\ SnapshotInv /\ ItemInv
      /\ OwnerInv /\ TileInv /\ AttachInv /\ OutcomeIsTrue /\ PhaseInv /\ CoverInv
  BY DEF Inv
<1>1. /\ producer.at \in {"end_stored", "end_busy"} /\ producer'.item = producer.item
      /\ producer'.at = (IF producer.at = "end_stored" THEN "schedule" ELSE "push")
      /\ revision' = Even
      /\ producer' \in [at : ProducerPcs, item : Items \cup {None}]
      /\ UNCHANGED <<current, ready, pending, free, allocated, drainers, operation, tiles,
                     error, outcome, phase, slot, needs, terminal, pc, local>>
  BY <1>0
  DEF EndPublish, Produce, TypeOK, ProducerPcs, NoProduct, listVars, queueVars, itemVars, slotVars
<1>3. TypeOK'
  BY <1>0, <1>1, EvenOdd DEF TypeOK, Locals, Revisions
<1>4. LocalInv'
  BY <1>0, <1>1 DEF LocalInv, LocalOK, Held
<1>5. ClaimsAreCounted'
  BY <1>0, <1>1, CountFramed DEF CountFrame
<1>6. LockInv'
  <2>1. ProducerLocks /\ ~ProducerLocks' /\ ~Updating'
    BY <1>0, <1>1, EvenOdd DEF ProducerLocks, Updating
  <2>2. \A v \in Workers : ~Locks(v)'
    BY <1>0, <1>1, <2>1 DEF LockInv, Locks
  <2>. QED
    BY <2>1, <2>2 DEF LockInv
<1>7. SnapshotInv'
  BY <1>0, <1>1, EvenOdd DEF SnapshotInv, SnapshotOK, Seen
<1>8. ItemInv'
  <2>1. ItemFrame
    BY <1>0, <1>1 DEF ItemFrame
  <2>2. ASSUME NEW v \in Workers
        PROVE  /\ pc'[v] \in Registered \ {"leave"} =>
                    local'[v].item \in Items /\ ~drainers[local'[v].item].claimed
               /\ pc'[v] \in {"processor", "tile", "close"} =>
                    /\ operation[local'[v].item] # None
                    /\ current = local'[v].item \/ drainers[local'[v].item].closed
               /\ pc'[v] = "clear" => pc[v] = "clear"
    BY <1>0, <1>1 DEF LocalInv, ItemInv, WorkerOK, LocalOK, HoldPcs, Held
  <2>. QED
    BY <1>0, <2>1, <2>2, ItemFramed
<1>9. OwnerInv'
  BY <1>0, <1>1, OwnerFramed DEF OwnerFrame
<1>10. TileInv'
  BY <1>0, <1>1, TileFramed DEF TileFrame
<1>11. AttachInv'
  BY <1>0, <1>1, AttachFramed DEF AttachFrame
<1>12. OutcomeIsTrue'
  BY <1>0, <1>1, OutcomeFramed
<1>13. PhaseInv'
  BY <1>0, <1>1 DEF PhaseInv, OperationsEnded, Inside
<1>14. CoverInv'
  BY <1>0, <1>1, BackedCovers DEF Backed
<1>. QED
  BY <1>3, <1>4, <1>5, <1>6, <1>7, <1>8, <1>9, <1>10, <1>11, <1>12, <1>13, <1>14 DEF Inv

LEMMA PushPendingKeeps ==
  ASSUME Inv, PushPending PROVE Inv'
<1>0. /\ TypeOK /\ LocalInv /\ ClaimsAreCounted /\ LockInv /\ SnapshotInv /\ ItemInv
      /\ OwnerInv /\ TileInv /\ AttachInv /\ OutcomeIsTrue /\ PhaseInv /\ CoverInv
  BY DEF Inv
<1>k. PICK k \in Items : k = producer.item
  BY <1>0 DEF OwnerInv, PushPending, TypeOK
<1>o. /\ ~IsFree(k) /\ ~IsPending(k) /\ ~IsNext(k) /\ ~IsOpen(k) /\ ~IsClosed(k) /\ k \in allocated
      /\ operation[k] # None /\ None \notin Items
  BY <1>0, <1>k, Constants DEF OwnerInv, OwnerOK, IsProduced
<1>1. /\ producer.at = "push" /\ k = producer.item
      /\ producer'.at = "schedule" /\ producer'.item = None
      /\ pending' \in Seq(Items) /\ IsInjective(pending')
      /\ ToSet(pending') = ToSet(pending) \cup {k}
      /\ producer' \in [at : ProducerPcs, item : Items \cup {None}]
      /\ UNCHANGED <<revision, current, ready, free, allocated, drainers, operation, tiles,
                     error, outcome, phase, slot, needs, terminal, pc, local>>
  <2>1. pending \in Seq(Items) /\ IsInjective(pending) /\ k \notin ToSet(pending)
    BY <1>0, <1>o DEF TypeOK, OwnerInv, IsPending
  <2>2. pending' = Push(pending, k)
    BY <1>k DEF PushPending
  <2>3. /\ pending' \in Seq(Items) /\ IsInjective(pending')
        /\ ToSet(pending') = ToSet(pending) \cup {k}
    BY <2>1, <2>2, PushItem
  <2>. QED
    BY <1>0, <1>k, <2>3
    DEF PushPending, AfterPush, Produce, TypeOK, ProducerPcs, NoProduct, listVars, queueVars,
       itemVars, slotVars
<1>3. TypeOK'
  BY <1>0, <1>1, <1>o DEF TypeOK, Locals, Revisions
<1>4. LocalInv'
  BY <1>0, <1>1, <1>o DEF LocalInv, LocalOK, Held
<1>5. ClaimsAreCounted'
  BY <1>0, <1>1, <1>o, CountFramed DEF CountFrame
<1>6. LockInv'
  BY <1>0, <1>1, <1>o, LockFramed DEF LockFrame, Locks, ProducerLocks
<1>7. SnapshotInv'
  BY <1>0, <1>1, <1>o DEF SnapshotInv, SnapshotOK, Seen, Updating, Held
<1>8. ItemInv'
  <2>1. ItemFrame
    BY <1>0, <1>1, <1>o DEF ItemFrame
  <2>2. ASSUME NEW v \in Workers
        PROVE  /\ pc'[v] \in Registered \ {"leave"} =>
                    local'[v].item \in Items /\ ~drainers[local'[v].item].claimed
               /\ pc'[v] \in {"processor", "tile", "close"} =>
                    /\ operation[local'[v].item] # None
                    /\ current = local'[v].item \/ drainers[local'[v].item].closed
               /\ pc'[v] = "clear" => pc[v] = "clear"
    BY <1>0, <1>1, <1>o DEF LocalInv, ItemInv, WorkerOK, LocalOK, HoldPcs, Held
  <2>. QED
    BY <1>0, <2>1, <2>2, ItemFramed
<1>9. OwnerInv'
  <2>1. ASSUME NEW i \in Items
        PROVE  /\ IsFree(i)' <=> IsFree(i)
               /\ IsPending(i)' <=> IsPending(i) \/ i = k
               /\ IsNext(i)' <=> IsNext(i)
               /\ ~IsProduced(i)' /\ (IsProduced(i) <=> i = k)
               /\ IsOpen(i)' <=> IsOpen(i)
               /\ IsClosed(i)' <=> IsClosed(i)
    BY <1>0, <1>1, <1>o DEF IsFree, IsPending, IsNext, IsProduced, IsOpen, IsClosed
  <2>2. ASSUME NEW i \in Items PROVE OwnerOK(i)'
    BY <1>0, <1>1, <1>o, <2>1 DEF OwnerInv, OwnerOK
  <2>. QED
    BY <1>0, <1>1, <1>o, <2>2 DEF OwnerInv
<1>10. TileInv'
  BY <1>0, <1>1, <1>o, TileFramed DEF TileFrame
<1>11. AttachInv'
  BY <1>0, <1>1, <1>o, AttachFramed DEF AttachFrame
<1>12. OutcomeIsTrue'
  BY <1>0, <1>1, <1>o, OutcomeFramed
<1>13. PhaseInv'
  BY <1>0, <1>1, <1>o DEF PhaseInv, OperationsEnded, Inside
<1>14. CoverInv'
  BY <1>0, <1>1, <1>o, BackedCovers DEF Backed
<1>. QED
  BY <1>3, <1>4, <1>5, <1>6, <1>7, <1>8, <1>9, <1>10, <1>11, <1>12, <1>13, <1>14 DEF Inv

LEMMA ScheduleRecordingKeeps ==
  ASSUME Inv, ScheduleRecording PROVE Inv'
<1>0. /\ TypeOK /\ LocalInv /\ ClaimsAreCounted /\ LockInv /\ SnapshotInv /\ ItemInv
      /\ OwnerInv /\ TileInv /\ AttachInv /\ OutcomeIsTrue /\ PhaseInv /\ CoverInv
  BY DEF Inv
<1>1. /\ producer.at = "schedule" /\ producer'.at = "idle" /\ producer'.item = producer.item
      /\ phase = "running" /\ slot # "released" /\ slot' = "placed"
      /\ needs' = (slot = "placed") /\ (slot = "idle" => Inside = {})
      /\ producer' \in [at : ProducerPcs, item : Items \cup {None}]
      /\ UNCHANGED <<revision, current, ready, pending, free, allocated, drainers, operation,
                     tiles, error, outcome, phase, terminal, pc, local>>
  <2>1. producer.at = "schedule" /\ producer' = NoProduct /\ producer.item = None
    BY <1>0 DEF ScheduleRecording, OwnerInv
  <2>2. phase = "running" /\ slot # "released" /\ (slot = "idle" => Inside = {})
    BY <1>0, <2>1 DEF PhaseInv
  <2>3. producer' \in [at : ProducerPcs, item : Items \cup {None}]
    BY DEF NoProduct, ProducerPcs, ScheduleRecording
  <2>4. slot' = "placed" /\ needs' = (slot = "placed")
    BY <1>0, <2>2 DEF ScheduleRecording, Schedule, TypeOK
  <2>. QED
    BY <2>1, <2>2, <2>3, <2>4, NoLocalFacts
    DEF ScheduleRecording, Schedule, listVars, queueVars, itemVars, slotVars
<1>3. TypeOK'
  BY <1>0, <1>1 DEF TypeOK, Locals, Revisions
<1>4. LocalInv'
  BY <1>0, <1>1 DEF LocalInv, LocalOK, Held
<1>5. ClaimsAreCounted'
  BY <1>0, <1>1, CountFramed DEF CountFrame
<1>6. LockInv'
  BY <1>0, <1>1, LockFramed DEF LockFrame, Locks, ProducerLocks
<1>7. SnapshotInv'
  BY <1>0, <1>1 DEF SnapshotInv, SnapshotOK, Seen, Updating, Held
<1>8. ItemInv'
  <2>1. ItemFrame
    BY <1>0, <1>1 DEF ItemFrame
  <2>2. ASSUME NEW v \in Workers
        PROVE  /\ pc'[v] \in Registered \ {"leave"} =>
                    local'[v].item \in Items /\ ~drainers[local'[v].item].claimed
               /\ pc'[v] \in {"processor", "tile", "close"} =>
                    /\ operation[local'[v].item] # None
                    /\ current = local'[v].item \/ drainers[local'[v].item].closed
               /\ pc'[v] = "clear" => pc[v] = "clear"
    BY <1>0, <1>1 DEF LocalInv, ItemInv, WorkerOK, LocalOK, HoldPcs, Held
  <2>. QED
    BY <1>0, <2>1, <2>2, ItemFramed
<1>9. OwnerInv'
  BY <1>0, <1>1, OwnerFramed DEF OwnerFrame
<1>10. TileInv'
  BY <1>0, <1>1, TileFramed DEF TileFrame
<1>11. AttachInv'
  BY <1>0, <1>1, AttachFramed DEF AttachFrame
<1>12. OutcomeIsTrue'
  BY <1>0, <1>1, OutcomeFramed
<1>13. PhaseInv'
  BY <1>0, <1>1 DEF PhaseInv, OperationsEnded, Inside
<1>14. CoverInv'
  <2>1. CASE slot = "placed"
    BY <1>1, <2>1, BackedCovers DEF Backed
  <2>2. CASE slot = "idle"
    <3>1. Inside' = {} /\ \A v \in Workers : pc'[v] = "out"
      BY <1>1, <2>2 DEF Inside
    <3>. QED
      BY <1>1, <3>1 DEF CoverInv
  <2>. QED
    BY <1>0, <1>1, <2>1, <2>2 DEF TypeOK
<1>. QED
  BY <1>3, <1>4, <1>5, <1>6, <1>7, <1>8, <1>9, <1>10, <1>11, <1>12, <1>13, <1>14 DEF Inv

LEMMA BeginComputeShutdownKeeps ==
  ASSUME Inv, BeginComputeShutdown PROVE Inv'
<1>0. /\ TypeOK /\ LocalInv /\ ClaimsAreCounted /\ LockInv /\ SnapshotInv /\ ItemInv
      /\ OwnerInv /\ TileInv /\ AttachInv /\ OutcomeIsTrue /\ PhaseInv /\ CoverInv
  BY DEF Inv
<1>1. /\ producer.at = "idle" /\ phase = "running" /\ phase' = "compute" /\ OperationsEnded
      /\ slot' = "placed" /\ needs' \in BOOLEAN
      /\ producer' \in [at : ProducerPcs, item : Items \cup {None}]
      /\ UNCHANGED <<revision, current, ready, pending, free, allocated, drainers, operation,
                     tiles, error, outcome, terminal, producer, pc, local>>
  <2>1. phase = "running" /\ slot # "released"
    BY <1>0 DEF BeginComputeShutdown, PhaseInv
  <2>2. slot' = "placed" /\ needs' \in BOOLEAN
    BY <1>0, <2>1 DEF BeginComputeShutdown, Schedule, TypeOK
  <2>3. producer' \in [at : ProducerPcs, item : Items \cup {None}]
    BY <1>0 DEF TypeOK, BeginComputeShutdown
  <2>. QED
    BY <2>1, <2>2, <2>3
    DEF BeginComputeShutdown, Schedule, listVars, queueVars, itemVars, slotVars
<1>3. TypeOK'
  BY <1>0, <1>1 DEF TypeOK, Locals, Revisions
<1>4. LocalInv'
  BY <1>0, <1>1 DEF LocalInv, LocalOK, Held
<1>5. ClaimsAreCounted'
  BY <1>0, <1>1, CountFramed DEF CountFrame
<1>6. LockInv'
  BY <1>0, <1>1, LockFramed DEF LockFrame, Locks, ProducerLocks
<1>7. SnapshotInv'
  BY <1>0, <1>1 DEF SnapshotInv, SnapshotOK, Seen, Updating, Held
<1>8. ItemInv'
  <2>1. ItemFrame
    BY <1>0, <1>1 DEF ItemFrame
  <2>2. ASSUME NEW v \in Workers
        PROVE  /\ pc'[v] \in Registered \ {"leave"} =>
                    local'[v].item \in Items /\ ~drainers[local'[v].item].claimed
               /\ pc'[v] \in {"processor", "tile", "close"} =>
                    /\ operation[local'[v].item] # None
                    /\ current = local'[v].item \/ drainers[local'[v].item].closed
               /\ pc'[v] = "clear" => pc[v] = "clear"
    BY <1>0, <1>1 DEF LocalInv, ItemInv, WorkerOK, LocalOK, HoldPcs, Held
  <2>. QED
    BY <1>0, <2>1, <2>2, ItemFramed
<1>9. OwnerInv'
  BY <1>0, <1>1, OwnerFramed DEF OwnerFrame
<1>10. TileInv'
  BY <1>0, <1>1, TileFramed DEF TileFrame
<1>11. AttachInv'
  BY <1>0, <1>1, AttachFramed DEF AttachFrame
<1>12. OutcomeIsTrue'
  BY <1>0, <1>1, OutcomeFramed
<1>13. PhaseInv'
  BY <1>0, <1>1 DEF PhaseInv, OperationsEnded, Inside
<1>14. CoverInv'
  BY <1>1 DEF CoverInv
<1>. QED
  BY <1>3, <1>4, <1>5, <1>6, <1>7, <1>8, <1>9, <1>10, <1>11, <1>12, <1>13, <1>14 DEF Inv

LEMMA AcquireFillsKeeps ==
  ASSUME Inv, NEW i \in Items, Acquire(i), producer'.at # "idle" PROVE Inv'
<1>0. /\ TypeOK /\ LocalInv /\ ClaimsAreCounted /\ LockInv /\ SnapshotInv /\ ItemInv
      /\ OwnerInv /\ TileInv /\ AttachInv /\ OutcomeIsTrue /\ PhaseInv /\ CoverInv
  BY DEF Inv
<1>a. /\ producer.at = "idle" /\ phase = "running" /\ ready # <<>> /\ ready' = Tail(ready)
      /\ allocated' = allocated \cup {i} /\ producer.item = None
      /\ UNCHANGED <<revision, current, pending, drainers, tiles, error, slot, needs, terminal,
                      phase, pc, local>>
  BY <1>0 DEF Acquire, OwnerInv, slotVars
<1>b. /\ ~IsPending(i) /\ ~IsNext(i) /\ ~IsProduced(i) /\ ~IsOpen(i) /\ ~drainers[i].closed
      /\ Rest(free) \in Seq(Items) /\ IsInjective(Rest(free)) /\ i \notin ToSet(Rest(free))
      /\ \A j \in Items : j # i => (j \in ToSet(Rest(free)) <=> j \in ToSet(free))
      /\ i \in allocated => i \in ToSet(free)
  <2>1. free \in Seq(Items) /\ IsInjective(free)
    BY <1>0 DEF TypeOK, OwnerInv
  <2>2. /\ Rest(free) \in Seq(Items) /\ IsInjective(Rest(free))
        /\ Popped(free) = None <=> free = <<>>
        /\ ToSet(Rest(free)) = ToSet(free) \ {Popped(free)}
        /\ Popped(free) # None => Popped(free) \in ToSet(free)
    BY <2>1, RestFacts
  <2>3. CASE free # <<>>
    <3>1. i = Popped(free) /\ i \in ToSet(free)
      BY <2>2, <2>3 DEF Acquire, Acquirable, Popped
    <3>2. ~IsPending(i) /\ ~IsNext(i) /\ ~IsProduced(i) /\ ~IsOpen(i) /\ ~drainers[i].closed
      BY <1>0, <3>1 DEF OwnerInv, OwnerOK, IsFree, IsClosed
    <3>. QED
      BY <2>2, <3>1, <3>2
  <2>4. CASE free = <<>>
    <3>1. i \notin allocated
      BY <2>4 DEF Acquire, Acquirable
    <3>2. /\ ~IsPending(i) /\ ~IsNext(i) /\ ~IsProduced(i) /\ ~IsOpen(i) /\ ~drainers[i].closed
          /\ i \notin ToSet(free)
      BY <1>0, <3>1 DEF OwnerInv, OwnerOK, IsFree, IsClosed
    <3>3. \A j \in Items : j \in ToSet(Rest(free)) <=> j \in ToSet(free)
      BY <2>2, <2>4, Constants
    <3>. QED
      BY <2>2, <3>1, <3>2, <3>3
  <2>. QED
    BY <2>3, <2>4
<1>r. PICK r \in Recordings :
        /\ r = Head(ready) /\ r \in ToSet(ready) /\ ready' \in Seq(Recordings)
        /\ IsInjective(ready') /\ r \notin ToSet(ready') /\ ToSet(ready') \subseteq ToSet(ready)
  <2>1. ready \in Seq(Recordings) /\ ready # <<>> /\ IsInjective(ready)
    BY <1>0, <1>a DEF TypeOK, AttachInv
  <2>2. /\ Head(ready) \in Recordings /\ Tail(ready) \in Seq(Recordings)
        /\ Head(ready) \in ToSet(ready) /\ ToSet(Tail(ready)) \subseteq ToSet(ready)
        /\ IsInjective(Tail(ready)) /\ Head(ready) \notin ToSet(Tail(ready))
    BY <2>1, TailFacts
  <2>. QED
    BY <1>a, <2>2
<1>1. /\ producer'.at = "check" /\ producer'.item = i /\ operation' = [operation EXCEPT ![i] = r]
      /\ free' = Rest(free) /\ outcome' = outcome
      /\ producer' \in [at : ProducerPcs, item : Items \cup {None}]
      /\ UNCHANGED <<revision, current, pending, drainers, tiles, error, outcome, phase, slot,
                     needs, terminal, pc, local>>
  <2>1. free' = Rest(free) /\ operation' = [operation EXCEPT ![i] = r] /\ UNCHANGED outcome
        /\ producer' = [at |-> "check", item |-> i]
    BY <1>a, <1>r DEF Acquire, Produce, NoProduct
  <2>2. producer' \in [at : ProducerPcs, item : Items \cup {None}]
    BY <2>1 DEF ProducerPcs
  <2>. QED
    BY <1>a, <2>1, <2>2
<1>x. /\ operation' \in [Items -> Recordings \cup {None}] /\ operation'[i] = r
      /\ \A j \in Items : j # i => operation'[j] = operation[j]
      /\ \A v \in Workers : pc[v] \in {"processor", "tile", "close"} => local[v].item # i
  <2>1. /\ operation' \in [Items -> Recordings \cup {None}] /\ operation'[i] = r
        /\ \A j \in Items : j # i => operation'[j] = operation[j]
    BY <1>0, <1>1 DEF TypeOK
  <2>2. \A v \in Workers : pc[v] \in {"processor", "tile", "close"} => local[v].item # i
    BY <1>0, <1>b DEF ItemInv, WorkerOK, IsOpen, Held
  <2>. QED
    BY <2>1, <2>2
<1>3. TypeOK'
  BY <1>0, <1>1, <1>a, <1>b, <1>r, <1>x, Constants DEF TypeOK, Locals, Revisions
<1>4. LocalInv'
  BY <1>0, <1>1, <1>a, <1>b, <1>r, <1>x, Constants DEF LocalInv, LocalOK, Held
<1>5. ClaimsAreCounted'
  BY <1>0, <1>1, <1>a, <1>b, <1>r, <1>x, Constants, CountFramed DEF CountFrame
<1>6. LockInv'
  BY <1>0, <1>1, <1>a, <1>b, <1>r, <1>x, Constants, LockFramed DEF LockFrame, Locks, ProducerLocks
<1>7. SnapshotInv'
  BY <1>0, <1>1, <1>a, <1>b, <1>r, <1>x, Constants
  DEF SnapshotInv, SnapshotOK, Seen, Updating, Held
<1>8. ItemInv'
  <2>1. ASSUME NEW v \in Workers PROVE WorkerOK(v)'
    <3>1. WorkerOK(v) /\ LocalOK(v)
      BY <1>0 DEF ItemInv, LocalInv
    <3>2. pc[v] \in HoldPcs /\ operation[local[v].item] # None => operation'[local[v].item] # None
      BY <1>0, <1>1, <1>a, <1>b, <1>r, <1>x, Constants, <3>1 DEF LocalOK, Held
    <3>. QED
      BY <1>1, <3>1, <3>2 DEF WorkerOK, Held, HoldPcs, Registered
  <2>2. ASSUME NEW j \in Items PROVE ItemOK(j)'
    <3>1. ItemOK(j) /\ (operation[j] # None => operation'[j] # None)
      BY <1>0, <1>1, <1>a, <1>b, <1>r, <1>x, Constants DEF ItemInv
    <3>. QED
      BY <1>1, <3>1 DEF ItemOK, Held
  <2>. QED
    BY <2>1, <2>2 DEF ItemInv
<1>9. OwnerInv'
  <2>1. ASSUME NEW j \in Items
        PROVE  /\ IsFree(j)' <=> IsFree(j) /\ j # i
               /\ IsPending(j)' <=> IsPending(j)
               /\ IsNext(j)' <=> IsNext(j)
               /\ ~IsProduced(j) /\ (IsProduced(j)' <=> j = i)
               /\ IsOpen(j)' <=> IsOpen(j)
               /\ IsClosed(j)' <=> IsClosed(j)
    BY <1>1, <1>a, <1>b, Constants DEF IsFree, IsPending, IsNext, IsProduced, IsOpen, IsClosed
  <2>2. ASSUME NEW j \in Items PROVE OwnerOK(j)'
    <3>1. OwnerOK(j)
      BY <1>0 DEF OwnerInv
    <3>2. CASE j = i
      BY <1>a, <1>b, <1>x, <2>1, <3>2, Constants DEF OwnerOK, IsClosed
    <3>3. CASE j # i
      BY <1>a, <1>x, <2>1, <3>1, <3>3 DEF OwnerOK
    <3>. QED
      BY <3>2, <3>3
  <2>. QED
    BY <1>0, <1>1, <1>a, <1>b, <1>r, <1>x, Constants, <2>2 DEF OwnerInv
<1>10. TileInv'
  <2>1. \A j \in Items : Executing(j)' = Executing(j)
    BY <1>1 DEF Executing, Held
  <2>2. ASSUME NEW v \in Workers, pc'[v] = "close"
        PROVE  (tiles[operation[Held(v)]] = 0 /\ Executing(Held(v)) = {})'
    <3>1. pc[v] = "close" /\ local[v].item \in Items /\ local[v].item # i
      BY <1>0, <1>1, <1>a, <1>b, <1>r, <1>x, Constants, <2>2
      DEF LocalInv, LocalOK, HoldPcs, Registered, Held
    <3>2. Executing(Held(v))' = Executing(Held(v))
      BY <1>1 DEF Executing, Held
    <3>. QED
      BY <1>0, <1>1, <1>a, <1>b, <1>r, <1>x, Constants, <3>1, <3>2 DEF TileInv, Held
  <2>3. ASSUME NEW j \in Items, drainers'[j].closed, operation'[j] # None
        PROVE  tiles'[operation'[j]] = 0 /\ Executing(j)' = {}
    BY <1>0, <1>1, <1>a, <1>b, <1>r, <1>x, Constants, <2>1, <2>3 DEF TileInv
  <2>. QED
    BY <2>2, <2>3 DEF TileInv
<1>11. AttachInv'
  <2>1. /\ \A j \in Items : operation[j] # r
        /\ \A v \in Workers : Carries(v) => local[v].next # r
        /\ outcome[r] = None
    BY <1>0, <1>r, Constants DEF AttachInv
  <2>2. IsInjective(ready') /\ \A x \in ToSet(ready') : outcome'[x] = None
    BY <1>0, <1>1, <1>r DEF AttachInv
  <2>3. ASSUME NEW j \in Items, operation'[j] # None
        PROVE  /\ outcome'[operation'[j]] = None /\ operation'[j] \notin ToSet(ready')
               /\ \A h \in Items : operation'[h] = operation'[j] => h = j
    BY <1>0, <1>1, <1>r, <1>x, <2>1, <2>3 DEF AttachInv
  <2>4. ASSUME NEW v \in Workers, Carries(v)'
        PROVE  /\ outcome'[local'[v].next] = None /\ local'[v].next \notin ToSet(ready')
               /\ tiles'[local'[v].next] = 0
               /\ \A j \in Items : operation'[j] # local'[v].next
               /\ \A u \in Workers : Carries(u)' /\ local'[u].next = local'[v].next => u = v
    <3>1. \A u \in Workers : Carries(u)' <=> Carries(u)
      BY <1>1 DEF Carries
    <3>. QED
      BY <1>0, <1>1, <1>r, <1>x, <2>1, <2>4, <3>1 DEF AttachInv
  <2>. QED
    BY <2>2, <2>3, <2>4 DEF AttachInv
<1>12. OutcomeIsTrue'
  BY <1>0, <1>1, <1>a, <1>b, <1>r, <1>x, Constants, OutcomeFramed
<1>13. PhaseInv'
  BY <1>0, <1>1, <1>a, <1>b, <1>r, <1>x, Constants DEF PhaseInv, OperationsEnded, Inside
<1>14. CoverInv'
  BY <1>0, <1>1, <1>a, <1>b, <1>r, <1>x, Constants, BackedCovers DEF Backed
<1>. QED
  BY <1>3, <1>4, <1>5, <1>6, <1>7, <1>8, <1>9, <1>10, <1>11, <1>12, <1>13, <1>14 DEF Inv

LEMMA AcquireRejectsKeeps ==
  ASSUME Inv, NEW i \in Items, Acquire(i), producer'.at = "idle" PROVE Inv'
<1>0. /\ TypeOK /\ LocalInv /\ ClaimsAreCounted /\ LockInv /\ SnapshotInv /\ ItemInv
      /\ OwnerInv /\ TileInv /\ AttachInv /\ OutcomeIsTrue /\ PhaseInv /\ CoverInv
  BY DEF Inv
<1>a. /\ producer.at = "idle" /\ phase = "running" /\ ready # <<>> /\ ready' = Tail(ready)
      /\ allocated' = allocated \cup {i} /\ producer.item = None
      /\ UNCHANGED <<revision, current, pending, drainers, tiles, error, slot, needs, terminal,
                      phase, pc, local>>
  BY <1>0 DEF Acquire, OwnerInv, slotVars
<1>b. /\ ~IsPending(i) /\ ~IsNext(i) /\ ~IsProduced(i) /\ ~IsOpen(i) /\ ~drainers[i].closed
      /\ Rest(free) \in Seq(Items) /\ IsInjective(Rest(free)) /\ i \notin ToSet(Rest(free))
      /\ \A j \in Items : j # i => (j \in ToSet(Rest(free)) <=> j \in ToSet(free))
      /\ i \in allocated => i \in ToSet(free)
  <2>1. free \in Seq(Items) /\ IsInjective(free)
    BY <1>0 DEF TypeOK, OwnerInv
  <2>2. /\ Rest(free) \in Seq(Items) /\ IsInjective(Rest(free))
        /\ Popped(free) = None <=> free = <<>>
        /\ ToSet(Rest(free)) = ToSet(free) \ {Popped(free)}
        /\ Popped(free) # None => Popped(free) \in ToSet(free)
    BY <2>1, RestFacts
  <2>3. CASE free # <<>>
    <3>1. i = Popped(free) /\ i \in ToSet(free)
      BY <2>2, <2>3 DEF Acquire, Acquirable, Popped
    <3>2. ~IsPending(i) /\ ~IsNext(i) /\ ~IsProduced(i) /\ ~IsOpen(i) /\ ~drainers[i].closed
      BY <1>0, <3>1 DEF OwnerInv, OwnerOK, IsFree, IsClosed
    <3>. QED
      BY <2>2, <3>1, <3>2
  <2>4. CASE free = <<>>
    <3>1. i \notin allocated
      BY <2>4 DEF Acquire, Acquirable
    <3>2. /\ ~IsPending(i) /\ ~IsNext(i) /\ ~IsProduced(i) /\ ~IsOpen(i) /\ ~drainers[i].closed
          /\ i \notin ToSet(free)
      BY <1>0, <3>1 DEF OwnerInv, OwnerOK, IsFree, IsClosed
    <3>3. \A j \in Items : j \in ToSet(Rest(free)) <=> j \in ToSet(free)
      BY <2>2, <2>4, Constants
    <3>. QED
      BY <2>2, <3>1, <3>2, <3>3
  <2>. QED
    BY <2>3, <2>4
<1>r. PICK r \in Recordings :
        /\ r = Head(ready) /\ r \in ToSet(ready) /\ ready' \in Seq(Recordings)
        /\ IsInjective(ready') /\ r \notin ToSet(ready') /\ ToSet(ready') \subseteq ToSet(ready)
  <2>1. ready \in Seq(Recordings) /\ ready # <<>> /\ IsInjective(ready)
    BY <1>0, <1>a DEF TypeOK, AttachInv
  <2>2. /\ Head(ready) \in Recordings /\ Tail(ready) \in Seq(Recordings)
        /\ Head(ready) \in ToSet(ready) /\ ToSet(Tail(ready)) \subseteq ToSet(ready)
        /\ IsInjective(Tail(ready)) /\ Head(ready) \notin ToSet(Tail(ready))
    BY <2>1, TailFacts
  <2>. QED
    BY <1>a, <2>2
<1>1. /\ producer' = producer /\ operation' = operation /\ outcome' = [outcome EXCEPT ![r] = "rejected"]
      /\ free' = Push(Rest(free), i)
      /\ producer' \in [at : ProducerPcs, item : Items \cup {None}]
      /\ UNCHANGED <<revision, current, pending, drainers, operation, tiles, error, phase, slot,
                     needs, terminal, producer, pc, local>>
  <2>1. /\ free' = Push(Rest(free), i) /\ outcome' = [outcome EXCEPT ![r] = "rejected"]
        /\ UNCHANGED <<operation, producer>>
    BY <1>a, <1>r DEF Acquire, Produce, NoProduct
  <2>. QED
    BY <1>0, <1>a, <2>1 DEF TypeOK
<1>x. /\ outcome' \in [Recordings -> Outcomes \cup {None}] /\ outcome'[r] = "rejected"
      /\ \A x \in Recordings : x # r => outcome'[x] = outcome[x]
      /\ free' \in Seq(Items) /\ IsInjective(free') /\ ToSet(free') = ToSet(Rest(free)) \cup {i}
  <2>1. /\ outcome' \in [Recordings -> Outcomes \cup {None}] /\ outcome'[r] = "rejected"
        /\ \A x \in Recordings : x # r => outcome'[x] = outcome[x]
    BY <1>0, <1>1 DEF TypeOK, Outcomes
  <2>2. free' \in Seq(Items) /\ IsInjective(free') /\ ToSet(free') = ToSet(Rest(free)) \cup {i}
    BY <1>1, <1>b, PushItem
  <2>. QED
    BY <2>1, <2>2
<1>3. TypeOK'
  BY <1>0, <1>1, <1>a, <1>b, <1>r, <1>x, Constants DEF TypeOK, Locals, Revisions
<1>4. LocalInv'
  BY <1>0, <1>1, <1>a, <1>b, <1>r, <1>x, Constants DEF LocalInv, LocalOK, Held
<1>5. ClaimsAreCounted'
  BY <1>0, <1>1, <1>a, <1>b, <1>r, <1>x, Constants, CountFramed DEF CountFrame
<1>6. LockInv'
  BY <1>0, <1>1, <1>a, <1>b, <1>r, <1>x, Constants, LockFramed DEF LockFrame, Locks, ProducerLocks
<1>7. SnapshotInv'
  BY <1>0, <1>1, <1>a, <1>b, <1>r, <1>x, Constants
  DEF SnapshotInv, SnapshotOK, Seen, Updating, Held
<1>8. ItemInv'
  <2>1. ItemFrame
    BY <1>0, <1>1, <1>a, <1>b, <1>r, <1>x, Constants DEF ItemFrame
  <2>2. ASSUME NEW v \in Workers
        PROVE  /\ pc'[v] \in Registered \ {"leave"} =>
                    local'[v].item \in Items /\ ~drainers[local'[v].item].claimed
               /\ pc'[v] \in {"processor", "tile", "close"} =>
                    /\ operation[local'[v].item] # None
                    /\ current = local'[v].item \/ drainers[local'[v].item].closed
               /\ pc'[v] = "clear" => pc[v] = "clear"
    BY <1>0, <1>1, <1>a, <1>b, <1>r, <1>x, Constants
    DEF LocalInv, ItemInv, WorkerOK, LocalOK, HoldPcs, Held
  <2>. QED
    BY <1>0, <2>1, <2>2, ItemFramed
<1>9. OwnerInv'
  <2>1. ASSUME NEW j \in Items
        PROVE  /\ IsFree(j)' <=> IsFree(j) \/ j = i
               /\ IsPending(j)' <=> IsPending(j)
               /\ IsNext(j)' <=> IsNext(j)
               /\ IsProduced(j)' <=> IsProduced(j)
               /\ IsOpen(j)' <=> IsOpen(j)
               /\ IsClosed(j)' <=> IsClosed(j)
    BY <1>1, <1>b, <1>x DEF IsFree, IsPending, IsNext, IsProduced, IsOpen, IsClosed
  <2>2. ASSUME NEW j \in Items PROVE OwnerOK(j)'
    <3>1. OwnerOK(j)
      BY <1>0 DEF OwnerInv
    <3>2. CASE j = i
      BY <1>1, <1>a, <1>b, <2>1, <3>2 DEF OwnerOK, IsClosed
    <3>3. CASE j # i
      BY <1>1, <1>a, <2>1, <3>1, <3>3 DEF OwnerOK
    <3>. QED
      BY <3>2, <3>3
  <2>. QED
    BY <1>0, <1>1, <1>a, <1>b, <1>r, <1>x, Constants, <2>2 DEF OwnerInv
<1>10. TileInv'
  BY <1>0, <1>1, <1>a, <1>b, <1>r, <1>x, Constants, TileFramed DEF TileFrame
<1>11. AttachInv'
  <2>1. /\ \A j \in Items : operation[j] # r
        /\ \A v \in Workers : Carries(v) => local[v].next # r
    BY <1>0, <1>r, Constants DEF AttachInv
  <2>2. IsInjective(ready') /\ \A x \in ToSet(ready') : outcome'[x] = None
    <3>1. \A x \in ToSet(ready') : x \in Recordings /\ x # r
      BY <1>r DEF ToSet
    <3>. QED
      BY <1>0, <1>1, <1>r, <1>x, <3>1 DEF AttachInv
  <2>3. ASSUME NEW j \in Items, operation'[j] # None
        PROVE  /\ outcome'[operation'[j]] = None /\ operation'[j] \notin ToSet(ready')
               /\ \A h \in Items : operation'[h] = operation'[j] => h = j
    <3>1. operation'[j] = operation[j] /\ operation[j] \in Recordings
      BY <1>0, <1>1, <2>3 DEF TypeOK
    <3>. QED
      BY <1>0, <1>1, <1>r, <1>x, <2>1, <2>3, <3>1 DEF AttachInv
  <2>4. ASSUME NEW v \in Workers, Carries(v)'
        PROVE  /\ outcome'[local'[v].next] = None /\ local'[v].next \notin ToSet(ready')
               /\ tiles'[local'[v].next] = 0
               /\ \A j \in Items : operation'[j] # local'[v].next
               /\ \A u \in Workers : Carries(u)' /\ local'[u].next = local'[v].next => u = v
    <3>1. \A u \in Workers : Carries(u)' <=> Carries(u)
      BY <1>1 DEF Carries
    <3>2. local[v].next \in Recordings
      BY <1>0, <2>4, <3>1 DEF LocalInv, LocalOK, Carries
    <3>. QED
      BY <1>0, <1>1, <1>r, <1>x, <2>1, <2>4, <3>1, <3>2 DEF AttachInv
  <2>. QED
    BY <2>2, <2>3, <2>4 DEF AttachInv
<1>12. OutcomeIsTrue'
  BY <1>0, <1>1, <1>x DEF OutcomeIsTrue
<1>13. PhaseInv'
  BY <1>0, <1>1, <1>a DEF PhaseInv, Inside
<1>14. CoverInv'
  BY <1>0, <1>1 DEF CoverInv, Outstanding, Backed, Works, Fresh, Inside, Seen, Updating
<1>. QED
  BY <1>3, <1>4, <1>5, <1>6, <1>7, <1>8, <1>9, <1>10, <1>11, <1>12, <1>13, <1>14 DEF Inv


----------------------------------------------------------------------------
(* The invariant holds.                                                    *)

LEMMA InitInv == Init => Inv
<1>. SUFFICES ASSUME Init PROVE Inv
  OBVIOUS
<1>0. /\ revision = Even /\ current = None /\ pending = <<>> /\ free = Pooled
      /\ ready = Ready /\ allocated = ToSet(Pooled)
      /\ tiles = Tiles /\ error = {} /\ phase = "running" /\ slot = "idle"
      /\ needs = FALSE /\ terminal = FALSE
      /\ producer.at = "idle" /\ producer.item = None
      /\ producer \in [at : ProducerPcs, item : Items \cup {None}]
      /\ Even \in Revisions /\ Even.updating = FALSE /\ Even.seen = {}
  BY NoLocalFacts, EvenOdd DEF Init, NoProduct, ProducerPcs
<1>1. /\ pc \in [Workers -> Pcs] /\ local \in [Workers -> Locals]
      /\ \A w \in Workers : /\ pc[w] = "out" /\ local[w].item = None /\ local[w].next = None
                            /\ local[w].result = "none"
  BY Constants, NoLocalFacts DEF Init, Pcs
<1>2. /\ drainers \in [Items -> Tag]
      /\ \A i \in Items : /\ drainers[i].count = 0 /\ ~drainers[i].closed
                          /\ ~drainers[i].claimed
  BY DEF Init, Tag, NewTag
<1>3. /\ operation \in [Items -> Recordings \cup {None}] /\ \A i \in Items : operation[i] = None
      /\ outcome \in [Recordings -> Outcomes \cup {None}]
      /\ \A r \in Recordings : outcome[r] = None
  BY DEF Init
<1>4. /\ Pooled \in Seq(Items) /\ IsInjective(Pooled) /\ Ready \in Seq(Recordings)
      /\ IsInjective(Ready) /\ Tiles \in [Recordings -> Nat] /\ None \notin Items
      /\ None \notin Outcomes
  BY ComputeAssumption
<1>5. ToSet(Pooled) \subseteq Items /\ ToSet(Ready) \subseteq Recordings
  BY <1>4 DEF ToSet
<1>6. pending \in Seq(Items) /\ ToSet(pending) = {} /\ IsInjective(pending)
  <2>1. pending \in Seq(Items) /\ DOMAIN pending = {}
    BY <1>0
  <2>. QED
    BY <2>1 DEF ToSet, IsInjective
<1>7. TypeOK
  BY <1>0, <1>1, <1>2, <1>3, <1>4, <1>5, <1>6 DEF TypeOK, Locals, Revisions
<1>8. LocalInv
  BY <1>1 DEF LocalInv, LocalOK, HoldPcs, Registered
<1>9. ClaimsAreCounted
  <2>1. ASSUME NEW i \in Items PROVE ClaimsOn(i) = {}
    BY <1>1 DEF ClaimsOn, Registered
  <2>2. Cardinality({}) = 0
    BY FS_EmptySet
  <2>3. ASSUME NEW i \in Items PROVE drainers[i].count = Cardinality(ClaimsOn(i))
    BY <1>2, <2>1, <2>2
  <2>. QED
    BY <2>1, <2>3 DEF ClaimsAreCounted
<1>10. LockInv
  BY <1>0, <1>1 DEF LockInv, Locks, ProducerLocks, Updating
<1>11. SnapshotInv
  BY <1>0 DEF SnapshotInv, SnapshotOK, Seen
<1>12. ItemInv
  BY <1>0, <1>1, <1>2, <1>4 DEF ItemInv, WorkerOK, ItemOK, Registered, Closers, Releasers
<1>13. OwnerInv
  <2>1. ASSUME NEW i \in Items PROVE OwnerOK(i)
    BY <1>0, <1>1, <1>2, <1>4, <1>6
       DEF OwnerOK, IsFree, IsPending, IsNext, IsProduced, IsOpen, IsClosed
  <2>. QED
    BY <1>0, <1>4, <1>6, <2>1 DEF OwnerInv
<1>14. TileInv
  BY <1>1, <1>2 DEF TileInv
<1>15. AttachInv
  BY <1>0, <1>1, <1>3, <1>4, <1>5 DEF AttachInv, Carries
<1>16. OutcomeIsTrue
  BY <1>3, <1>4 DEF OutcomeIsTrue, Outcomes
<1>17. PhaseInv
  BY <1>0, <1>1 DEF PhaseInv, Inside
<1>18. CoverInv
  BY <1>0 DEF CoverInv, Outstanding
<1>. QED
  BY <1>7, <1>8, <1>9, <1>10, <1>11, <1>12, <1>13, <1>14, <1>15, <1>16, <1>17, <1>18 DEF Inv

LEMMA StutterKeeps ==
  ASSUME Inv, UNCHANGED vars PROVE Inv'
<1>1. UNCHANGED <<revision, current, ready, pending, free, allocated, drainers, operation, tiles,
                  error, outcome, phase, slot, needs, terminal, producer, pc, local>>
  BY DEF vars, queueVars, listVars, itemVars, slotVars
<1>2. TypeOK' /\ OutcomeIsTrue' /\ LocalInv' /\ LockInv' /\ SnapshotInv'
  BY <1>1 DEF Inv, TypeOK, OutcomeIsTrue, LocalInv, LocalOK, Held, LockInv, Locks,
              ProducerLocks, Updating, SnapshotInv, SnapshotOK, Seen
<1>3. ClaimsAreCounted'
  BY <1>1, CountFramed DEF Inv, CountFrame
<1>4. ItemInv'
  BY <1>1 DEF Inv, ItemInv, WorkerOK, ItemOK, Held
<1>5. OwnerInv'
  BY <1>1, OwnerFramed DEF Inv, OwnerFrame
<1>6. TileInv' /\ AttachInv'
  BY <1>1, TileFramed, AttachFramed DEF Inv, TileFrame, AttachFrame
<1>7. PhaseInv' /\ CoverInv'
  BY <1>1 DEF Inv, PhaseInv, OperationsEnded, Inside, CoverInv, Outstanding, Backed, Works,
              Fresh, Seen, Updating
<1>. QED
  BY <1>2, <1>3, <1>4, <1>5, <1>6, <1>7 DEF Inv

LEMMA NextKeeps ==
  ASSUME Inv, Next PROVE Inv'
<1>1. ASSUME NEW w \in Workers, Enter(w) \/ LoadCurrent(w) \/ Claiming(w) PROVE Inv'
  BY <1>1, EnterKeeps, LoadCurrentKeeps, ReadGenerationKeeps, RegisterKeeps, RecheckKeeps,
     ProcessorDrainKeeps, FinishTileKeeps, CloseKeeps
     DEF Claiming
<1>2. ASSUME NEW w \in Workers, Publishing(w) PROVE Inv'
  BY <1>2, PopNextKeeps, BeginUpdateKeeps, StoreNextKeeps, EndUpdateKeeps, ScheduleNextKeeps
     DEF Publishing
<1>3. ASSUME NEW w \in Workers, Releasing(w) PROVE Inv'
  BY <1>3, LeaveKeeps, ClaimKeeps, ClearItemKeeps, ResetItemKeeps, FinishOperationKeeps
     DEF Releasing
<1>4. ASSUME NEW w \in Workers, Promoting(w) PROVE Inv'
  BY <1>4, TryBeginKeeps, TryBeginCasKeeps, PromotePendingKeeps, PromoteEndKeeps,
     PromoteScheduleKeeps
     DEF Promoting
<1>5. ASSUME NEW w \in Workers, Return(w) \/ ProcessRelease(w) PROVE Inv'
  BY <1>5, ReturnKeeps, ProcessReleaseKeeps
<1>6. ASSUME ProducerStep PROVE Inv'
  <2>1. ASSUME NEW i \in Items, Acquire(i) PROVE Inv'
    BY <2>1, AcquireFillsKeeps, AcquireRejectsKeeps
  <2>. QED
    BY <1>6, <2>1, CheckEmptyKeeps, TryPublishKeeps, TryPublishCasKeeps, PublishDirectKeeps,
       LeaveWakeObligationKeeps, EndPublishKeeps, PushPendingKeeps, ScheduleRecordingKeeps
       DEF ProducerStep
<1>. QED
  BY <1>1, <1>2, <1>3, <1>4, <1>5, <1>6, BeginComputeShutdownKeeps DEF Next, DrainStep

\* The inductive invariant holds in every state of the compute process, whatever
\* the interleaving of the workers and the control process.
THEOREM Invariance == Spec => []Inv
<1>1. Inv /\ [Next]_vars => Inv'
  BY NextKeeps, StutterKeeps
<1>. QED
  BY InitInv, <1>1, PTL DEF Spec

----------------------------------------------------------------------------
(* The properties.                                                         *)

LEMMA InvOneOwner ==
  ASSUME Inv PROVE OneOwner
<1>0. TypeOK /\ ItemInv /\ OwnerInv /\ LocalInv
  BY DEF Inv
<1>. SUFFICES ASSUME NEW i \in Items PROVE Owners(i) = IF i \in allocated THEN 1 ELSE 0
  BY DEF OneOwner
<1>1. OwnerOK(i)
  BY <1>0 DEF OwnerInv
<1>2. Cardinality({k \in 1 .. Len(free) : free[k] = i}) = IF IsFree(i) THEN 1 ELSE 0
  BY <1>0, IndexCount DEF TypeOK, OwnerInv, IsFree
<1>3. Cardinality({k \in 1 .. Len(pending) : pending[k] = i}) = IF IsPending(i) THEN 1 ELSE 0
  BY <1>0, IndexCount DEF TypeOK, OwnerInv, IsPending
<1>4. Cardinality({w \in Workers : local[w].next = i /\ pc[w] \in {"begin", "store"}})
        = IF IsNext(i) THEN 1 ELSE 0
  <2>1. CASE IsNext(i)
    <3>1. PICK w \in Workers : local[w].next = i /\ pc[w] \in {"begin", "store"}
      BY <2>1 DEF IsNext
    <3>2. {v \in Workers : local[v].next = i /\ pc[v] \in {"begin", "store"}} = {w}
      BY <1>0, <3>1 DEF ItemInv, WorkerOK, Closers
    <3>. QED
      BY <2>1, <3>2, FS_Singleton
  <2>2. CASE ~IsNext(i)
    <3>1. {v \in Workers : local[v].next = i /\ pc[v] \in {"begin", "store"}} = {}
      BY <2>2 DEF IsNext
    <3>. QED
      BY <2>2, <3>1, FS_EmptySet
  <2>. QED
    BY <2>1, <2>2
<1>5. Owners(i) = (IF IsFree(i) THEN 1 ELSE 0) + (IF IsPending(i) THEN 1 ELSE 0)
                  + (IF IsNext(i) THEN 1 ELSE 0) + (IF IsProduced(i) THEN 1 ELSE 0)
                  + (IF IsOpen(i) THEN 1 ELSE 0) + (IF IsClosed(i) THEN 1 ELSE 0)
  BY <1>2, <1>3, <1>4 DEF Owners, IsProduced, IsOpen, IsClosed
<1>6. IsOpen(i) => ~IsClosed(i)
  BY DEF IsOpen, IsClosed
<1>7. CASE i \in allocated
  BY <1>1, <1>5, <1>6, <1>7 DEF OwnerOK
<1>8. CASE i \notin allocated
  BY <1>1, <1>5, <1>6, <1>8 DEF OwnerOK
<1>. QED
  BY <1>7, <1>8

\* The items of the pool are reused safely: the drainers word counts exactly the
\* workers with a claim, with the item's generation; a worker in the block
\* processor has an item that carries its recording and that nobody releases,
\* pools or queues; and every allocated item has exactly one owner.
THEOREM ItemsStayOwned == Spec => []ItemsAreOwned
<1>1. ASSUME Inv PROVE ItemsAreOwned
  <2>0. TypeOK /\ ClaimsAreCounted /\ ItemInv /\ OwnerInv /\ LocalInv
    BY <1>1 DEF Inv
  <2>1. DrainsPublishedItem
    <3>. SUFFICES ASSUME NEW w \in Workers, pc[w] \in {"processor", "tile", "close"}
         PROVE  /\ operation[Held(w)] # None /\ ~drainers[Held(w)].claimed
                /\ Held(w) \notin ToSet(free) \cup ToSet(pending)
      BY DEF DrainsPublishedItem
    <3>1. /\ operation[Held(w)] # None /\ ~drainers[Held(w)].claimed /\ Held(w) \in Items
          /\ current = Held(w) \/ drainers[Held(w)].closed
      BY <2>0 DEF ItemInv, WorkerOK, LocalInv, LocalOK, HoldPcs, Registered
    <3>2. OwnerOK(Held(w)) /\ (IsOpen(Held(w)) \/ IsClosed(Held(w)))
      BY <2>0, <3>1 DEF OwnerInv, IsOpen, IsClosed
    <3>. QED
      BY <3>1, <3>2 DEF OwnerOK, IsFree, IsPending
  <2>. QED
    BY <1>1, <2>0, <2>1, InvOneOwner DEF ItemsAreOwned
<1>. QED
  BY <1>1, Invariance, PTL

\* When the compute process is IDLE, no worker is inside and the control process
\* is not publishing, nothing is published or pending; and the process is
\* released with no operation attached, pending or published.
THEOREM NoneStranded == Spec => []NoRecordingIsStranded
<1>1. ASSUME Inv PROVE NoRecordingIsStranded
  <2>0. /\ TypeOK /\ ItemInv /\ OwnerInv /\ AttachInv /\ PhaseInv /\ CoverInv
    BY <1>1 DEF Inv
  <2>1. ASSUME phase # "running" PROVE NoRecordingIsStranded
    <3>1. current = None /\ pending = <<>> /\ Attached = {}
      BY <2>0, <2>1, Settled
    <3>. QED
      BY <3>1 DEF NoRecordingIsStranded
  <2>2. ASSUME phase = "running" PROVE NoRecordingIsStranded
    <3>1. slot # "released"
      BY <2>0, <2>2 DEF PhaseInv
    <3>2. ASSUME slot = "idle", Inside = {}, producer.at = "idle"
          PROVE  current = None /\ pending = <<>>
      <4>1. \A w \in Workers : pc[w] = "out"
        BY <3>2 DEF Inside
      <4>2. ~Backed /\ \A w \in Workers : ~Fresh(w)
        BY <3>2, <4>1 DEF Backed, Works, Fresh
      <4>. QED
        BY <2>0, <2>2, <3>2, <4>2 DEF CoverInv, Outstanding
    <3>. QED
      BY <3>1, <3>2 DEF NoRecordingIsStranded
  <2>. QED
    BY <2>1, <2>2
<1>. QED
  BY <1>1, Invariance, PTL

\* A recording is reported complete only when all its tiles were claimed and
\* none failed, and failed only when one did, whichever worker releases its item.
THEOREM TrueOutcomes == Spec => []OutcomeIsTrue
<1>1. Inv => OutcomeIsTrue
  BY DEF Inv
<1>. QED
  BY <1>1, Invariance, PTL

=============================================================================
