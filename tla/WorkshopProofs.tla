--------------------------- MODULE WorkshopProofs ---------------------------
(***************************************************************************)
(* Proofs about Workshop, for any number of clients, units, workers and    *)
(* retries.                                                                *)
(***************************************************************************)
EXTENDS Workshop, FiniteSetTheorems, TLAPS

(***************************************************************************)
(* Type correctness.  TypeOK alone is not inductive: enqueue puts what a   *)
(* worker holds back into the queue, so a worker that holds work must hold *)
(* a unit.                                                                 *)
(***************************************************************************)
HoldsUnit == \A w \in Threads : Holding(w) => work[w] \in Units

TypeInv == TypeOK /\ HoldsUnit

\* A notification never adds a sleeper.
LEMMA NotifyOneType ==
    ASSUME NEW S, NEW T \in NotifyOne(S)
    PROVE  T \subseteq S
BY DEF NotifyOne

\* enqueue leaves a queue that is not empty.
LEMMA AppendNotEmpty ==
    ASSUME NEW q \in Seq(Units), NEW u \in Units
    PROVE  Append(q, u) # <<>>
<1>1. Len(Append(q, u)) = Len(q) + 1 /\ Len(q) \in Nat
    OBVIOUS
<1>2. Len(<<>>) = 0
    OBVIOUS
<1>. QED
    BY <1>1, <1>2

\* Growing _workers to m threads keeps it within its bound.
LEMMA EnsureType ==
    ASSUME TypeInv, NEW m \in Int, m <= MaxWorkers, EnsureWorkers(m),
           UNCHANGED work
    PROVE  /\ n' \in 0..MaxWorkers
           /\ pc' \in [Threads -> WorkerPlaces]
           /\ HoldsUnit'
BY WorkshopAssumption
   DEF TypeInv, TypeOK, HoldsUnit, Holding, EnsureWorkers, Started, WorkerPlaces, Threads

\* The constructors start with well-typed state.
LEMMA InitType == Init => TypeInv
<1>. SUFFICES ASSUME Init PROVE TypeInv
    OBVIOUS
<1>1. \A c \in Clients : BatchSize(c) \in Nat
    BY WorkshopAssumption, FS_Subset, FS_CardinalityType DEF BatchSize, Mine
<1>2. queue \in Seq(Units) /\ latch \in [Clients -> Int]
    BY <1>1 DEF Init
<1>3. n \in 0..MaxWorkers /\ next \in 1..(MaxWorkers + 1) /\ retries \in [Units -> 0..MaxRetries]
    BY WorkshopAssumption DEF Init
<1>. QED
    BY <1>2, <1>3
    DEF Init, TypeInv, TypeOK, HoldsUnit, Holding, WorkerPlaces, ClientPlaces,
        OwnerPlaces, Stages

\* Every handler keeps the types, and a worker that holds work holds a unit.
LEMMA StepType == TypeInv /\ [Next]_vars => TypeInv'
<1>. SUFFICES ASSUME TypeInv, [Next]_vars PROVE TypeInv'
    OBVIOUS
<1>. USE WorkshopAssumption DEF TypeInv, TypeOK
<1>1. ASSUME NEW w \in Threads, Worker(w) PROVE TypeInv'
  <2>1. CASE Fetch(w) \/ Resume(w)
    <3>1. CASE Take(w)
        BY <2>1, <3>1, SMTT(30)
        DEF Fetch, Resume, Take, PopFront, HoldsUnit, Holding, WorkerPlaces,
            clientVars, ownerVars
    <3>2. CASE Leave(w)
        BY <2>1, <3>2
        DEF Fetch, Resume, Leave, HoldsUnit, Holding, WorkerPlaces, clientVars, ownerVars
    <3>3. CASE Sleep(w)
        BY <2>1, <3>3
        DEF Fetch, Resume, Sleep, HoldsUnit, Holding, WorkerPlaces, clientVars, ownerVars
    <3>. QED
        BY <2>1, <3>1, <3>2, <3>3 DEF Fetch, Resume
  <2>2. CASE DoIt(w)
    <3>1. retries' \in [Units -> 0..MaxRetries]
      <4>1. work[w] \in Units /\ retries[work[w]] \in 0..MaxRetries
        BY <2>2 DEF DoIt, HoldsUnit, Holding
      <4>2. CASE UNCHANGED retries
        BY <4>2
      <4>3. CASE /\ retries[work[w]] < MaxRetries
                 /\ retries' = [retries EXCEPT ![work[w]] = @ + 1]
        BY <4>1, <4>3
      <4>. QED
        BY <2>2, <4>2, <4>3 DEF DoIt
    <3>. QED
        BY <2>2, <3>1
        DEF DoIt, HoldsUnit, Holding, WorkerPlaces, sharedVars, clientVars, ownerVars
  <2>3. CASE Deliver(w)
    <3>1. work[w] \in Units /\ Batch[work[w]] \in Clients
        BY <2>3 DEF Deliver, HoldsUnit, Holding
    <3>2. /\ status' \in [Units -> Stages]
          /\ latch' \in [Clients -> Int]
        BY <2>3, <3>1 DEF Deliver, Stages
    <3>. QED
        BY <2>3, <3>1, <3>2
        DEF Deliver, NotifyAll, AfterWork, HoldsUnit, Holding, WorkerPlaces, ownerVars
  <2>4. CASE Requeue(w)
    <3>1. work[w] \in Units
        BY <2>4 DEF Requeue, HoldsUnit, Holding
    <3>2. asleep' \subseteq asleep
        BY <2>4, NotifyOneType DEF Requeue, Push
    <3>. QED
        BY <2>4, <3>1, <3>2
        DEF Requeue, Push, AfterWork, HoldsUnit, Holding, WorkerPlaces, clientVars, ownerVars
  <2>. QED
    BY <1>1, <2>1, <2>2, <2>3, <2>4 DEF Worker
<1>2. ASSUME NEW c \in Clients, Client(c) PROVE TypeInv'
  <2>1. CASE Enqueue(c)
    <3>1. PICK u \in Mine(c) : /\ status' = [status EXCEPT ![u] = "pending"]
                               /\ Push(u)
        BY <2>1 DEF Enqueue
    <3>2. u \in Units
        BY DEF Mine
    <3>3. asleep' \subseteq asleep
        BY <3>1, NotifyOneType DEF Push
    <3>4. EnsuredWorkers \in Int
        BY DEF EnsuredWorkers
    <3>5. /\ n' \in 0..MaxWorkers
          /\ pc' \in [Threads -> WorkerPlaces]
          /\ HoldsUnit'
        BY <2>1, <3>4, EnsureType DEF Enqueue
    <3>6. queue' \in Seq(Units) /\ status' \in [Units -> Stages]
        BY <3>1, <3>2 DEF Push, Stages
    <3>7. UNCHANGED <<shutdown, work, last, cpc, latch, retries, ownerVars>>
        BY <2>1 DEF Enqueue
    <3>. QED
        BY <3>3, <3>5, <3>6, <3>7 DEF ownerVars
  <2>2. CASE WaitUntilIdle(c)
        BY <2>2
        DEF WaitUntilIdle, HoldsUnit, Holding, ClientPlaces, workerVars, ownerVars
  <2>3. CASE LeaveScope(c)
        BY <2>3
        DEF LeaveScope, HoldsUnit, Holding, ClientPlaces, sharedVars, workerVars, ownerVars
  <2>4. CASE DestroyBatch(c)
        BY <2>4
        DEF DestroyBatch, HoldsUnit, Holding, ClientPlaces, Stages, sharedVars,
            workerVars, ownerVars
  <2>. QED
    BY <1>2, <2>1, <2>2, <2>3, <2>4 DEF Client
<1>3. ASSUME NEW p \in Threads \cup Clients, SpuriousWakeup(p) PROVE TypeInv'
    BY <1>3 DEF SpuriousWakeup, HoldsUnit, Holding, workerVars, clientVars, ownerVars
<1>4. CASE Owner
  <2>1. ASSUME NEW k \in 1..MaxWorkers, AddWorkers(k) PROVE TypeInv'
    <3>1. n + k \in Int /\ n + k <= MaxWorkers /\ EnsureWorkers(n + k) /\ UNCHANGED work
        BY <2>1 DEF AddWorkers, Threads
    <3>2. /\ n' \in 0..MaxWorkers
          /\ pc' \in [Threads -> WorkerPlaces]
          /\ HoldsUnit'
        BY <3>1, EnsureType
    <3>. QED
        BY <2>1, <3>2 DEF AddWorkers, clientVars, ownerVars
  <2>2. CASE Populate
    <3>1. /\ n' \in 0..MaxWorkers
          /\ pc' \in [Threads -> WorkerPlaces]
          /\ HoldsUnit'
        BY <2>2, EnsureType DEF Populate
    <3>. QED
        BY <2>2, <3>1 DEF Populate, clientVars, ownerVars
  <2>3. CASE Shutdown
        BY <2>3
        DEF Shutdown, SetShutdown, NotifyAll, HoldsUnit, Holding, workerVars,
            clientVars, ownerVars
  <2>4. CASE WaitUntilClosed
        BY <2>4
        DEF WaitUntilClosed, OwnerPlaces, HoldsUnit, Holding, sharedVars, workerVars,
            clientVars
  <2>5. CASE DestroyWorkshop
        BY <2>5
        DEF DestroyWorkshop, SetShutdown, NotifyAll, OwnerPlaces, HoldsUnit, Holding,
            workerVars, clientVars
  <2>6. CASE Join
    <3>1. next \in Threads
        BY <2>6 DEF Join, Threads
    <3>2. next' \in 1..(MaxWorkers + 1) /\ joined' \subseteq Threads /\ aborted' \in BOOLEAN
      <4>1. CASE next \in joined
        BY <2>6, <4>1 DEF Join
      <4>2. CASE next \notin joined
        <5>1. next' = next + 1 /\ joined' = joined \cup {next} /\ aborted' = aborted
        BY <2>6, <4>2 DEF Join, NextThread
        <5>2. next' \in 1..(MaxWorkers + 1)
        BY <3>1, <5>1 DEF Threads
        <5>. QED
        BY <3>1, <5>1, <5>2
      <4>. QED
        BY <4>1, <4>2
    <3>. QED
        BY <2>6, <3>2
        DEF Join, HoldsUnit, Holding, sharedVars, workerVars, clientVars
  <2>7. CASE Closed
        BY <2>7 DEF Closed, OwnerPlaces, HoldsUnit, Holding, sharedVars, workerVars, clientVars
  <2>8. CASE ReleaseWorker
    <3>1. CASE n \in joined
      <4>1. /\ n > 0
            /\ n' = n - 1
            /\ joined' = joined \ {n}
            /\ pc' = [pc EXCEPT ![n] = "none"]
            /\ UNCHANGED <<queue, shutdown, asleep, work, last, clientVars, retries,
                           owner, next, explicit, aborted>>
        BY <2>8, <3>1 DEF ReleaseWorker
      <4>2. n' \in 0..MaxWorkers /\ joined' \subseteq Threads
        BY <4>1
      <4>3. pc' \in [Threads -> WorkerPlaces] /\ HoldsUnit'
        BY <4>1 DEF HoldsUnit, Holding, WorkerPlaces
      <4>. QED
        BY <4>1, <4>2, <4>3 DEF clientVars
    <3>2. CASE n \notin joined
        BY <2>8, <3>2 DEF ReleaseWorker, HoldsUnit, Holding, clientVars
    <3>. QED
        BY <3>1, <3>2
  <2>. QED
    BY <1>4, <2>1, <2>2, <2>3, <2>4, <2>5, <2>6, <2>7, <2>8 DEF Owner
<1>5. CASE UNCHANGED vars
    BY <1>5 DEF vars, sharedVars, workerVars, clientVars, ownerVars, HoldsUnit, Holding
<1>. QED
    BY <1>1, <1>2, <1>3, <1>4, <1>5 DEF Next, Ended

\* Every reachable state of the workshop is well typed.
THEOREM TypeCorrect == Spec => []TypeOK
<1>1. Spec => []TypeInv
    BY InitType, StepType, PTL DEF Spec
<1>. QED
    BY <1>1, PTL DEF TypeInv

(***************************************************************************)
(* The life of a unit.  UnitsConserved needs the latches (a batch frees    *)
(* its units when its latch is zero) and that the threads beyond _workers  *)
(* and the joined ones hold nothing.                                       *)
(***************************************************************************)
ThreadPlaces ==
    /\ \A w \in Threads : w > n => pc[w] = "none"
    /\ \A w \in joined : pc[w] = "exit"

UnitsInv ==
    /\ TypeInv
    /\ ThreadPlaces
    /\ UnitsConserved
    /\ LatchCountsUndelivered

Outstanding(c) == {u \in Mine(c) : status[u] \in {"raw", "pending"}}

\* A batch whose latch is zero has nothing left to deliver.
LEMMA ZeroLatch ==
    ASSUME UnitsInv, NEW c \in Clients, latch[c] = 0, cpc[c] # "done"
    PROVE  \A u \in Mine(c) : status[u] = "delivered"
<1>1. IsFiniteSet(Outstanding(c))
    BY WorkshopAssumption, FS_Subset DEF Outstanding, Mine
<1>2. Outstanding(c) = {}
    BY <1>1, FS_EmptySet DEF UnitsInv, LatchCountsUndelivered, Outstanding
<1>. QED
    BY <1>2
    DEF UnitsInv, TypeInv, TypeOK, LatchCountsUndelivered, Outstanding, Mine, Stages

\* A thread that was not started, or was joined and released, holds nothing.
LEMMA StepPlaces == UnitsInv /\ [Next]_vars => ThreadPlaces'
<1>. SUFFICES ASSUME UnitsInv, [Next]_vars PROVE ThreadPlaces'
    OBVIOUS
<1>. USE WorkshopAssumption DEF UnitsInv, TypeInv, ThreadPlaces
<1>1. CASE UNCHANGED <<n, pc, joined>>
    BY <1>1
<1>2. ASSUME NEW m \in Int, EnsureWorkers(m), UNCHANGED joined PROVE ThreadPlaces'
  <2>1. n \in Int /\ joined \subseteq Threads
    BY DEF TypeOK
  <2>2. pc' = [w \in Threads |-> IF n < w /\ w <= m THEN "fetch" ELSE pc[w]]
    BY <1>2 DEF EnsureWorkers, Started
  <2>3. ASSUME NEW w \in Threads, w > n' PROVE pc'[w] = "none"
    BY <1>2, <2>1, <2>2, <2>3 DEF EnsureWorkers, Threads
  <2>4. ASSUME NEW w \in joined PROVE pc'[w] = "exit"
    <3>1. w \in Threads /\ pc[w] = "exit" /\ ~(w > n)
      BY <2>1, <2>4
    <3>. QED
      BY <2>1, <2>2, <3>1 DEF Threads
  <2>. QED
    BY <1>2, <2>3, <2>4
<1>3. ASSUME NEW w \in Threads, Worker(w) PROVE ThreadPlaces'
  <2>1. /\ pc[w] \notin {"none", "exit"}
        /\ \A v \in Threads : v # w => pc'[v] = pc[v]
        /\ UNCHANGED <<n, joined>>
    <3>1. CASE Fetch(w)
      BY <3>1 DEF Fetch, Take, Leave, Sleep, TypeOK, ownerVars
    <3>2. CASE Resume(w)
      BY <3>2 DEF Resume, Take, Leave, Sleep, TypeOK, ownerVars
    <3>3. CASE DoIt(w)
      BY <3>3 DEF DoIt, TypeOK, sharedVars, ownerVars
    <3>4. CASE Deliver(w) \/ Requeue(w)
      BY <3>4 DEF Deliver, Requeue, TypeOK, ownerVars
    <3>. QED
      BY <1>3, <3>1, <3>2, <3>3, <3>4 DEF Worker
  <2>. QED
    BY <2>1 DEF TypeOK
<1>4. ASSUME NEW c \in Clients, Client(c) PROVE ThreadPlaces'
  <2>1. CASE Enqueue(c)
    BY <2>1, <1>2 DEF Enqueue, EnsuredWorkers, ownerVars, TypeOK
  <2>. QED
    BY <1>1, <1>4, <2>1
    DEF Client, WaitUntilIdle, LeaveScope, DestroyBatch, sharedVars, workerVars, ownerVars
<1>5. CASE Owner
  <2>1. ASSUME NEW k \in 1..MaxWorkers, AddWorkers(k) PROVE ThreadPlaces'
    BY <2>1, <1>2 DEF AddWorkers, ownerVars, TypeOK
  <2>2. CASE Populate
    BY <2>2, <1>2 DEF Populate, ownerVars
  <2>3. CASE Join
    BY <2>3 DEF Join, HasExited, sharedVars, workerVars
  <2>4. CASE ReleaseWorker
    <3>1. CASE n \in joined
      <4>1. /\ n' = n - 1
            /\ joined' = joined \ {n}
            /\ pc' = [pc EXCEPT ![n] = "none"]
        BY <2>4, <3>1 DEF ReleaseWorker
      <4>2. n \in Threads /\ joined \subseteq Threads
        BY <3>1 DEF TypeOK
      <4>3. \A w \in Threads : w > n' => w = n \/ w > n
        BY <4>1, <4>2 DEF Threads
      <4>. QED
        BY <4>1, <4>2, <4>3 DEF TypeOK
    <3>2. CASE n \notin joined
      BY <2>4, <3>2, <1>1 DEF ReleaseWorker
    <3>. QED
      BY <3>1, <3>2
  <2>. QED
    BY <1>1, <1>5, <2>1, <2>2, <2>3, <2>4
    DEF Owner, Shutdown, WaitUntilClosed, DestroyWorkshop, Closed, sharedVars,
        workerVars, ownerVars
<1>. QED
    BY <1>1, <1>3, <1>4, <1>5
    DEF Next, SpuriousWakeup, Ended, vars, sharedVars, workerVars, ownerVars

\* A step that moves no unit: queue, statuses and what threads hold stay.
SameUnits ==
    /\ UNCHANGED <<queue, status>>
    /\ \A w \in Threads : Holding(w)' = Holding(w)
    /\ \A w \in Threads : Holding(w) => work'[w] = work[w]

\* A step that moves no unit keeps the units where they are.
LEMMA StepSameUnits == UnitsInv /\ SameUnits => UnitsConserved'
BY DEF UnitsInv, SameUnits, UnitsConserved, Queued

\* Adding workers, shutdown and joining move no unit.
LEMMA OwnerMovesNoUnit == UnitsInv /\ Owner => SameUnits
<1>. SUFFICES ASSUME UnitsInv, Owner PROVE SameUnits
    OBVIOUS
<1>. USE WorkshopAssumption DEF UnitsInv, TypeInv
<1>1. ASSUME NEW m \in Int, EnsureWorkers(m) PROVE \A w \in Threads : Holding(w)' = Holding(w)
    BY <1>1 DEF EnsureWorkers, Started, Holding, ThreadPlaces, TypeOK, Threads
<1>2. ASSUME NEW k \in 1..MaxWorkers, AddWorkers(k) PROVE SameUnits
    BY <1>1, <1>2 DEF AddWorkers, SameUnits, clientVars, TypeOK
<1>3. CASE Populate
    BY <1>1, <1>3 DEF Populate, SameUnits, clientVars
<1>4. CASE ReleaseWorker
  <2>1. \A w \in Threads : Holding(w)' = Holding(w)
    BY <1>4 DEF ReleaseWorker, Holding, ThreadPlaces, TypeOK
  <2>. QED
    BY <1>4, <2>1 DEF ReleaseWorker, SameUnits, clientVars
<1>5. CASE UNCHANGED <<queue, workerVars, status>>
    BY <1>5 DEF SameUnits, Holding, workerVars
<1>. QED
    BY <1>2, <1>3, <1>4, <1>5
    DEF Owner, Shutdown, WaitUntilClosed, DestroyWorkshop, Join, Closed, sharedVars,
        clientVars

\* What a worker does in _fetch, do_it, deliver and enqueue.
LEMMA WorkerConserves ==
    ASSUME UnitsInv, NEW w \in Threads, Worker(w)
    PROVE  UnitsConserved'
<1>. USE WorkshopAssumption DEF UnitsInv, TypeInv
<1>1. CASE Fetch(w) \/ Resume(w)
  <2>0. UNCHANGED status
    BY <1>1 DEF Fetch, Resume, clientVars
  <2>1. CASE Leave(w)
    <3>1. pc[w] \in {"fetch", "wait"}
      BY <1>1 DEF Fetch, Resume
    <3>. QED
      BY <2>0, <2>1, <3>1, StepSameUnits DEF Leave, SameUnits, Holding, TypeOK
  <2>2. CASE Sleep(w)
    <3>1. pc[w] \in {"fetch", "wait"}
      BY <1>1 DEF Fetch, Resume
    <3>. QED
      BY <2>0, <2>2, <3>1, StepSameUnits DEF Sleep, SameUnits, Holding, TypeOK
  <2>3. CASE Take(w)
    <3>0. PICK f : f = queue[1]
      OBVIOUS
    <3>1. /\ ~Holding(w) /\ Holding(w)' /\ work'[w] = f
          /\ \A v \in Threads : v # w => Holding(v)' = Holding(v) /\ work'[v] = work[v]
      BY <1>1, <2>3, <3>0 DEF Fetch, Resume, Take, Holding, TypeOK
    <3>2. /\ Len(queue) \in Nat /\ Len(queue) > 0 /\ Len(queue') = Len(queue) - 1
          /\ \A i \in 1..Len(queue') : i + 1 \in 1..Len(queue) /\ queue'[i] = queue[i + 1]
      BY <2>3 DEF Take, PopFront, TypeOK
    <3>3. \A u : Queued(u) <=> Queued(u)' \/ u = f
      <4>1. ASSUME NEW u, Queued(u), u # f PROVE Queued(u)'
        <5>1. PICK i \in 1..Len(queue) : queue[i] = u
          BY <4>1 DEF Queued
        <5>2. i - 1 \in 1..Len(queue') /\ queue'[i - 1] = queue[(i - 1) + 1]
          BY <3>0, <3>2, <4>1, <5>1
        <5>. QED
          BY <5>1, <5>2 DEF Queued
      <4>2. ASSUME NEW u, Queued(u)' PROVE Queued(u)
        BY <3>2, <4>2 DEF Queued
      <4>3. Queued(f)
        BY <3>0, <3>2 DEF Queued
      <4>. QED
        BY <4>1, <4>2, <4>3
    <3>4. ~Queued(f)'
      <4>1. SUFFICES ASSUME NEW i \in 1..Len(queue'), queue'[i] = f PROVE FALSE
        BY DEF Queued
      <4>. QED
        BY <3>0, <3>2, <4>1 DEF UnitsConserved
    <3>5. f \in Units /\ status[f] = "pending" /\ Queued(f)
      BY <3>0, <3>2, <3>3 DEF UnitsConserved, TypeOK
    <3>6. \A i, j \in 1..Len(queue') : queue'[i] = queue'[j] => i = j
      <4>1. SUFFICES ASSUME NEW i \in 1..Len(queue'), NEW j \in 1..Len(queue'),
                            queue'[i] = queue'[j]
                     PROVE  i = j
        OBVIOUS
      <4>2. \A k, l \in 1..Len(queue) : queue[k] = queue[l] => k = l
        BY DEF UnitsConserved
      <4>3. /\ i + 1 \in 1..Len(queue) /\ queue'[i] = queue[i + 1]
            /\ j + 1 \in 1..Len(queue) /\ queue'[j] = queue[j + 1]
        BY <3>2
      <4>4. i + 1 = j + 1
        BY <4>1, <4>2, <4>3
      <4>. QED
        BY <3>2, <4>4
    <3>7. \A i \in 1..Len(queue') : status[queue'[i]] = "pending"
      BY <3>2 DEF UnitsConserved
    <3>8. \A v \in Threads : Holding(v) => work[v] # f
      BY <3>5 DEF UnitsConserved
    <3>9. \A x, y \in Threads :
            Holding(x)' /\ Holding(y)' /\ work'[x] = work'[y] => x = y
      BY <3>1, <3>8 DEF UnitsConserved
    <3>10. ASSUME NEW v \in Threads, Holding(v)'
           PROVE  work'[v] \in Units /\ status[work'[v]] = "pending" /\ ~Queued(work[v])'
      <4>1. PICK x : x = work'[v]
        OBVIOUS
      <4>2. x \in Units /\ status[x] = "pending" /\ ~Queued(x)'
        <5>1. CASE v = w
          BY <3>1, <3>4, <3>5, <4>1, <5>1
        <5>2. CASE v # w
          BY <3>1, <3>3, <3>10, <4>1, <5>2 DEF UnitsConserved
        <5>. QED
          BY <5>1, <5>2
      <4>. QED
        BY <4>1, <4>2 DEF Queued
    <3>11. ASSUME NEW u \in Units, status[u] = "pending"
           PROVE  Queued(u)' \/ \E v \in Threads : Holding(v)' /\ work'[v] = u
      <4>1. CASE Queued(u)
        BY <3>1, <3>3, <4>1
      <4>2. CASE \E v \in Threads : Holding(v) /\ work[v] = u
        BY <3>1, <4>2
      <4>. QED
        BY <3>11, <4>1, <4>2 DEF UnitsConserved
    <3>. QED
      BY <2>0, <3>6, <3>7, <3>9, <3>10, <3>11 DEF UnitsConserved
  <2>. QED
    BY <1>1, <2>1, <2>2, <2>3 DEF Fetch, Resume
<1>2. CASE DoIt(w)
    BY <1>2, StepSameUnits DEF DoIt, SameUnits, Holding, TypeOK, sharedVars, clientVars
<1>3. ASSUME Deliver(w) \/ Requeue(w)
      PROVE  /\ Holding(w) /\ ~Holding(w)' /\ work[w] \in Units
             /\ status[work[w]] = "pending" /\ ~Queued(work[w])
             /\ \A v \in Threads : v # w => Holding(v)' = Holding(v) /\ work'[v] = work[v]
             /\ \A v \in Threads : v # w /\ Holding(v) => work[v] # work[w]
  <2>1. Holding(w) /\ ~Holding(w)'
    BY <1>3 DEF Deliver, Requeue, AfterWork, Holding, TypeOK
  <2>2. \A v \in Threads : v # w => Holding(v)' = Holding(v) /\ work'[v] = work[v]
    BY <1>3 DEF Deliver, Requeue, Holding, TypeOK
  <2>. QED
    BY <2>1, <2>2 DEF UnitsConserved
<1>4. CASE Deliver(w)
  <2>1. queue' = queue /\ status' = [status EXCEPT ![work[w]] = "delivered"]
    BY <1>4 DEF Deliver
  <2>2. \A u : Queued(u)' <=> Queued(u)
    BY <2>1 DEF Queued
  <2>3. \A u \in Units : u # work[w] => status'[u] = status[u]
    BY <2>1 DEF TypeOK
  <2>4. \A i \in 1..Len(queue) : queue[i] # work[w] /\ queue[i] \in Units
    BY <1>3, <1>4 DEF Queued, TypeOK
  <2>5. status'[work[w]] = "delivered"
    BY <1>3, <1>4, <2>1 DEF TypeOK
  <2>. QED
    BY <1>3, <1>4, <2>1, <2>2, <2>3, <2>4, <2>5 DEF UnitsConserved
<1>5. CASE Requeue(w)
  <2>0. PICK x : x = work[w]
    OBVIOUS
  <2>1. queue' = Append(queue, x) /\ status' = status
    BY <1>5, <2>0 DEF Requeue, Push, clientVars
  <2>2. /\ Len(queue) \in Nat /\ Len(queue') = Len(queue) + 1
        /\ queue'[Len(queue) + 1] = x
        /\ \A i \in 1..Len(queue) : queue'[i] = queue[i]
    BY <2>1 DEF TypeOK
  <2>3. \A u : Queued(u)' <=> Queued(u) \/ u = x
    BY <2>2 DEF Queued
  <2>4. \A i \in 1..Len(queue) : queue[i] # x
    BY <1>3, <1>5, <2>0 DEF Queued
  <2>5. \A i, j \in 1..Len(queue') : queue'[i] = queue'[j] => i = j
    BY <2>2, <2>4 DEF UnitsConserved
  <2>6. \A i \in 1..Len(queue') : status'[queue'[i]] = "pending"
    BY <1>3, <1>5, <2>0, <2>1, <2>2 DEF UnitsConserved
  <2>. QED
    BY <1>3, <1>5, <2>0, <2>1, <2>3, <2>5, <2>6 DEF UnitsConserved
<1>. QED
    BY <1>1, <1>2, <1>4, <1>5 DEF Worker

\* Construction and destruction of a batch.
LEMMA ClientConserves ==
    ASSUME UnitsInv, NEW c \in Clients, Client(c)
    PROVE  UnitsConserved'
<1>. USE WorkshopAssumption DEF UnitsInv, TypeInv
<1>1. CASE Enqueue(c)
  <2>1. PICK x \in Mine(c) : /\ status[x] = "raw"
                             /\ status' = [status EXCEPT ![x] = "pending"]
                             /\ Push(x)
    BY <1>1 DEF Enqueue
  <2>2. x \in Units /\ queue' = Append(queue, x)
    BY <2>1 DEF Mine, Push
  <2>3. /\ Len(queue) \in Nat /\ Len(queue') = Len(queue) + 1
        /\ queue'[Len(queue) + 1] = x
        /\ \A i \in 1..Len(queue) : queue'[i] = queue[i] /\ queue[i] \in Units
    BY <2>2 DEF TypeOK
  <2>4. /\ status'[x] = "pending"
        /\ \A u \in Units : u # x => status'[u] = status[u]
    BY <2>1, <2>2 DEF TypeOK
  <2>5. \A u : Queued(u)' <=> Queued(u) \/ u = x
    BY <2>3 DEF Queued
  <2>6. \A i \in 1..Len(queue) : queue[i] # x
    BY <2>1 DEF UnitsConserved
  <2>7. \A w \in Threads : Holding(w) => work[w] # x
    BY <2>1 DEF UnitsConserved
  <2>8. \A w \in Threads : Holding(w)' = Holding(w) /\ work'[w] = work[w]
    BY <1>1 DEF Enqueue, EnsureWorkers, Started, Holding, ThreadPlaces, TypeOK, Threads
  <2>9. \A i, j \in 1..Len(queue') : queue'[i] = queue'[j] => i = j
    BY <2>3, <2>6 DEF UnitsConserved
  <2>10. \A i \in 1..Len(queue') : status'[queue'[i]] = "pending"
    BY <2>3, <2>4, <2>6 DEF UnitsConserved
  <2>11. \A v, w \in Threads :
            Holding(v)' /\ Holding(w)' /\ work'[v] = work'[w] => v = w
    BY <2>8 DEF UnitsConserved
  <2>12. ASSUME NEW w \in Threads, Holding(w)'
         PROVE  work'[w] \in Units /\ status'[work'[w]] = "pending" /\ ~Queued(work[w])'
    <3>1. PICK y : y = work'[w]
      OBVIOUS
    <3>2. y \in Units /\ status'[y] = "pending" /\ ~Queued(y)'
      BY <2>4, <2>5, <2>7, <2>8, <2>12, <3>1 DEF UnitsConserved
    <3>. QED
      BY <3>1, <3>2 DEF Queued
  <2>13. ASSUME NEW u \in Units, status'[u] = "pending"
         PROVE  Queued(u)' \/ \E w \in Threads : Holding(w)' /\ work'[w] = u
    BY <2>4, <2>5, <2>8, <2>13 DEF UnitsConserved
  <2>. QED
    BY <2>9, <2>10, <2>11, <2>12, <2>13 DEF UnitsConserved
<1>2. CASE WaitUntilIdle(c) \/ LeaveScope(c)
    BY <1>2, StepSameUnits
    DEF WaitUntilIdle, LeaveScope, SameUnits, Holding, sharedVars, workerVars
<1>3. CASE DestroyBatch(c)
  <2>1. \A u \in Mine(c) : status[u] = "delivered"
    BY <1>3, ZeroLatch DEF DestroyBatch, Completed
  <2>2. \A u \in Units :
            \/ Batch[u] # c /\ status'[u] = status[u]
            \/ status[u] = "delivered" /\ status'[u] = "freed"
    BY <1>3, <2>1 DEF DestroyBatch, Mine
  <2>3. UNCHANGED <<queue, pc, work>>
    BY <1>3 DEF DestroyBatch, sharedVars, workerVars
  <2>4. /\ \A u : Queued(u)' <=> Queued(u)
        /\ \A w \in Threads : Holding(w)' <=> Holding(w)
    BY <2>3 DEF Queued, Holding
  <2>5. \A i \in 1..Len(queue) : queue[i] \in Units
    BY DEF TypeOK
  <2>. QED
    BY <2>2, <2>3, <2>4, <2>5 DEF UnitsConserved
<1>. QED
    BY <1>1, <1>2, <1>3 DEF Client

\* The latches count what is outstanding.
LEMMA StepLatch == UnitsInv /\ [Next]_vars => LatchCountsUndelivered'
<1>. SUFFICES ASSUME UnitsInv, [Next]_vars PROVE LatchCountsUndelivered'
    OBVIOUS
<1>. USE WorkshopAssumption DEF UnitsInv, TypeInv
<1>1. CASE UNCHANGED clientVars
    BY <1>1 DEF LatchCountsUndelivered, clientVars, Mine
<1>2. ASSUME NEW w \in Threads, Deliver(w) PROVE LatchCountsUndelivered'
  <2>0. PICK x : x = work[w]
    OBVIOUS
  <2>1. /\ x \in Units /\ status[x] = "pending" /\ Batch[x] \in Clients
        /\ status' = [status EXCEPT ![x] = "delivered"]
        /\ latch' = [latch EXCEPT ![Batch[x]] = @ - 1]
        /\ cpc' = cpc
    BY <1>2, <2>0 DEF Deliver, UnitsConserved, Holding
  <2>2. \A u \in Units : status'[u] = IF u = x THEN "delivered" ELSE status[u]
    BY <2>1 DEF TypeOK
  <2>3. ASSUME NEW c \in Clients PROVE latch'[c] = Cardinality(Outstanding(c)')
    <3>1. IsFiniteSet(Outstanding(c)) /\ latch[c] = Cardinality(Outstanding(c))
      BY FS_Subset DEF Outstanding, Mine, LatchCountsUndelivered
    <3>2. CASE c = Batch[x]
      <4>1. x \in Outstanding(c) /\ Outstanding(c)' = Outstanding(c) \ {x}
        BY <2>1, <2>2, <3>2 DEF Outstanding, Mine
      <4>. QED
        <5>1. /\ Cardinality(Outstanding(c)') = Cardinality(Outstanding(c)) - 1
              /\ Cardinality(Outstanding(c)) \in Nat
          BY <3>1, <4>1, FS_RemoveElement, FS_CardinalityType
        <5>2. latch'[c] = latch[c] - 1
          BY <2>1, <3>2 DEF TypeOK
        <5>. QED
          BY <3>1, <5>1, <5>2
    <3>3. CASE c # Batch[x]
      <4>1. Outstanding(c)' = Outstanding(c)
        BY <2>2, <3>3 DEF Outstanding, Mine
      <4>. QED
        BY <2>1, <3>1, <3>3, <4>1 DEF TypeOK
    <3>. QED
      BY <3>2, <3>3
  <2>4. \A u \in Units : status'[u] = "freed" => cpc'[Batch[u]] = "done"
    BY <2>1, <2>2 DEF LatchCountsUndelivered
  <2>. QED
    BY <2>3, <2>4 DEF LatchCountsUndelivered, Outstanding
<1>3. ASSUME NEW c \in Clients, Client(c) PROVE LatchCountsUndelivered'
  <2>1. CASE Enqueue(c)
    <3>1. PICK x \in Mine(c) : /\ status[x] = "raw"
                               /\ status' = [status EXCEPT ![x] = "pending"]
      BY <2>1 DEF Enqueue
    <3>2. \A d \in Clients : Outstanding(d)' = Outstanding(d)
      BY <3>1 DEF Outstanding, Mine, TypeOK
    <3>. QED
      BY <2>1, <3>1, <3>2, ZenonT(40) DEF Enqueue, LatchCountsUndelivered, Outstanding, TypeOK, Mine
  <2>2. CASE WaitUntilIdle(c) \/ LeaveScope(c)
    <3>1. UNCHANGED <<latch, status>> /\ cpc[c] # "done"
      BY <2>2 DEF WaitUntilIdle, LeaveScope
    <3>2. \A d \in Clients : d # c => cpc'[d] = cpc[d]
      BY <2>2 DEF WaitUntilIdle, LeaveScope, TypeOK
    <3>. QED
      BY <3>1, <3>2 DEF LatchCountsUndelivered, Mine
  <2>3. CASE DestroyBatch(c)
    <3>1. \A u \in Mine(c) : status[u] = "delivered"
      BY <2>3, ZeroLatch DEF DestroyBatch, Completed
    <3>2. \A u \in Units : status'[u] = IF Batch[u] = c THEN "freed" ELSE status[u]
      BY <2>3 DEF DestroyBatch
    <3>3. \A d \in Clients : Outstanding(d)' = Outstanding(d)
      BY <3>1, <3>2 DEF Outstanding, Mine
    <3>4. \A u \in Units : status'[u] = "freed" => cpc'[Batch[u]] = "done"
      BY <2>3, <3>2 DEF DestroyBatch, LatchCountsUndelivered, TypeOK
    <3>. QED
      BY <2>3, <3>3, <3>4 DEF DestroyBatch, LatchCountsUndelivered, Outstanding
  <2>. QED
    BY <1>3, <2>1, <2>2, <2>3 DEF Client
<1>4. ASSUME NEW w \in Threads, Worker(w), ~Deliver(w) PROVE UNCHANGED clientVars
    BY <1>4 DEF Worker, Fetch, Resume, DoIt, Requeue
<1>5. CASE Owner
    BY <1>1, <1>5
    DEF Owner, AddWorkers, Populate, Shutdown, WaitUntilClosed, DestroyWorkshop, Join,
        Closed, ReleaseWorker
<1>. QED
    BY <1>1, <1>2, <1>3, <1>4, <1>5 DEF Next, SpuriousWakeup, Ended, vars

\* The three parts together are inductive.
LEMMA UnitsInvHolds == Spec => []UnitsInv
<1>1. Init => UnitsInv
  <2>. SUFFICES ASSUME Init PROVE UnitsInv
    OBVIOUS
  <2>1. \A c \in Clients : Outstanding(c) = Mine(c)
    BY DEF Init, Outstanding, Mine
  <2>2. LatchCountsUndelivered
    BY <2>1 DEF Init, LatchCountsUndelivered, Outstanding, BatchSize
  <2>. QED
    BY <2>2, InitType DEF Init, UnitsInv, ThreadPlaces, UnitsConserved, Queued, Holding
<1>2. UnitsInv /\ [Next]_vars => UnitsInv'
  <2>. SUFFICES ASSUME UnitsInv, [Next]_vars PROVE UnitsInv'
    OBVIOUS
  <2>1. TypeInv' /\ ThreadPlaces' /\ LatchCountsUndelivered'
    BY StepType, StepPlaces, StepLatch DEF UnitsInv
  <2>2. UnitsConserved'
    <3>1. CASE UNCHANGED <<queue, status, workerVars>>
      BY <3>1, StepSameUnits DEF SameUnits, Holding, workerVars
    <3>. QED
      BY <3>1, WorkerConserves, ClientConserves, OwnerMovesNoUnit, StepSameUnits
      DEF Next, SpuriousWakeup, Ended, vars, sharedVars, clientVars
  <2>. QED
    BY <2>1, <2>2 DEF UnitsInv
<1>. QED
    BY <1>1, <1>2, PTL DEF Spec

\* No unit is lost, held twice, or referred to after it was delivered or
\* freed, whatever the workers, the clients and the owner do.
THEOREM UnitsAreConserved == Spec => []UnitsConserved
BY UnitsInvHolds, PTL DEF UnitsInv

\* A latch opens exactly when its batch has no undelivered unit left.
THEOREM LatchesCount == Spec => []LatchCountsUndelivered
BY UnitsInvHolds, PTL DEF UnitsInv

\* The workshop implements WorkBatches: enqueue by a constructor submits,
\* deliver delivers, ~inplace_work_batch releases, all else stutters.
THEOREM WorkshopKeepsContract == Spec => KeepsContract
<1>1. Init => Contract!Init
    BY DEF Init, Contract!Init
<1>2. UnitsInv /\ [Next]_vars => [Contract!Next]_status
  <2>. SUFFICES ASSUME UnitsInv, [Next]_vars, status' # status PROVE Contract!Next
    OBVIOUS
  <2>. USE DEF UnitsInv, TypeInv
  <2>1. ASSUME NEW w \in Threads, Deliver(w) PROVE Contract!Next
    <3>1. work[w] \in Units /\ status[work[w]] = "pending"
      BY <2>1 DEF Deliver, UnitsConserved, Holding
    <3>2. Contract!Deliver(work[w])
      BY <2>1, <3>1 DEF Deliver, Contract!Deliver
    <3>. QED
      BY <3>1, <3>2 DEF Contract!Next
  <2>2. ASSUME NEW c \in Clients, Enqueue(c) PROVE Contract!Next
    <3>1. PICK x \in Mine(c) : /\ status[x] = "raw"
                               /\ status' = [status EXCEPT ![x] = "pending"]
      BY <2>2 DEF Enqueue
    <3>2. x \in Units /\ Contract!Submit(x)
      BY <3>1 DEF Mine, Contract!Submit
    <3>. QED
      BY <3>2 DEF Contract!Next
  <2>3. ASSUME NEW c \in Clients, DestroyBatch(c) PROVE Contract!Next
    <3>1. \A u \in Mine(c) : status[u] = "delivered"
      BY <2>3, ZeroLatch DEF DestroyBatch, Completed
    <3>2. Contract!Release(c)
      BY <2>3, <3>1 DEF DestroyBatch, Contract!Release, Mine, Contract!Mine
    <3>. QED
      BY <3>2 DEF Contract!Next
  <2>4. ASSUME NEW w \in Threads, Worker(w) PROVE Deliver(w)
    BY <2>4 DEF Worker, Fetch, Resume, DoIt, Requeue, clientVars
  <2>5. ASSUME NEW c \in Clients, Client(c) PROVE Enqueue(c) \/ DestroyBatch(c)
    BY <2>5 DEF Client, WaitUntilIdle, LeaveScope
  <2>6. ~Owner
    BY DEF Owner, AddWorkers, Populate, Shutdown, WaitUntilClosed, DestroyWorkshop,
           Join, Closed, ReleaseWorker, clientVars
  <2>. QED
    BY <2>1, <2>2, <2>3, <2>4, <2>5, <2>6 DEF Next, SpuriousWakeup, Ended, vars, clientVars
<1>. QED
    BY <1>1, <1>2, UnitsInvHolds, PTL DEF Spec, KeepsContract, Contract!Spec

(***************************************************************************)
(* Wakeups.  NoLostWakeup and IdleSleepersAreOwedAWakeup need each other:   *)
(* when enqueue's notify_one hits an idle waiter, the reason that waiter   *)
(* had to sleep is a worker that is awake.                                 *)
(***************************************************************************)
Flags ==
    /\ \A w \in Threads : pc[w] = "exit" => shutdown
    /\ \A w \in Threads : Holding(w) /\ last[w] => shutdown
    /\ \A w \in Threads : w \in asleep => pc[w] = "wait"

WakeInv ==
    /\ UnitsInv
    /\ Flags
    /\ NoLostWakeup
    /\ IdleSleepersAreOwedAWakeup

Awake(w) == w <= n /\ w \notin asleep /\ pc[w] # "exit"

\* A worker that holds a unit is one of _workers, and it is awake.
LEMMA HoldersAreAwake ==
    ASSUME WakeInv, NEW w \in Threads, Holding(w)
    PROVE  Awake(w)
BY WorkshopAssumption
   DEF WakeInv, UnitsInv, TypeInv, TypeOK, ThreadPlaces, Flags, Holding, Awake, Threads

\* Workers keep the promises about sleepers.
LEMMA WorkerWakes ==
    ASSUME WakeInv, NEW w \in Threads, Worker(w)
    PROVE  Flags' /\ NoLostWakeup' /\ IdleSleepersAreOwedAWakeup'
<1>. USE WorkshopAssumption DEF WakeInv, UnitsInv, TypeInv
<1>1. CASE Fetch(w) \/ Resume(w)
  <2>1. /\ pc[w] \in {"fetch", "wait"} /\ w \notin asleep /\ w <= n
        /\ UNCHANGED <<shutdown, n>>
    BY <1>1 DEF Fetch, Resume, Flags, ThreadPlaces, TypeOK, Threads
  <2>2. CASE Take(w)
    <3>1. Flags'
      BY <2>1, <2>2 DEF Take, Flags, Holding, TypeOK
    <3>2. Holding(w)' /\ Awake(w)'
      BY <2>1, <2>2 DEF Take, Holding, Awake, TypeOK
    <3>3. shutdown => asleep' \cap Threads = {}
      BY <2>2 DEF Take, NoLostWakeup
    <3>. QED
      BY <2>1, <3>1, <3>2, <3>3 DEF NoLostWakeup, IdleSleepersAreOwedAWakeup, Awake
  <2>3. CASE Leave(w)
    <3>1. Flags'
      BY <2>1, <2>3 DEF Leave, Flags, Holding, TypeOK
    <3>2. \A v \in Threads : Holding(v)' = Holding(v)
      BY <2>1, <2>3 DEF Leave, Holding, TypeOK
    <3>. QED
      BY <2>1, <2>3, <3>1, <3>2 DEF Leave, NoLostWakeup, IdleSleepersAreOwedAWakeup
  <2>4. CASE Sleep(w)
    <3>1. Flags'
      BY <2>1, <2>4 DEF Sleep, Flags, Holding, TypeOK
    <3>2. \A v \in Threads : Holding(v)' = Holding(v)
      BY <2>1, <2>4 DEF Sleep, Holding, TypeOK
    <3>3. asleep' \cap Clients = asleep \cap Clients /\ queue' = <<>> /\ ~shutdown' /\ queue = <<>>
      BY <2>1, <2>4 DEF Sleep
    <3>. QED
      BY <3>1, <3>2, <3>3 DEF NoLostWakeup, IdleSleepersAreOwedAWakeup
  <2>. QED
    BY <1>1, <2>2, <2>3, <2>4 DEF Fetch, Resume
<1>2. CASE DoIt(w)
  <2>1. Flags'
    BY <1>2 DEF DoIt, Flags, Holding, TypeOK, sharedVars
  <2>2. \A v \in Threads : Holding(v)' = Holding(v)
    BY <1>2 DEF DoIt, Holding, TypeOK
  <2>3. \A v \in Threads : Awake(v) => Awake(v)'
    BY <1>2 DEF DoIt, Awake, TypeOK, sharedVars
  <2>. QED
    BY <1>2, <2>1, <2>2, <2>3
    DEF DoIt, NoLostWakeup, IdleSleepersAreOwedAWakeup, Awake, sharedVars
<1>3. ASSUME Deliver(w) \/ Requeue(w) PROVE Flags' /\ asleep' \subseteq asleep /\ (~shutdown' => Awake(w)')
  <2>1. Holding(w) /\ Awake(w)
    BY <1>3, HoldersAreAwake DEF Deliver, Requeue, Holding
  <2>2. asleep' \subseteq asleep
    BY <1>3, NotifyOneType DEF Deliver, NotifyAll, Requeue, Push
  <2>3. pc' = [pc EXCEPT ![w] = AfterWork(w)] /\ UNCHANGED <<shutdown, n, last>>
    BY <1>3 DEF Deliver, Requeue
  <2>4. pc'[w] = AfterWork(w) /\ \A v \in Threads : v # w => pc'[v] = pc[v]
    BY <2>3 DEF TypeOK
  <2>5. AfterWork(w) \in {"exit", "fetch"} /\ (AfterWork(w) = "exit" => shutdown)
    BY <2>1 DEF AfterWork, Flags, TypeOK
  <2>6. w \notin asleep'
    BY <2>1, <2>2 DEF Awake
  <2>7. Flags'
    BY <2>2, <2>3, <2>4, <2>5, <2>6 DEF Flags, Holding
  <2>8. ~shutdown' => Awake(w)'
    BY <2>1, <2>3, <2>4, <2>5, <2>6 DEF Awake
  <2>. QED
    BY <2>2, <2>7, <2>8
<1>4. CASE Deliver(w)
  <2>1. asleep' = {}
    BY <1>4 DEF Deliver, NotifyAll
  <2>. QED
    BY <1>3, <1>4, <2>1 DEF NoLostWakeup, IdleSleepersAreOwedAWakeup, Awake
<1>5. CASE Requeue(w)
  <2>1. queue' = Append(queue, work[w]) /\ shutdown' = shutdown
    BY <1>5 DEF Requeue, Push
  <2>2. queue \in Seq(Units) /\ work[w] \in Units
    BY <1>5 DEF TypeOK, HoldsUnit, Holding, Requeue
  <2>3. queue' # <<>>
    BY <2>1, <2>2, AppendNotEmpty
  <2>. QED
    BY <1>3, <1>5, <2>1, <2>3 DEF NoLostWakeup, IdleSleepersAreOwedAWakeup, Awake
<1>. QED
    BY <1>1, <1>2, <1>4, <1>5 DEF Worker

\* Clients keep the promises about sleepers.
LEMMA ClientWakes ==
    ASSUME WakeInv, NEW c \in Clients, Client(c)
    PROVE  Flags' /\ NoLostWakeup' /\ IdleSleepersAreOwedAWakeup'
<1>. USE WorkshopAssumption DEF WakeInv, UnitsInv, TypeInv
<1>1. CASE Enqueue(c)
  <2>1. PICK x \in Mine(c) : queue' = Append(queue, x) /\ asleep' \in NotifyOne(asleep)
    BY <1>1 DEF Enqueue, Push
  <2>0. queue \in Seq(Units) /\ x \in Units
    BY DEF TypeOK, Mine
  <2>2. queue' # <<>> /\ asleep' \subseteq asleep /\ UNCHANGED <<shutdown, last>>
    BY <1>1, <2>0, <2>1, NotifyOneType, AppendNotEmpty DEF Enqueue
  <2>3. /\ n \in Nat /\ n' \in Int /\ n' >= n
        /\ \A w \in Threads : w <= n => pc'[w] = pc[w]
        /\ \A w \in Threads : w > n => pc[w] = "none" /\ pc'[w] \in {"none", "fetch"}
        /\ n = 0 => n' >= 2
    BY <1>1 DEF Enqueue, EnsureWorkers, Started, EnsuredWorkers, ThreadPlaces, TypeOK, Threads
  <2>4. \A w \in Threads : w \in asleep => w <= n
    BY <2>3 DEF Flags, Threads
  <2>5. Flags'
    BY <2>2, <2>3, <2>4 DEF Flags, Holding, Threads
  <2>6. \A w \in Threads : Awake(w) => Awake(w)'
    BY <2>2, <2>3 DEF Awake, Threads
  <2>7. ASSUME ~shutdown PROVE \E w \in Threads : Awake(w)'
    <3>1. CASE n = 0
      <4>1. 1 \in Threads
        BY DEF Threads, EnsuredWorkers
      <4>. QED
        BY <2>2, <2>3, <2>4, <3>1, <4>1 DEF Awake
    <3>2. CASE n # 0 /\ \E w \in Threads : Awake(w)
      BY <2>6, <3>2
    <3>3. CASE n # 0 /\ ~\E w \in Threads : Awake(w)
      <4>1. queue = <<>>
        BY <2>7, <3>3 DEF NoLostWakeup, Awake
      <4>2. asleep \cap Clients = {}
        BY <3>3, <4>1, HoldersAreAwake DEF IdleSleepersAreOwedAWakeup
      <4>3. 1 \in Threads /\ 1 <= n
        BY <3>3 DEF TypeOK, Threads
      <4>4. 1 \in asleep
        BY <2>7, <3>3, <4>3 DEF Awake, Flags
      <4>5. PICK p \in asleep : asleep' = asleep \ {p}
        BY <2>1, <4>4 DEF NotifyOne
      <4>6. p \in Threads /\ p <= n /\ pc[p] = "wait"
        BY <2>4, <4>2 DEF TypeOK, Flags
      <4>7. Awake(p)'
        BY <2>3, <4>5, <4>6 DEF Awake, Threads
      <4>. QED
        BY <4>6, <4>7
    <3>. QED
      BY <3>1, <3>2, <3>3
  <2>. QED
    BY <2>2, <2>5, <2>7 DEF NoLostWakeup, IdleSleepersAreOwedAWakeup, Awake
<1>2. CASE WaitUntilIdle(c)
  <2>1. UNCHANGED <<queue, shutdown, n, workerVars>>
    BY <1>2 DEF WaitUntilIdle
  <2>2. asleep' \cap Threads = asleep \cap Threads
    BY <1>2 DEF WaitUntilIdle
  <2>3. queue = <<>> => asleep' = asleep
    BY <1>2 DEF WaitUntilIdle
  <2>. QED
    BY <2>1, <2>2, <2>3
    DEF Flags, NoLostWakeup, IdleSleepersAreOwedAWakeup, Holding, workerVars
<1>3. CASE LeaveScope(c) \/ DestroyBatch(c)
    BY <1>3
    DEF LeaveScope, DestroyBatch, sharedVars, workerVars, Flags, NoLostWakeup,
        IdleSleepersAreOwedAWakeup, Holding
<1>. QED
    BY <1>1, <1>2, <1>3 DEF Client

\* The owner keeps the promises about sleepers.
LEMMA OwnerWakes ==
    ASSUME WakeInv, Owner
    PROVE  Flags' /\ NoLostWakeup' /\ IdleSleepersAreOwedAWakeup'
<1>. USE WorkshopAssumption DEF WakeInv, UnitsInv, TypeInv
<1>1. ASSUME NEW m \in Int, EnsureWorkers(m), UNCHANGED <<queue, shutdown, asleep, work, last>>
      PROVE  Flags' /\ NoLostWakeup' /\ IdleSleepersAreOwedAWakeup'
  <2>1. /\ n \in Nat /\ n' \in Int /\ n' >= n
        /\ \A w \in Threads : w <= n => pc'[w] = pc[w]
        /\ \A w \in Threads : w > n => pc[w] = "none" /\ pc'[w] \in {"none", "fetch"}
    BY <1>1 DEF EnsureWorkers, Started, ThreadPlaces, TypeOK, Threads
  <2>2. \A w \in Threads : Holding(w)' = Holding(w)
    BY <2>1 DEF Holding, Threads
  <2>3. Flags'
    BY <1>1, <2>1, <2>2 DEF Flags, Threads
  <2>4. \A w \in Threads : Awake(w) => Awake(w)'
    BY <1>1, <2>1 DEF Awake, Threads
  <2>. QED
    BY <1>1, <2>2, <2>3, <2>4 DEF NoLostWakeup, IdleSleepersAreOwedAWakeup, Awake
<1>2. ASSUME NEW k \in 1..MaxWorkers, AddWorkers(k)
      PROVE  Flags' /\ NoLostWakeup' /\ IdleSleepersAreOwedAWakeup'
  <2>1. n + k \in Int
    BY DEF TypeOK
  <2>. QED
    BY <1>1, <1>2, <2>1 DEF AddWorkers
<1>3. CASE Populate
    BY <1>1, <1>3 DEF Populate
<1>4. CASE Shutdown \/ DestroyWorkshop
    BY <1>4
    DEF Shutdown, DestroyWorkshop, SetShutdown, NotifyAll, workerVars, Flags,
        NoLostWakeup, IdleSleepersAreOwedAWakeup, Holding
<1>5. CASE UNCHANGED <<sharedVars, workerVars>>
    BY <1>5
    DEF sharedVars, workerVars, Flags, NoLostWakeup, IdleSleepersAreOwedAWakeup, Holding
<1>6. CASE ReleaseWorker
  <2>1. CASE n \in joined
    <3>1. /\ n \in Threads /\ pc[n] = "exit" /\ shutdown
          /\ pc' = [pc EXCEPT ![n] = "none"]
          /\ UNCHANGED <<queue, shutdown, asleep, work, last>>
      BY <1>6, <2>1 DEF ReleaseWorker, ThreadPlaces, Flags, TypeOK
    <3>2. \A w \in Threads : Holding(w)' = Holding(w)
      BY <3>1 DEF Holding, TypeOK
    <3>3. Flags'
      BY <3>1, <3>2 DEF Flags, TypeOK
    <3>. QED
      BY <3>1, <3>2, <3>3 DEF NoLostWakeup, IdleSleepersAreOwedAWakeup
  <2>2. CASE n \notin joined
    BY <1>5, <1>6, <2>2 DEF ReleaseWorker, sharedVars, workerVars
  <2>. QED
    BY <2>1, <2>2
<1>. QED
    BY <1>2, <1>3, <1>4, <1>5, <1>6, Owner DEF Owner, WaitUntilClosed, Join, Closed

\* The invariant about sleepers, on top of the one about units.
LEMMA WakeInvHolds == Spec => []WakeInv
<1>1. Init /\ UnitsInv => WakeInv
    BY DEF Init, WakeInv, Flags, NoLostWakeup, IdleSleepersAreOwedAWakeup, Holding
<1>2. WakeInv /\ UnitsInv' /\ [Next]_vars => WakeInv'
  <2>. SUFFICES ASSUME WakeInv, UnitsInv', [Next]_vars
                PROVE  Flags' /\ NoLostWakeup' /\ IdleSleepersAreOwedAWakeup'
    BY DEF WakeInv
  <2>1. ASSUME NEW p \in Threads \cup Clients, SpuriousWakeup(p)
        PROVE  Flags' /\ NoLostWakeup' /\ IdleSleepersAreOwedAWakeup'
    BY <2>1
    DEF SpuriousWakeup, WakeInv, Flags, NoLostWakeup, IdleSleepersAreOwedAWakeup,
        Holding, workerVars
  <2>2. CASE UNCHANGED vars
    BY <2>2
    DEF vars, sharedVars, workerVars, WakeInv, Flags, NoLostWakeup,
        IdleSleepersAreOwedAWakeup, Holding
  <2>. QED
    BY <2>1, <2>2, WorkerWakes, ClientWakes, OwnerWakes DEF Next, Ended
<1>. QED
    BY <1>1, <1>2, UnitsInvHolds, PTL DEF Spec

\* While an open workshop has work, a worker is awake: enqueue's notify_one
\* may hit the wrong sleeper, but never when it was needed.
THEOREM NoWakeupIsLost == Spec => []NoLostWakeup
BY WakeInvHolds, PTL DEF WakeInv

\* Who sleeps in wait_until_idle will be notified: work is queued or held.
THEOREM IdleSleepersAreServed == Spec => []IdleSleepersAreOwedAWakeup
BY WakeInvHolds, PTL DEF WakeInv

(***************************************************************************)
(* The end of the workshop.  The join loop has joined the threads before   *)
(* the one it is at; without an explicit wait_until_closed no thread is    *)
(* joined before the destructor joins it; the destructor runs with the     *)
(* batches gone.                                                           *)
(***************************************************************************)
FreedInv == \A c \in Clients : cpc[c] = "done" => \A u \in Mine(c) : status[u] = "freed"

LifeInv ==
    /\ owner \in {"destroying", "gone"} => ClientsDone /\ shutdown
    /\ owner \in {"closing", "destroying"} => \A w \in Threads : w < next => w \in joined
    /\ owner = "gone" => \A w \in Threads : w <= n => w \in joined

AbortInv ==
    /\ ~explicit => /\ owner # "closing"
                    /\ owner = "open" => joined = {}
                    /\ \A w \in joined : w < next
    /\ TerminateOnlyAfterMisuse

EndInv == WakeInv /\ FreedInv /\ LifeInv /\ AbortInv

\* A step that frees no batch and hands no freed unit over.
LEMMA StepFreed ==
    ASSUME EndInv, [Next]_vars
    PROVE  FreedInv'
<1>. USE WorkshopAssumption DEF EndInv, WakeInv, UnitsInv, TypeInv, TypeOK, FreedInv
<1>1. CASE UNCHANGED <<cpc, status>>
    BY <1>1
<1>2. ASSUME NEW w \in Threads, Worker(w) PROVE FreedInv'
  <2>1. CASE UNCHANGED <<cpc, status>>
    BY <2>1
  <2>2. CASE Deliver(w)
    <3>1. work[w] \in Units /\ status[work[w]] = "pending" /\ cpc' = cpc
        BY <2>2 DEF Deliver, UnitsConserved, Holding
    <3>2. status' = [status EXCEPT ![work[w]] = "delivered"]
        BY <2>2 DEF Deliver
    <3>3. ASSUME NEW c \in Clients, cpc[c] = "done", NEW u \in Mine(c)
          PROVE  status'[u] = "freed"
        BY <3>1, <3>2, <3>3 DEF Mine
    <3>. QED
        BY <3>1, <3>3 DEF Mine
  <2>. QED
    BY <1>2, <2>1, <2>2 DEF Worker, Fetch, Resume, DoIt, Requeue, clientVars
<1>3. ASSUME NEW c \in Clients, Client(c) PROVE FreedInv'
  <2>1. CASE Enqueue(c)
    <3>1. PICK x \in Mine(c) : status[x] = "raw" /\ status' = [status EXCEPT ![x] = "pending"]
        BY <2>1 DEF Enqueue
    <3>2. x \in Units /\ cpc' = cpc
        BY <2>1 DEF Mine, Enqueue
    <3>3. ASSUME NEW d \in Clients, cpc[d] = "done", NEW u \in Mine(d)
          PROVE  status'[u] = "freed"
        BY <3>1, <3>2, <3>3 DEF Mine
    <3>. QED
        BY <3>2, <3>3 DEF Mine
  <2>2. CASE WaitUntilIdle(c)
    BY <2>2 DEF WaitUntilIdle, Mine
  <2>3. CASE LeaveScope(c)
    BY <2>3 DEF LeaveScope, Mine
  <2>4. CASE DestroyBatch(c)
    BY <2>4 DEF DestroyBatch, Mine
  <2>. QED
    BY <1>3, <2>1, <2>2, <2>3, <2>4 DEF Client
<1>4. CASE Owner
    BY <1>1, <1>4
    DEF Owner, AddWorkers, Populate, Shutdown, WaitUntilClosed, DestroyWorkshop, Join, Closed,
        ReleaseWorker, clientVars
<1>. QED
    BY <1>1, <1>2, <1>3, <1>4 DEF Next, SpuriousWakeup, Ended, vars, clientVars

\* What a step does to the life of the workshop, when it is not the owner's.
SameLife ==
    /\ UNCHANGED ownerVars
    /\ shutdown' = shutdown
    /\ \A c \in Clients : cpc[c] = "done" => cpc'[c] = "done"
    /\ n' = n \/ owner \in {"open", "closing"}

\* The workers, the clients and spurious wakeups leave the workshop's life as
\* it is.
LEMMA OthersKeepLife ==
    ASSUME EndInv, \/ \E w \in Threads : Worker(w)
                   \/ \E c \in Clients : Client(c)
                   \/ \E p \in Threads \cup Clients : SpuriousWakeup(p)
                   \/ UNCHANGED vars
    PROVE  SameLife
<1>. USE DEF EndInv, WakeInv, UnitsInv, TypeInv, TypeOK, SameLife
<1>1. ASSUME NEW w \in Threads, Worker(w) PROVE SameLife
    BY <1>1 DEF Worker, Fetch, Resume, DoIt, Deliver, Requeue, sharedVars, clientVars
<1>2. ASSUME NEW c \in Clients, Client(c) PROVE SameLife
  <2>1. CASE Enqueue(c)
    <3>1. owner \in {"open", "closing"}
        BY <2>1 DEF Enqueue, LifeInv, ClientsDone, OwnerPlaces
    <3>. QED
        BY <2>1, <3>1 DEF Enqueue
  <2>2. CASE WaitUntilIdle(c)
    BY <2>2 DEF WaitUntilIdle
  <2>3. CASE LeaveScope(c)
    BY <2>3 DEF LeaveScope, sharedVars
  <2>4. CASE DestroyBatch(c)
    BY <2>4 DEF DestroyBatch, sharedVars
  <2>. QED
    BY <1>2, <2>1, <2>2, <2>3, <2>4 DEF Client
<1>3. ASSUME NEW p \in Threads \cup Clients, SpuriousWakeup(p) PROVE SameLife
    BY <1>3 DEF SpuriousWakeup, clientVars
<1>4. CASE UNCHANGED vars
    BY <1>4 DEF vars, sharedVars, clientVars
<1>. QED
    BY <1>1, <1>2, <1>3, <1>4

\* What leaves the life as it is keeps what is known of it.
LEMMA SameLifeKeeps ==
    ASSUME EndInv, SameLife
    PROVE  LifeInv' /\ AbortInv'
BY DEF EndInv, SameLife, LifeInv, AbortInv, ClientsDone, TerminateOnlyAfterMisuse, ownerVars

\* The owner goes through the life of the workshop in its order.
LEMMA OwnerKeepsLife ==
    ASSUME EndInv, ~aborted, Owner
    PROVE  LifeInv' /\ AbortInv'
<1>. USE WorkshopAssumption
     DEF EndInv, WakeInv, UnitsInv, TypeInv, TypeOK, LifeInv, AbortInv, ClientsDone,
         TerminateOnlyAfterMisuse
<1>1. ASSUME NEW k \in 1..MaxWorkers, AddWorkers(k) PROVE LifeInv' /\ AbortInv'
    BY <1>1 DEF AddWorkers, clientVars, ownerVars
<1>2. CASE Populate
    BY <1>2 DEF Populate, clientVars, ownerVars
<1>3. CASE Shutdown
    BY <1>3 DEF Shutdown, SetShutdown, clientVars, ownerVars
<1>4. CASE WaitUntilClosed
    BY <1>4 DEF WaitUntilClosed, sharedVars, clientVars, Threads
<1>5. CASE DestroyWorkshop
    BY <1>5 DEF DestroyWorkshop, SetShutdown, clientVars, Threads
<1>6. CASE Join
  <2>0. /\ owner \in {"closing", "destroying"} /\ next <= n
        /\ UNCHANGED <<owner, explicit, shutdown, n, cpc>>
    BY <1>6 DEF Join, sharedVars, clientVars
  <2>1. CASE next \in joined
    <3>1. aborted' = TRUE /\ next' = next /\ joined' = joined
        BY <1>6, <2>1 DEF Join
    <3>2. explicit
        BY <2>1
    <3>. QED
        BY <2>0, <3>1, <3>2
  <2>2. CASE next \notin joined
    <3>1. joined' = joined \cup {next} /\ next' = next + 1 /\ aborted' = aborted
        BY <1>6, <2>2 DEF Join, NextThread
    <3>2. next \in Int /\ \A w \in Threads : w \in Int
        BY DEF Threads
    <3>3. ASSUME NEW w \in Threads, w < next' PROVE w \in joined'
        BY <2>0, <3>1, <3>2, <3>3
    <3>4. ASSUME ~explicit, NEW w \in joined' PROVE w < next'
        BY <3>1, <3>2, <3>4
    <3>. QED
        BY <2>0, <3>1, <3>3, <3>4
  <2>. QED
    BY <2>1, <2>2
<1>7. CASE Closed
  <2>1. /\ owner \in {"closing", "destroying"} /\ next > n
        /\ owner' = IF owner = "closing" THEN "open" ELSE "gone"
        /\ UNCHANGED <<shutdown, n, cpc, next, joined, explicit, aborted>>
    BY <1>7 DEF Closed, sharedVars, clientVars
  <2>2. n \in Int /\ next \in Int /\ \A w \in Threads : w \in Int
    BY DEF Threads
  <2>3. \A w \in Threads : w <= n => w \in joined
    BY <2>1, <2>2
  <2>4. ~explicit => owner = "destroying"
    BY <2>1
  <2>5. owner = "destroying" => ClientsDone /\ shutdown
    OBVIOUS
  <2>6. LifeInv'
    BY <2>1, <2>3, <2>5
  <2>7. AbortInv'
    BY <2>1, <2>4
  <2>. QED
    BY <2>6, <2>7
<1>8. CASE ReleaseWorker
  <2>1. /\ owner = "open" /\ owner' = owner
        /\ UNCHANGED <<shutdown, cpc, next, explicit>>
    BY <1>8 DEF ReleaseWorker, clientVars
  <2>2. joined' \subseteq joined
    BY <1>8 DEF ReleaseWorker
  <2>. QED
    BY <2>1, <2>2
<1>. QED
    BY <1>1, <1>2, <1>3, <1>4, <1>5, <1>6, <1>7, <1>8 DEF Owner

\* The invariant about the end of a workshop holds in every reachable state.
LEMMA EndInvHolds == Spec => []EndInv
<1>1. Init /\ WakeInv => EndInv
    BY DEF Init, EndInv, FreedInv, LifeInv, AbortInv, TerminateOnlyAfterMisuse
<1>2. EndInv /\ WakeInv' /\ [Next]_vars => EndInv'
  <2>. SUFFICES ASSUME EndInv, WakeInv', [Next]_vars PROVE FreedInv' /\ LifeInv' /\ AbortInv'
    BY DEF EndInv
  <2>1. CASE ~aborted /\ Owner
    BY <2>1, StepFreed, OwnerKeepsLife
  <2>2. CASE ~(~aborted /\ Owner)
    <3>1. \/ \E w \in Threads : Worker(w)
          \/ \E c \in Clients : Client(c)
          \/ \E p \in Threads \cup Clients : SpuriousWakeup(p)
          \/ UNCHANGED vars
        BY <2>2 DEF Next, Ended
    <3>. QED
        BY <3>1, StepFreed, OthersKeepLife, SameLifeKeeps
  <2>. QED
    BY <2>1, <2>2
<1>. QED
    BY <1>1, <1>2, WakeInvHolds, PTL DEF Spec

\* ~workshop returns with every thread out of _employ and nobody asleep: each
\* thread was joined, no unit is left, and so no sleeper has a reason to be.
THEOREM GoneStaysQuiet == Spec => []GoneIsQuiet
<1>1. EndInv => GoneIsQuiet
  <2>. SUFFICES ASSUME EndInv, owner = "gone"
                PROVE  /\ \A w \in Threads : pc[w] \in {"none", "exit"}
                       /\ queue = <<>> /\ asleep = {}
    BY DEF GoneIsQuiet
  <2>. USE WorkshopAssumption DEF EndInv, WakeInv, UnitsInv, TypeInv, TypeOK
  <2>1. ASSUME NEW w \in Threads PROVE pc[w] \in {"none", "exit"}
    <3>1. w <= n \/ w > n
        BY DEF Threads
    <3>. QED
        BY <3>1 DEF LifeInv, ThreadPlaces
  <2>2. queue = <<>>
    <3>. SUFFICES ASSUME queue # <<>> PROVE FALSE
        OBVIOUS
    <3>1. PICK u \in Units : status[u] = "pending"
      <4>1. 1 \in 1..Len(queue) /\ queue[1] \in Units
        OBVIOUS
      <4>. QED
        BY <4>1 DEF UnitsConserved
    <3>2. Batch[u] \in Clients /\ u \in Mine(Batch[u])
        BY DEF Mine
    <3>. QED
        BY <3>1, <3>2 DEF LifeInv, ClientsDone, FreedInv
  <2>3. asleep \cap Clients = {}
    BY <2>1, <2>2 DEF IdleSleepersAreOwedAWakeup, Holding
  <2>4. asleep \cap Threads = {}
    BY DEF NoLostWakeup, LifeInv
  <2>. QED
    BY <2>1, <2>2, <2>3, <2>4
<1>. QED
    BY <1>1, EndInvHolds, PTL

\* The program is terminated only by release_worker, with the workshop open,
\* or when wait_until_closed was called before: a workshop that is just
\* destroyed joins each of its threads once.
THEOREM TerminatedOnlyAfterMisuse == Spec => []TerminateOnlyAfterMisuse
BY EndInvHolds, PTL DEF EndInv, AbortInv
=============================================================================
