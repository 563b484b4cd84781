------------------------------ MODULE Workshop ------------------------------
(***************************************************************************)
(* eagine::workshop: a pool of worker threads that share one queue of work *)
(* units, one mutex and ONE condition variable, on which both the workers  *)
(* (for work) and the callers of wait_until_idle (for an empty queue)      *)
(* sleep.  Clients build an inplace_work_batch (every unit enqueues itself *)
(* in its constructor) and block in the batch's destructor on a latch; the *)
(* owner adds workers, shuts the workshop down and destroys it.            *)
(*                                                                         *)
(* A section of code that runs under _queue_lockable is one action.  What  *)
(* runs outside the mutex (do_it, the latch wait, join) are actions of     *)
(* their own.  _workers is not protected by the mutex: calls of add_worker *)
(* are taken not to overlap an enqueue into a workshop without workers.    *)
(***************************************************************************)
EXTENDS Integers, Sequences, FiniteSets

CONSTANTS
    Units,          \* work_unit objects
    Clients,        \* threads owning one inplace_work_batch each
    Batch,          \* the client in whose batch a unit lives
    None,           \* an empty optional_reference<work_unit>
    Hardware,       \* std::thread::hardware_concurrency()
    MaxWorkers,     \* bound: how many threads _workers may grow to
    MaxRetries      \* bound: how often do_it may return false, per unit

Threads == 1..MaxWorkers

\* The number of workers enqueue makes when there are none.
EnsuredWorkers == IF Hardware \div 2 > 2 THEN Hardware \div 2 ELSE 2

ASSUME WorkshopAssumption ==
    /\ IsFiniteSet(Units)
    /\ Batch \in [Units -> Clients]
    /\ None \notin Units
    /\ Hardware \in Nat
    /\ MaxWorkers \in Nat
    /\ EnsuredWorkers <= MaxWorkers
    /\ MaxRetries \in Nat
    /\ Threads \cap Clients = {}

VARIABLES
    queue,      \* _work_queue
    shutdown,   \* _shutdown
    n,          \* _workers.size(); the threads are 1..n
    asleep,     \* who is blocked in _cond.wait and was not notified
    pc,         \* per thread: its place in _employ
    work,       \* per thread: the optional reference _fetch returned
    last,       \* per thread: the shutdown flag _fetch returned
    cpc,        \* per client: its place in the life of its batch
    latch,      \* per client: the counter of _completed
    status,     \* per unit: raw, pending, delivered (latch counted) or freed
    retries,    \* per unit: how often do_it returned false
    owner,      \* the owner: open, closing, destroying, gone
    next,       \* the thread the loop of wait_until_closed is at
    joined,     \* the elements of _workers that are no longer joinable
    explicit,   \* history: was wait_until_closed called by the owner?
    aborted     \* std::terminate was called

sharedVars == <<queue, shutdown, n, asleep>>
workerVars == <<pc, work, last>>
clientVars == <<cpc, latch, status>>
ownerVars  == <<owner, next, joined, explicit, aborted>>
vars == <<sharedVars, workerVars, clientVars, retries, ownerVars>>

Mine(c) == {u \in Units : Batch[u] = c}

WorkerPlaces == {"none", "fetch", "wait", "run", "deliver", "requeue", "exit"}
ClientPlaces == {"build", "idle", "latch", "done"}
OwnerPlaces  == {"open", "closing", "destroying", "gone"}
Stages       == {"raw", "pending", "delivered", "freed"}

\* The unit a thread holds between _fetch and the end of deliver or enqueue.
Holding(w) == pc[w] \in {"run", "deliver", "requeue"}

ClientsDone == \A c \in Clients : cpc[c] = "done"

-----------------------------------------------------------------------------
BatchSizePlusOne(c) == Cardinality(Mine(c)) + 1     \* mutant of BatchSize

BatchSize(c) == Cardinality(Mine(c))

Init ==
    /\ queue = <<>>
    /\ shutdown = FALSE
    /\ n = 0
    /\ asleep = {}
    /\ pc = [w \in Threads |-> "none"]
    /\ work = [w \in Threads |-> None]
    /\ last = [w \in Threads |-> FALSE]
    /\ cpc = [c \in Clients |-> "build"]
    /\ latch = [c \in Clients |-> BatchSize(c)]
    /\ status = [u \in Units |-> "raw"]
    /\ retries = [u \in Units |-> 0]
    /\ owner = "open"
    /\ next = 1
    /\ joined = {}
    /\ explicit = FALSE
    /\ aborted = FALSE

-----------------------------------------------------------------------------
(* The condition variable.                                                 *)

NotifyNobody(sleepers) == {sleepers}    \* mutant of NotifyOne

\* One sleeper, any of them, is released; nobody if nobody sleeps.
NotifyOne(sleepers) ==
    IF sleepers = {} THEN {{}} ELSE {sleepers \ {p} : p \in sleepers}

NotifyAllForgotten == UNCHANGED asleep  \* mutant of NotifyAll

NotifyAll == asleep' = {}

\* The C++ standard lets a wait wake up without any notification.
SpuriousWakeup(p) ==
    /\ p \in asleep
    /\ asleep' = asleep \ {p}
    /\ UNCHANGED <<queue, shutdown, n, workerVars, clientVars, retries, ownerVars>>

-----------------------------------------------------------------------------
(* add_worker, add_workers, ensure_workers and populate.                   *)

\* The thread objects n+1..m are emplaced; each of them starts in _employ.
Started(m) == [w \in Threads |-> IF n < w /\ w <= m THEN "fetch" ELSE pc[w]]

EnsureWorkers(m) ==
    /\ n' = IF m > n THEN m ELSE n
    /\ pc' = Started(m)

AddWorkers(k) ==
    /\ owner = "open"
    /\ n + k \in Threads
    /\ EnsureWorkers(n + k)
    /\ UNCHANGED <<queue, shutdown, asleep, work, last, clientVars, retries, ownerVars>>

Populate ==
    /\ owner = "open"
    /\ Hardware <= MaxWorkers
    /\ EnsureWorkers(Hardware)
    /\ UNCHANGED <<queue, shutdown, asleep, work, last, clientVars, retries, ownerVars>>

\* The locked part of enqueue that touches the queue and the condition.
Push(u) ==
    /\ queue' = Append(queue, u)
    /\ asleep' \in NotifyOne(asleep)

-----------------------------------------------------------------------------
(* The worker threads: _employ and _fetch.                                 *)

KeepFront == queue      \* mutant of PopFront

PopFront == Tail(queue)

\* _fetch returns a unit together with the shutdown flag of that moment.
Take(w) ==
    /\ queue # <<>>
    /\ work' = [work EXCEPT ![w] = Head(queue)]
    /\ queue' = PopFront
    /\ last' = [last EXCEPT ![w] = shutdown]
    /\ pc' = [pc EXCEPT ![w] = "run"]
    /\ UNCHANGED asleep

\* _fetch returns no unit; the flag it returns is set, so _employ ends.
Leave(w) ==
    /\ shutdown
    /\ last' = [last EXCEPT ![w] = TRUE]
    /\ pc' = [pc EXCEPT ![w] = "exit"]
    /\ UNCHANGED <<queue, work, asleep>>

\* The predicate of _cond.wait is false: sleep, releasing the mutex.
Sleep(w) ==
    /\ queue = <<>>
    /\ ~shutdown
    /\ asleep' = asleep \cup {w}
    /\ pc' = [pc EXCEPT ![w] = "wait"]
    /\ UNCHANGED <<queue, work, last>>

\* Entry of _fetch: once _shutdown is set the queue is not looked at.
Fetch(w) ==
    /\ pc[w] = "fetch"
    /\ IF shutdown THEN Leave(w) ELSE Take(w) \/ Sleep(w)
    /\ UNCHANGED <<shutdown, n, clientVars, retries, ownerVars>>

\* Awake in _cond.wait: here the queue is looked at first.
Resume(w) ==
    /\ pc[w] = "wait"
    /\ w \notin asleep
    /\ \/ Take(w)
       \/ queue = <<>> /\ Leave(w)
       \/ Sleep(w)
    /\ UNCHANGED <<shutdown, n, clientVars, retries, ownerVars>>

\* work.do_it(), outside the mutex.
DoIt(w) ==
    /\ pc[w] = "run"
    /\ \/ /\ pc' = [pc EXCEPT ![w] = "deliver"]
          /\ UNCHANGED retries
       \/ /\ retries[work[w]] < MaxRetries
          /\ pc' = [pc EXCEPT ![w] = "requeue"]
          /\ retries' = [retries EXCEPT ![work[w]] = @ + 1]
    /\ UNCHANGED <<sharedVars, work, last, clientVars, ownerVars>>

\* The loop of _employ ends when the flag returned by _fetch was set.
AfterWork(w) == IF last[w] THEN "exit" ELSE "fetch"

\* deliver() counts the batch's latch down; then everybody is notified.
Deliver(w) ==
    /\ pc[w] = "deliver"
    /\ LET u == work[w] IN
        /\ status' = [status EXCEPT ![u] = "delivered"]
        /\ latch' = [latch EXCEPT ![Batch[u]] = @ - 1]
    /\ NotifyAll
    /\ pc' = [pc EXCEPT ![w] = AfterWork(w)]
    /\ work' = [work EXCEPT ![w] = None]
    /\ UNCHANGED <<queue, shutdown, n, last, cpc, retries, ownerVars>>

\* do_it returned false: the worker enqueues the unit again.
Requeue(w) ==
    /\ pc[w] = "requeue"
    /\ Push(work[w])
    /\ pc' = [pc EXCEPT ![w] = AfterWork(w)]
    /\ work' = [work EXCEPT ![w] = None]
    /\ UNCHANGED <<shutdown, n, last, clientVars, retries, ownerVars>>

Worker(w) == Fetch(w) \/ Resume(w) \/ DoIt(w) \/ Deliver(w) \/ Requeue(w)

-----------------------------------------------------------------------------
(* The clients: inplace_work_batch.                                        *)

\* emplace_back constructs one more unit, whose constructor enqueues it.
Enqueue(c) ==
    /\ cpc[c] = "build"
    /\ owner # "gone"
    /\ \E u \in Mine(c) :
        /\ status[u] = "raw"
        /\ status' = [status EXCEPT ![u] = "pending"]
        /\ Push(u)
    /\ EnsureWorkers(IF n = 0 THEN EnsuredWorkers ELSE n)
    /\ UNCHANGED <<shutdown, work, last, cpc, latch, retries, ownerVars>>

Built(c) == \A u \in Mine(c) : status[u] # "raw"

\* wait_until_idle: return if the queue is empty, else sleep (again).
WaitUntilIdle(c) ==
    /\ \/ cpc[c] = "build" /\ Built(c)
       \/ cpc[c] = "idle" /\ c \notin asleep
    /\ IF queue = <<>>
       THEN cpc' = [cpc EXCEPT ![c] = "latch"] /\ UNCHANGED asleep
       ELSE cpc' = [cpc EXCEPT ![c] = "idle"] /\ asleep' = asleep \cup {c}
    /\ UNCHANGED <<queue, shutdown, n, workerVars, latch, status, retries, ownerVars>>

\* The batch goes out of scope without a call of wait_until_idle.
LeaveScope(c) ==
    /\ cpc[c] = "build"
    /\ Built(c)
    /\ cpc' = [cpc EXCEPT ![c] = "latch"]
    /\ UNCHANGED <<sharedVars, workerVars, latch, status, retries, ownerVars>>

AlwaysCompleted(c) == TRUE      \* mutant of Completed

Completed(c) == latch[c] = 0

\* ~inplace_work_batch: wait for the latch, then free the vector of units.
DestroyBatch(c) ==
    /\ cpc[c] = "latch"
    /\ Completed(c)
    /\ status' = [u \in Units |-> IF Batch[u] = c THEN "freed" ELSE status[u]]
    /\ cpc' = [cpc EXCEPT ![c] = "done"]
    /\ UNCHANGED <<sharedVars, workerVars, latch, retries, ownerVars>>

Client(c) == Enqueue(c) \/ WaitUntilIdle(c) \/ LeaveScope(c) \/ DestroyBatch(c)

-----------------------------------------------------------------------------
(* The owner: shutdown, wait_until_closed, release_worker, ~workshop.      *)

SetShutdown ==
    /\ shutdown' = TRUE
    /\ NotifyAll

Shutdown ==
    /\ owner \in {"open", "closing"}
    /\ ~shutdown
    /\ SetShutdown
    /\ UNCHANGED <<queue, n, workerVars, clientVars, retries, ownerVars>>

\* An explicit call of wait_until_closed; shutdown may come from elsewhere.
\* The loop is over the threads there are at the call.
WaitUntilClosed ==
    /\ owner = "open"
    /\ n > 0
    /\ owner' = "closing"
    /\ next' = 1
    /\ explicit' = TRUE
    /\ UNCHANGED <<sharedVars, workerVars, clientVars, retries, joined, aborted>>

\* ~workshop: shutdown() and then wait_until_closed(); the clients are gone.
DestroyWorkshop ==
    /\ owner = "open"
    /\ ClientsDone
    /\ SetShutdown
    /\ owner' = "destroying"
    /\ next' = 1
    /\ UNCHANGED <<queue, n, workerVars, clientVars, retries, joined, explicit, aborted>>

NeedNotExit(w) == TRUE      \* mutant of HasExited

HasExited(w) == pc[w] = "exit"

SameThread == next          \* mutant of NextThread

NextThread == next + 1

\* One iteration of the join loop.  join on a thread that was joined before
\* throws out of the noexcept function wait_until_closed.
Join ==
    /\ owner \in {"closing", "destroying"}
    /\ next <= n
    /\ IF next \in joined
       THEN aborted' = TRUE /\ UNCHANGED <<next, joined>>
       ELSE /\ HasExited(next)
            /\ joined' = joined \cup {next}
            /\ next' = NextThread
            /\ UNCHANGED aborted
    /\ UNCHANGED <<sharedVars, workerVars, clientVars, retries, owner, explicit>>

Closed ==
    /\ owner \in {"closing", "destroying"}
    /\ next > n
    /\ owner' = IF owner = "closing" THEN "open" ELSE "gone"
    /\ UNCHANGED <<sharedVars, workerVars, clientVars, retries, next, joined, explicit, aborted>>

\* pop_back destroys the last std::thread: std::terminate if it is joinable.
ReleaseWorker ==
    /\ owner = "open"
    /\ n > 0
    /\ IF n \in joined
       THEN /\ n' = n - 1
            /\ joined' = joined \ {n}
            /\ pc' = [pc EXCEPT ![n] = "none"]
            /\ UNCHANGED aborted
       ELSE aborted' = TRUE /\ UNCHANGED <<n, joined, pc>>
    /\ UNCHANGED <<queue, shutdown, asleep, work, last, clientVars, retries, owner, next, explicit>>

Owner ==
    \/ \E k \in 1..MaxWorkers : AddWorkers(k)
    \/ Populate
    \/ Shutdown
    \/ WaitUntilClosed
    \/ DestroyWorkshop
    \/ Join
    \/ Closed
    \/ ReleaseWorker

-----------------------------------------------------------------------------
\* The process has ended, in an orderly way or by std::terminate.
Ended ==
    /\ aborted \/ owner = "gone"
    /\ UNCHANGED vars

Next ==
    \/ /\ ~aborted
       /\ \/ \E w \in Threads : Worker(w)
          \/ \E c \in Clients : Client(c)
          \/ \E p \in Threads \cup Clients : SpuriousWakeup(p)
          \/ Owner
    \/ Ended

-----------------------------------------------------------------------------
\* The threads run, the clients leave their scopes and the join loop goes on
\* when it can; nobody is obliged to call shutdown or the destructor.
Fairness ==
    /\ \A w \in Threads : WF_vars(~aborted /\ Worker(w))
    /\ \A c \in Clients : WF_vars(~aborted /\ Client(c))
    /\ WF_vars(~aborted /\ (Join \/ Closed))

Spec == Init /\ [][Next]_vars

FairSpec == Spec /\ Fairness

-----------------------------------------------------------------------------
(* Properties.                                                             *)

TypeOK ==
    /\ queue \in Seq(Units)
    /\ shutdown \in BOOLEAN
    /\ n \in 0..MaxWorkers
    /\ asleep \subseteq Threads \cup Clients
    /\ pc \in [Threads -> WorkerPlaces]
    /\ work \in [Threads -> Units \cup {None}]
    /\ last \in [Threads -> BOOLEAN]
    /\ cpc \in [Clients -> ClientPlaces]
    /\ latch \in [Clients -> Int]
    /\ status \in [Units -> Stages]
    /\ retries \in [Units -> 0..MaxRetries]
    /\ owner \in OwnerPlaces
    /\ next \in 1..(MaxWorkers + 1)
    /\ joined \subseteq Threads
    /\ explicit \in BOOLEAN
    /\ aborted \in BOOLEAN

Queued(u) == \E i \in 1..Len(queue) : queue[i] = u

\* _employ, enqueue and ~inplace_work_batch: a unit that was submitted and
\* not delivered is in exactly one place, the queue or the hands of one
\* worker, and nobody refers to a unit that is delivered or whose batch has
\* freed it (no unit is lost, run twice at a time, or used after its end).
UnitsConserved ==
    /\ \A i, j \in 1..Len(queue) : queue[i] = queue[j] => i = j
    /\ \A v, w \in Threads :
        Holding(v) /\ Holding(w) /\ work[v] = work[w] => v = w
    /\ \A w \in Threads : Holding(w) =>
        work[w] \in Units /\ status[work[w]] = "pending" /\ ~Queued(work[w])
    /\ \A i \in 1..Len(queue) : status[queue[i]] = "pending"
    /\ \A u \in Units : status[u] = "pending" =>
        Queued(u) \/ \E w \in Threads : Holding(w) /\ work[w] = u

\* latched_work_unit::deliver and ~inplace_work_batch: the latch counts the
\* units that are not delivered, so that it neither opens early nor goes
\* below zero, and a batch whose owner got past it has no unit outstanding.
LatchCountsUndelivered ==
    /\ \A c \in Clients :
        latch[c] = Cardinality({u \in Mine(c) : status[u] \in {"raw", "pending"}})
    /\ \A u \in Units : status[u] = "freed" => cpc[Batch[u]] = "done"

\* One condition variable serves workers and idle waiters, and enqueue wakes
\* one sleeper, possibly the wrong one.  Still: while there is work in an open
\* workshop some worker is awake, and no worker sleeps through a shutdown.
NoLostWakeup ==
    /\ ~shutdown /\ queue # <<>> =>
        \E w \in Threads : w <= n /\ w \notin asleep /\ pc[w] # "exit"
    /\ shutdown => asleep \cap Threads = {}

\* A caller sleeping in wait_until_idle is owed a notification: the queue is
\* not empty or a worker has yet to deliver (or requeue) what it holds.
IdleSleepersAreOwedAWakeup ==
    asleep \cap Clients # {} => queue # <<>> \/ \E w \in Threads : Holding(w)

\* ~workshop returns only when every thread has left _employ, and then
\* nothing refers to the queue, the mutex or the condition variable.
GoneIsQuiet ==
    owner = "gone" =>
        /\ \A w \in Threads : pc[w] \in {"none", "exit"}
        /\ queue = <<>>
        /\ asleep = {}

\* std::terminate is reached only from release_worker on a worker that runs,
\* or by joining again what an explicit wait_until_closed has joined; a
\* workshop that is just destroyed never ends the program.
TerminateOnlyAfterMisuse ==
    aborted => owner = "open" \/ explicit

\* The workshop keeps the contract of WorkBatches.
Contract == INSTANCE WorkBatches WITH Units <- Units, Clients <- Clients, Batch <- Batch, status <- status
KeepsContract == Contract!Spec

\* A client that waits, for idleness or in ~inplace_work_batch, gets through
\* when nobody shuts the workshop down under it.
BatchesComplete ==
    \A c \in Clients :
        cpc[c] \in {"idle", "latch"} ~> cpc[c] = "done" \/ shutdown \/ aborted

\* After shutdown, wait_until_closed and ~workshop return, whatever work is
\* queued or running: every thread leaves _employ.
ShutdownCloses ==
    shutdown /\ owner \in {"closing", "destroying"} ~>
        owner \in {"open", "gone"} \/ aborted
=============================================================================
