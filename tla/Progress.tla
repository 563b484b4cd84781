------------------------------ MODULE Progress ------------------------------
(***************************************************************************)
(* The default progress tracker: activities of several threads in one map, *)
(* one observer, and a callback through which the activities are canceled. *)
(* The map, the observer and the id sequence are used under _mutex; the    *)
(* info of an activity, _last_call and _keep_going are used without it.    *)
(* A section under the mutex is one action.                                *)
(*                                                                         *)
(* The id of an activity is the address of its info in the std::map, and   *)
(* an address is used again once its activity has finished.  Callers make  *)
(* one call at a time on an activity, and finish a sub-activity before its *)
(* parent; the callback is replaced only while no thread is about to use   *)
(* it (it is a plain pair of pointers).  An observer does not call back.   *)
(***************************************************************************)
EXTENDS Integers, TLC

CONSTANTS
    Threads,        \* threads that track activities
    Slots,          \* activity_progress objects; a finished one is used anew
    Root,           \* the root activity, which has the id 0
    Observers,      \* progress_observer objects
    None,           \* an empty optional_reference<progress_observer>
    Addresses,      \* addresses of the nodes of _activities
    IdLimit,        \* _id_sequence counts modulo IdLimit (2^64 in the code)
    Totals          \* the total steps activities are begun with

ASSUME ProgressAssumption ==
    /\ Root \notin Slots
    /\ None \notin Observers
    /\ Addresses \subseteq Nat \ {0}
    /\ IdLimit \in Nat \ {0}
    /\ Totals \subseteq Nat

VARIABLES
    activities,     \* _activities, by the address of the node
    sequence,       \* _id_sequence
    observer,       \* _observer
    callback,       \* is _callback set?
    keepGoing,      \* _keep_going
    id,             \* _activity_id of each object, 0 if it tracks nothing
    parent,         \* history: under which object an object's activity began
    pc,             \* per thread: its place in a call
    at,             \* per thread: the object of the call
    amount,         \* per thread: the argument of update_progress, or Advance
    going,          \* per thread: the value about to be stored in _keep_going
    view,           \* per observer that is registered: what it was told
    told,           \* history: some call has returned "canceled"
    overlapped      \* history: two threads were in the callback at once

trackerVars == <<activities, sequence, observer>>
cancelVars == <<callback, keepGoing, going, told, overlapped>>
callVars == <<pc, at, amount>>
vars == <<trackerVars, cancelVars, callVars, id, parent, view>>

Advance == -1

\* default_progress_info, without title, log level and what is kept for logs.
Info == [map_id : 0..(IdLimit - 1), parent_id : Addresses \cup {0}, curr_steps : Nat,
         total_steps : Totals \cup {0}]

Report(p, c, n) == [parent |-> p, current |-> c, total |-> n]
Reports == [parent : Addresses \cup {0}, current : Nat \cup {-1}, total : Totals \cup {0}]
Unknown == Report(0, -1, 0)

Live == {s \in Slots : id[s] # 0}
IdOf(s) == IF s = Root THEN 0 ELSE id[s]
Busy(s) == \E t \in Threads : pc[t] # "idle" /\ at[t] = s
Ending(s) == \E t \in Threads : pc[t] = "finish" /\ at[t] = s

\* The call returns, and with it go its parameters.
Done(t) ==
    /\ pc' = [pc EXCEPT ![t] = "idle"]
    /\ at' = [at EXCEPT ![t] = Root]
    /\ amount' = [amount EXCEPT ![t] = Advance]

Init ==
    /\ activities = [a \in {} |-> {}]
    /\ sequence = 0
    /\ observer = None
    /\ callback = FALSE
    /\ keepGoing = TRUE
    /\ id = [s \in Slots |-> 0]
    /\ parent = [s \in Slots |-> Root]
    /\ pc = [t \in Threads |-> "idle"]
    /\ at = [t \in Threads |-> Root]
    /\ amount = [t \in Threads |-> Advance]
    /\ going = [t \in Threads |-> TRUE]
    /\ view = [o \in Observers |-> [a \in {} |-> Unknown]]
    /\ told = FALSE
    /\ overlapped = FALSE

-----------------------------------------------------------------------------
(* The observer.                                                           *)

\* What the registered observer knows after it was told r of the address a.
Notified(a, r) ==
    [o \in Observers |->
        IF o # observer THEN view[o]
        ELSE [x \in DOMAIN view[o] \cup {a} |-> IF x = a THEN r ELSE view[o][x]]]

Dismissed(a) ==
    [o \in Observers |->
        IF o # observer THEN view[o]
        ELSE [x \in DOMAIN view[o] \ {a} |-> view[o][x]]]

\* It was told nothing yet of the activities there are.
Register(o) ==
    /\ observer = None
    /\ observer' = o
    /\ view' = [view EXCEPT ![o] = [a \in DOMAIN activities |-> Unknown]]
    /\ UNCHANGED <<activities, sequence, cancelVars, callVars, id, parent>>

Unregister(o) ==
    /\ observer = o
    /\ observer' = None
    /\ view' = [view EXCEPT ![o] = [a \in {} |-> Unknown]]
    /\ UNCHANGED <<activities, sequence, cancelVars, callVars, id, parent>>

-----------------------------------------------------------------------------
(* begin_activity.                                                         *)

MapIds == {activities[a].map_id : a \in DOMAIN activities}

\* Mutant of IsFree: the sequence was assumed never to come round.
IsNotZero(i) == i # 0

IsFree(i) == i # 0 /\ i \notin MapIds

Nth(d) == (sequence + d) % IdLimit

\* The first free one after _id_sequence; with none left the loop has no end.
NextIds ==
    {Nth(d) : d \in {d \in 1..IdLimit : IsFree(Nth(d)) /\ \A e \in 1..(d - 1) : ~IsFree(Nth(e))}}

\* _activities[i]: the node with that key, or a new one anywhere.
NodesOf(i) ==
    IF i \in MapIds
    THEN {a \in DOMAIN activities : activities[a].map_id = i}
    ELSE Addresses \ DOMAIN activities

NewInfo(i) == [map_id |-> i, parent_id |-> 0, curr_steps |-> 0, total_steps |-> 0]

\* The section under the mutex; the rest of the info is filled in after it.
BeginActivity(t, s, p, n) ==
    /\ pc[t] = "idle"
    /\ id[s] = 0 /\ ~Busy(s)
    /\ p = Root \/ (p \in Live /\ ~Ending(p))
    /\ \E i \in NextIds : \E a \in NodesOf(i) :
        /\ sequence' = i
        /\ activities' = [x \in DOMAIN activities \cup {a} |->
                            IF x \in DOMAIN activities THEN activities[x] ELSE NewInfo(i)]
        /\ id' = [id EXCEPT ![s] = a]
        /\ view' = Notified(a, Report(IdOf(p), 0, n))
    /\ parent' = [parent EXCEPT ![s] = p]
    /\ pc' = [pc EXCEPT ![t] = "fill"]
    /\ at' = [at EXCEPT ![t] = s]
    /\ amount' = [amount EXCEPT ![t] = n]
    /\ UNCHANGED <<observer, cancelVars>>

\* Mutant of Filled: the parent is forgotten.
FilledWithoutParent(info, p, n) == [info EXCEPT !.total_steps = n]

Filled(info, p, n) == [info EXCEPT !.total_steps = n, !.parent_id = p]

FillIn(t) ==
    /\ pc[t] = "fill"
    /\ activities' = [activities EXCEPT
                        ![id[at[t]]] = Filled(@, IdOf(parent[at[t]]), amount[t])]
    /\ Done(t)
    /\ UNCHANGED <<sequence, observer, cancelVars, id, parent, view>>

-----------------------------------------------------------------------------
(* update_progress and advance_progress.                                   *)

InCallback == {t \in Threads : pc[t] \in {"callback", "store"}}

\* _call_back: a callback there is is called if the last call was more than
\* _min_interval ago.  _last_call is read and set without a lock, and time
\* passes in a callback, so the last call need not have returned.  That
\* nobody advances beyond the total is a bound of the model.
UpdateProgress(t, s, k) ==
    /\ pc[t] = "idle"
    /\ s = Root \/ (s \in Live /\ ~Busy(s))
    /\ s \in Slots /\ k = Advance => activities[id[s]].curr_steps < activities[id[s]].total_steps
    /\ \/ /\ pc' = [pc EXCEPT ![t] = "update"]
          /\ UNCHANGED overlapped
       \/ /\ callback
          /\ pc' = [pc EXCEPT ![t] = "callback"]
          /\ overlapped' = (overlapped \/ InCallback # {})
    /\ at' = [at EXCEPT ![t] = s]
    /\ amount' = [amount EXCEPT ![t] = k]
    /\ UNCHANGED <<trackerVars, callback, keepGoing, going, told, id, parent, view>>

KeepGoingAnyway(go) == go               \* mutant of AndKeepGoing

AndKeepGoing(go) == go /\ keepGoing

\* The callback returns; then _keep_going is loaded and, later, stored.
CallBack(t) ==
    /\ pc[t] = "callback"
    /\ \E go \in BOOLEAN : going' = [going EXCEPT ![t] = AndKeepGoing(go)]
    /\ pc' = [pc EXCEPT ![t] = "store"]
    /\ UNCHANGED <<trackerVars, callback, keepGoing, told, overlapped, at, amount,
                   id, parent, view>>

StoreKeepGoing(t) ==
    /\ pc[t] = "store"
    /\ keepGoing' = going[t]
    /\ going' = [going EXCEPT ![t] = TRUE]
    /\ pc' = [pc EXCEPT ![t] = "update"]
    /\ UNCHANGED <<trackerVars, callback, told, overlapped, at, amount, id, parent,
                   view>>

Current(info, k) == IF k = Advance THEN info.curr_steps + 1 ELSE k

\* _update up to the lock; the root has no info.
SetSteps(t) ==
    /\ pc[t] = "update"
    /\ IF at[t] = Root
       THEN /\ pc' = [pc EXCEPT ![t] = "return"]
            /\ UNCHANGED activities
       ELSE /\ activities' = [activities EXCEPT ![id[at[t]]].curr_steps =
                                Current(activities[id[at[t]]], amount[t])]
            /\ pc' = [pc EXCEPT ![t] = "notify"]
    /\ UNCHANGED <<sequence, observer, cancelVars, at, amount, id, parent, view>>

ReportOf(info) == Report(info.parent_id, info.curr_steps, info.total_steps)

NotifyObserver(t) ==
    /\ pc[t] = "notify"
    /\ view' = Notified(id[at[t]], ReportOf(activities[id[at[t]]]))
    /\ pc' = [pc EXCEPT ![t] = "return"]
    /\ UNCHANGED <<trackerVars, cancelVars, at, amount, id, parent>>

\* return _keep_going
Return(t) ==
    /\ pc[t] = "return"
    /\ told' = (told \/ ~keepGoing)
    /\ Done(t)
    /\ UNCHANGED <<trackerVars, callback, keepGoing, going, overlapped, id, parent,
                   view>>

-----------------------------------------------------------------------------
(* finish_activity, explicitly or from the destructor.                     *)

FinishActivity(t, s) ==
    /\ pc[t] = "idle"
    /\ s \in Live /\ ~Busy(s)
    /\ \A c \in Live : parent[c] # s
    /\ activities' = [activities EXCEPT ![id[s]].curr_steps = activities[id[s]].total_steps]
    /\ pc' = [pc EXCEPT ![t] = "finish"]
    /\ at' = [at EXCEPT ![t] = s]
    /\ UNCHANGED <<sequence, observer, cancelVars, amount, id, parent, view>>

\* The section under the mutex, and the reset of the object's backend.
Erase(t) ==
    /\ pc[t] = "finish"
    /\ LET a == id[at[t]] IN
        /\ view' = Dismissed(a)
        /\ activities' = [x \in {y \in DOMAIN activities :
                                    activities[y].map_id # activities[a].map_id} |->
                            activities[x]]
    /\ id' = [id EXCEPT ![at[t]] = 0]
    /\ parent' = [parent EXCEPT ![at[t]] = Root]
    /\ Done(t)
    /\ UNCHANGED <<sequence, observer, cancelVars>>

-----------------------------------------------------------------------------
(* set_update_callback and reset_update_callback.                           *)

SetCallback(b) ==
    /\ callback # b
    /\ \A t \in Threads : pc[t] # "callback"
    /\ callback' = b
    /\ UNCHANGED <<trackerVars, keepGoing, going, told, overlapped, callVars, id,
                   parent, view>>

-----------------------------------------------------------------------------
Activity(t) ==
    \/ \E s \in Slots, p \in Slots \cup {Root}, n \in Totals : BeginActivity(t, s, p, n)
    \/ FillIn(t)
    \/ \E s \in Slots \cup {Root}, k \in {0, Advance} : UpdateProgress(t, s, k)
    \/ CallBack(t) \/ StoreKeepGoing(t)
    \/ SetSteps(t) \/ NotifyObserver(t) \/ Return(t)
    \/ \E s \in Slots : FinishActivity(t, s)
    \/ Erase(t)

Next ==
    \/ \E t \in Threads : Activity(t)
    \/ \E o \in Observers : Register(o) \/ Unregister(o)
    \/ \E b \in BOOLEAN : SetCallback(b)

Spec == Init /\ [][Next]_vars

-----------------------------------------------------------------------------
(* Properties.                                                             *)

TypeOK ==
    /\ DOMAIN activities \subseteq Addresses
    /\ activities \in [DOMAIN activities -> Info]
    /\ sequence \in 0..(IdLimit - 1)
    /\ observer \in Observers \cup {None}
    /\ callback \in BOOLEAN /\ keepGoing \in BOOLEAN
    /\ id \in [Slots -> Addresses \cup {0}]
    /\ parent \in [Slots -> Slots \cup {Root}]
    /\ pc \in [Threads -> {"idle", "fill", "callback", "store", "update", "notify", "return",
                           "finish"}]
    /\ at \in [Threads -> Slots \cup {Root}]
    /\ amount \in [Threads -> Totals \cup {0, Advance}]
    /\ going \in [Threads -> BOOLEAN]
    /\ told \in BOOLEAN /\ overlapped \in BOOLEAN
    /\ DOMAIN view = Observers
    /\ \A o \in Observers : view[o] \in [DOMAIN view[o] -> Reports]

\* _decode turns an id into a reference to the info it is the address of: the
\* id of every object that tracks an activity is that of a node still in the
\* map, and no two objects share one, although addresses and keys come round.
IdsAreAlive ==
    /\ \A s \in Live : id[s] \in DOMAIN activities
    /\ \A r, s \in Live : id[r] = id[s] => r = s

\* Whatever the order of the threads' calls and of its registration, the
\* registered observer knows of exactly the activities there are, and of each
\* one that no call is under way for it was last told the steps it has, and
\* the id of the activity it was begun under.
ObserverIsRight ==
    observer # None =>
        /\ DOMAIN view[observer] = DOMAIN activities
        /\ \A s \in Live : ~Busy(s) /\ view[observer][id[s]] # Unknown =>
            view[observer][id[s]] = Report(IdOf(parent[s]), activities[id[s]].curr_steps,
                                           activities[id[s]].total_steps)

\* After a call has returned "canceled" the activities stay canceled, unless
\* a thread was in the callback at the same time as another.
RevivedOnlyByOverlap == told /\ keepGoing => overlapped

\* "false means that the activity was canceled and should discontinue": what
\* one call was told is true of all the later ones.
CanceledStaysCanceled == told => ~keepGoing

\* Threads, objects and observers are interchangeable: no property tells two of
\* them apart.
Symmetry == Permutations(Threads) \cup Permutations(Slots) \cup Permutations(Observers)
=============================================================================
