----------------------------- MODULE Scheduler -----------------------------
(***************************************************************************)
(* action_scheduler: actions repeated at an interval, run from update().   *)
(* update visits the entries in the order of their ids and samples the     *)
(* clock once for each; an entry that is late is served once for every     *)
(* interval that has passed.  An action takes time, may fail, and may      *)
(* suspend and resume entries; an action that adds or removes entries      *)
(* would change the vector being iterated, which callers must not do.      *)
(***************************************************************************)
EXTENDS Integers

CONSTANTS
    Ids,            \* identifiers, ordered as flat_map orders them
    Intervals,      \* the intervals actions are scheduled with
    MaxTime         \* bound: how far the clock goes

ASSUME SchedulerAssumption ==
    /\ Ids \subseteq Int
    /\ Intervals \subseteq Nat \ {0}
    /\ MaxTime \in Nat

VARIABLES
    time,           \* steady_clock::now()
    repeated,       \* _repeated, a function on the ids that are scheduled
    place,          \* "idle", or in update: "visit", "loop", "action"
    rest,           \* the entries update has not visited yet
    current,        \* the entry update is at
    now, overdue,   \* the parameter and the variable of _scheduled::update
    began           \* history: when update was called

vars == <<time, repeated, place, rest, current, now, overdue, began>>

\* An entry; start and the counters after it are history: how often the action
\* ran, how often it failed, and the intervals skipped after a failure or
\* spent in suspension.
Scheduled == [next : Int, interval : Intervals, fail_counter : Nat, is_suspended : BOOLEAN,
              start : Int, ran : Nat, failed : Nat, skipped : Nat, slept : Nat]

Init ==
    /\ time = 0
    /\ repeated = [id \in {} |-> {}]
    /\ place = "idle"
    /\ rest = {}
    /\ current = 0
    /\ now = 0
    /\ overdue = -1
    /\ began = 0

Tick ==
    /\ time < MaxTime
    /\ time' = time + 1
    /\ UNCHANGED <<repeated, place, rest, current, now, overdue, began>>

-----------------------------------------------------------------------------
(* The operations of the owner; has_scheduled and is_suspend only look.    *)

\* An entry there is under the id is replaced, with its failures.
ScheduleRepeated(id, i) ==
    /\ place = "idle"
    /\ repeated' = [x \in DOMAIN repeated \cup {id} |->
                        IF x = id
                        THEN [next |-> time + i, interval |-> i, fail_counter |-> 0,
                              is_suspended |-> FALSE, start |-> time, ran |-> 0,
                              failed |-> 0, skipped |-> 0, slept |-> 0]
                        ELSE repeated[x]]
    /\ UNCHANGED <<time, place, rest, current, now, overdue, began>>

Remove(id) ==
    /\ place = "idle"
    /\ repeated' = [x \in DOMAIN repeated \ {id} |-> repeated[x]]
    /\ UNCHANGED <<time, place, rest, current, now, overdue, began>>

\* suspend and resume, also from within an action; both return whether they
\* changed anything.
SetSuspended(id, b) ==
    /\ place \in {"idle", "action"}
    /\ id \in DOMAIN repeated
    /\ repeated[id].is_suspended # b
    /\ repeated' = [repeated EXCEPT ![id].is_suspended = b]
    /\ UNCHANGED <<time, place, rest, current, now, overdue, began>>

-----------------------------------------------------------------------------
(* update.                                                                 *)

Update ==
    /\ place = "idle"
    /\ place' = "visit"
    /\ rest' = DOMAIN repeated
    /\ began' = time
    /\ UNCHANGED <<time, repeated, current, now, overdue>>

VisitAgain == rest          \* mutant of Unvisited

Unvisited == rest \ {current'}

\* The next entry of the vector; the clock is read for each of them.
Visit ==
    /\ place = "visit"
    /\ current' \in {id \in rest : \A x \in rest : id <= x}
    /\ rest' = Unvisited
    /\ now' = time
    /\ overdue' = time - repeated[current'].next
    /\ place' = "loop"
    /\ UNCHANGED <<time, repeated, began>>

Return ==
    /\ place = "visit"
    /\ rest = {}
    /\ place' = "idle"
    /\ UNCHANGED <<time, repeated, rest, current, now, overdue, began>>

IsPastDue == overdue > 0    \* mutant of IsDue

IsDue == overdue >= 0

Entry == repeated[current]

ShouldInvoke == Entry.fail_counter = 0 /\ ~Entry.is_suspended

FromNow == now + Entry.interval             \* mutant of NextTime

\* next = now + interval - overdue, so lateness does not add up.
NextTime == now + Entry.interval - overdue

\* The rest of the loop's body, after the action has run or not.
Advance(entry) ==
    /\ repeated' = [repeated EXCEPT ![current] = [entry EXCEPT !.next = NextTime]]
    /\ overdue' = overdue - Entry.interval
    /\ place' = "loop"
    /\ UNCHANGED <<time, rest, current, now, began>>

Invoke ==
    /\ place = "loop"
    /\ IsDue
    /\ ShouldInvoke
    /\ place' = "action"
    /\ UNCHANGED <<time, repeated, rest, current, now, overdue, began>>

\* should_invoke is false: a failure before, or the entry is suspended.
CountDown ==
    IF Entry.fail_counter # 0
    THEN [Entry EXCEPT !.fail_counter = @ - 1, !.skipped = @ + 1]
    ELSE [Entry EXCEPT !.slept = @ + 1]

Skip ==
    /\ place = "loop"
    /\ IsDue
    /\ ~ShouldInvoke
    /\ Advance(CountDown)

Succeed ==
    /\ place = "action"
    /\ Advance([Entry EXCEPT !.fail_counter = 0, !.ran = @ + 1])

\* Mutant of Failed: the failure is not counted.
FailedUncounted == [Entry EXCEPT !.failed = @ + 1, !.ran = @ + 1]

Failed == [Entry EXCEPT !.fail_counter = @ + 1, !.failed = @ + 1, !.ran = @ + 1]

Fail ==
    /\ place = "action"
    /\ Advance(Failed)

EntryDone ==
    /\ place = "loop"
    /\ ~IsDue
    /\ place' = "visit"
    /\ UNCHANGED <<time, repeated, rest, current, now, overdue, began>>

Step == Visit \/ Return \/ Invoke \/ Skip \/ Succeed \/ Fail \/ EntryDone

Next ==
    \/ Tick
    \/ \E id \in Ids, i \in Intervals : ScheduleRepeated(id, i)
    \/ \E id \in Ids : Remove(id)
    \/ \E id \in Ids, b \in BOOLEAN : SetSuspended(id, b)
    \/ Update
    \/ Step

Spec == Init /\ [][Next]_vars

\* Actions return; nobody has to call update.
FairSpec == Spec /\ WF_vars(Step)

-----------------------------------------------------------------------------
(* Properties.                                                             *)

TypeOK ==
    /\ time \in Nat
    /\ DOMAIN repeated \subseteq Ids
    /\ \A id \in DOMAIN repeated : repeated[id] \in Scheduled
    /\ place \in {"idle", "visit", "loop", "action"}
    /\ rest \subseteq DOMAIN repeated
    /\ place \in {"loop", "action"} => current \in DOMAIN repeated
    /\ {now, overdue, began} \subseteq Int

\* _scheduled::update: however late update is called and however long the
\* actions take, the times stay on the grid that begins where the action was
\* scheduled, every interval is served exactly once, by running the action,
\* skipping it or leaving it suspended, and none before its time.
IntervalsServedOnce ==
    \A id \in DOMAIN repeated :
        LET e == repeated[id] IN
        /\ e.next = e.start + (e.ran + e.skipped + e.slept + 1) * e.interval
        /\ e.next <= time + e.interval

\* should_invoke and invoke: a failure costs exactly one interval, no matter
\* how many failures there were before it, and never more.
FailureCostsOneInterval ==
    \A id \in DOMAIN repeated :
        /\ repeated[id].fail_counter <= 1
        /\ repeated[id].skipped + repeated[id].fail_counter = repeated[id].failed

\* update calls all the actions that are due: an entry it is done with is
\* ahead of the time update was called at.
NothingOverdueIsLeft ==
    place = "visit" => \A id \in DOMAIN repeated \ rest : repeated[id].next > began

\* update returns, also when an action takes longer than its interval, since
\* the clock is not read again in the loop.
UpdateReturns == place # "idle" ~> place = "idle"
=============================================================================
