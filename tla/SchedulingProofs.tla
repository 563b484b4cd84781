-------------------------- MODULE SchedulingProofs --------------------------
(***************************************************************************)
(* Proofs about what a main loop runs.  First the Scheduler, for every set *)
(* of ids and of positive intervals: no interval is lost, served twice or  *)
(* served early.  Then Signals, for any slots, bindings, keys and          *)
(* switches: the handlers and what was said agree, keys name their slots   *)
(* and calls reach every slot.                                             *)
(***************************************************************************)
EXTENDS MCScheduling, NumberFacts, SequenceTheorems

(***************************************************************************)
(* The scheduler.                                                          *)
(***************************************************************************)

Updating == place \in {"loop", "action"}

(***************************************************************************)
(* In the loop, overdue says how far the entry's next time lies before the *)
(* clock that was sampled, an action runs only when that is not negative   *)
(* and no failure is pending, and the entries visited before are ahead.    *)
(***************************************************************************)
LoopInv ==
    /\ began <= time
    /\ place = "idle" => rest = {}
    /\ Updating =>
        /\ began <= now /\ now <= time
        /\ repeated[current].next = now - overdue
        /\ \A id \in DOMAIN repeated \ rest : id # current => repeated[id].next > began
    /\ place = "action" => overdue >= 0 /\ repeated[current].fail_counter = 0

Inv == TypeOK /\ IntervalsServedOnce /\ FailureCostsOneInterval /\ NothingOverdueIsLeft /\ LoopInv

-----------------------------------------------------------------------------
\* The grid of an entry: one more interval.
LEMMA NextInterval ==
    ASSUME NEW k \in Int, NEW i \in Int PROVE (k + 1 + 1) * i = (k + 1) * i + i
OBVIOUS

\* schedule_repeated is called with positive intervals.
LEMMA PositiveIntervals == \A i \in Intervals : i \in Int /\ i > 0
<1>1. Intervals \subseteq Nat \ {0}
    BY SchedulerAssumption, Zenon
<1>. QED
    BY <1>1

\* The members of a _scheduled.
LEMMA Fields ==
    ASSUME NEW e \in Scheduled
    PROVE  /\ e.interval \in Int /\ e.interval > 0 /\ e.next \in Int /\ e.start \in Int
           /\ e.ran \in Nat /\ e.skipped \in Nat /\ e.slept \in Nat
           /\ e.failed \in Nat /\ e.fail_counter \in Nat
<1>1. e.interval \in Intervals
    BY DEF Scheduled
<1>2. e.interval \in Int /\ e.interval > 0
    BY <1>1, PositiveIntervals
<1>. QED
    BY <1>2 DEF Scheduled

\* What the invariant says of one entry.
Good(e) ==
    /\ e \in Scheduled
    /\ e.next = e.start + (e.ran + e.skipped + e.slept + 1) * e.interval
    /\ e.next <= time + e.interval
    /\ e.fail_counter <= 1
    /\ e.skipped + e.fail_counter = e.failed

\* The invariant holds of every entry of _repeated.
LEMMA AllGood ==
    ASSUME Inv PROVE \A id \in DOMAIN repeated : Good(repeated[id])
BY DEF Inv, TypeOK, IntervalsServedOnce, FailureCostsOneInterval, Good

\* One more interval of an entry is accounted for.
Served(e, f) ==
    /\ f \in Scheduled
    /\ f.next = e.next + e.interval
    /\ f.interval = e.interval /\ f.start = e.start
    /\ f.ran + f.skipped + f.slept = e.ran + e.skipped + e.slept + 1
    /\ f.fail_counter <= 1
    /\ f.skipped + f.fail_counter = f.failed

\* Serving an interval that has begun keeps an entry on its grid.
LEMMA ServedIsGood ==
    ASSUME NEW e, NEW f, Good(e), Served(e, f), time \in Int, e.next <= time
    PROVE  Good(f)
<1>1. e.interval \in Int /\ e.ran \in Int /\ e.skipped \in Int /\ e.slept \in Int
      /\ e.next \in Int /\ e.start \in Int
  <2>1. e \in Scheduled
    BY DEF Good
  <2>. QED
    BY <2>1, Fields
<1>. DEFINE k == e.ran + e.skipped + e.slept
<1>2. k \in Int
    BY <1>1
<1>3. (k + 1 + 1) * e.interval = (k + 1) * e.interval + e.interval
    BY <1>1, <1>2, NextInterval
<1>4. e.next = e.start + (k + 1) * e.interval
    BY DEF Good
<1>5. f.ran + f.skipped + f.slept + 1 = k + 1 + 1
    BY <1>1 DEF Served
<1>6. (k + 1) * e.interval \in Int
    BY <1>1, <1>2
<1>. HIDE DEF k
<1>7. f.next = f.start + (f.ran + f.skipped + f.slept + 1) * f.interval
    BY <1>1, <1>3, <1>4, <1>5, <1>6 DEF Served
<1>8. f.next <= time + f.interval
    BY <1>1 DEF Served
<1>. QED
    BY <1>7, <1>8 DEF Good, Served

\* Skip, Succeed and Fail: the body of the loop advances the current entry.
LEMMA AdvanceKeeps ==
    ASSUME Inv, Updating, overdue >= 0, NEW entry \in Scheduled, Advance(entry),
           entry.interval = Entry.interval, entry.start = Entry.start,
           entry.ran + entry.skipped + entry.slept = Entry.ran + Entry.skipped + Entry.slept + 1,
           entry.fail_counter <= 1, entry.skipped + entry.fail_counter = entry.failed
    PROVE  Inv'
<1>1. /\ current \in DOMAIN repeated /\ Good(Entry)
      /\ time \in Int /\ now \in Int /\ overdue \in Int
      /\ Entry.next = now - overdue /\ now <= time
    BY AllGood DEF Inv, TypeOK, LoopInv, Updating, Entry
<1>2. Entry.interval \in Int /\ Entry.interval > 0 /\ Entry.next \in Int
  <2>1. Entry \in Scheduled
    BY <1>1 DEF Good
  <2>. QED
    BY <2>1, Fields
<1>. DEFINE new == [entry EXCEPT !.next = NextTime]
<1>3. NextTime = Entry.next + Entry.interval /\ NextTime \in Int
    BY <1>1, <1>2 DEF NextTime
<1>4. /\ new \in Scheduled /\ new.next = NextTime
      /\ new.interval = entry.interval /\ new.start = entry.start /\ new.ran = entry.ran
      /\ new.skipped = entry.skipped /\ new.slept = entry.slept
      /\ new.failed = entry.failed /\ new.fail_counter = entry.fail_counter
    BY <1>3 DEF Scheduled
<1>5. repeated' = [repeated EXCEPT ![current] = new]
    BY DEF Advance
<1>. HIDE DEF new
<1>6. Served(Entry, new)
    BY <1>3, <1>4 DEF Served
<1>7. Good(new)
    BY <1>1, <1>2, <1>6, ServedIsGood
<1>8. /\ DOMAIN repeated' = DOMAIN repeated
      /\ repeated'[current] = new
      /\ \A id \in DOMAIN repeated : id # current => repeated'[id] = repeated[id]
    BY <1>1, <1>5
<1>9. \A id \in DOMAIN repeated' : Good(repeated'[id])
    BY <1>7, <1>8, AllGood
<1>10. /\ place' = "loop" /\ overdue' = overdue - Entry.interval
       /\ UNCHANGED <<time, rest, current, now, began>>
    BY DEF Advance
<1>11. TypeOK'
    BY <1>1, <1>2, <1>4, <1>8, <1>9, <1>10 DEF Inv, TypeOK, Good
<1>12. IntervalsServedOnce' /\ FailureCostsOneInterval'
    BY <1>9, <1>10 DEF IntervalsServedOnce, FailureCostsOneInterval, Good
<1>13. NothingOverdueIsLeft'
    BY <1>10 DEF NothingOverdueIsLeft
<1>14. LoopInv'
    BY <1>1, <1>2, <1>3, <1>4, <1>8, <1>10 DEF Inv, LoopInv, Updating
<1>. QED
    BY <1>11, <1>12, <1>13, <1>14 DEF Inv

-----------------------------------------------------------------------------
\* Every operation of the scheduler and every step of update keeps Inv.
LEMMA StepKeeps == ASSUME Inv, [Next]_vars PROVE Inv'
<1>0. /\ time \in Int /\ now \in Int /\ overdue \in Int /\ began \in Int
      /\ \A id \in DOMAIN repeated : repeated[id].next \in Int /\ repeated[id].interval \in Int
    BY Fields DEF Inv, TypeOK
<1>1. CASE UNCHANGED vars
    BY <1>1 DEF vars, Inv, TypeOK, IntervalsServedOnce, FailureCostsOneInterval,
       NothingOverdueIsLeft, LoopInv, Updating
<1>2. CASE Tick
    BY <1>0, <1>2 DEF Tick, Inv, TypeOK, IntervalsServedOnce, FailureCostsOneInterval,
       NothingOverdueIsLeft, LoopInv, Updating
<1>3. CASE Update
    BY <1>0, <1>3 DEF Update, Inv, TypeOK, IntervalsServedOnce, FailureCostsOneInterval,
       NothingOverdueIsLeft, LoopInv, Updating
<1>4. CASE Return \/ Invoke
    BY <1>0, <1>4 DEF Return, Invoke, ShouldInvoke, IsDue, Entry, Inv, TypeOK,
       IntervalsServedOnce, FailureCostsOneInterval, NothingOverdueIsLeft, LoopInv, Updating
<1>5. CASE EntryDone
    BY <1>0, <1>5 DEF EntryDone, IsDue, Inv, TypeOK, IntervalsServedOnce,
       FailureCostsOneInterval, NothingOverdueIsLeft, LoopInv, Updating
<1>6. CASE Visit
    BY <1>0, <1>6 DEF Visit, Unvisited, Inv, TypeOK, IntervalsServedOnce,
       FailureCostsOneInterval, NothingOverdueIsLeft, LoopInv, Updating
<1>7. CASE Skip
  <2>1. current \in DOMAIN repeated /\ Good(Entry)
    BY <1>7, AllGood DEF Skip, Inv, TypeOK, Updating, Entry
  <2>2. Entry \in Scheduled /\ Entry.fail_counter <= 1
        /\ Entry.skipped + Entry.fail_counter = Entry.failed
    BY <2>1 DEF Good
  <2>3. Updating /\ overdue >= 0 /\ Advance(CountDown)
    BY <1>7 DEF Skip, Updating, IsDue
  <2>4. CASE Entry.fail_counter # 0
    <3>1. CountDown = [Entry EXCEPT !.fail_counter = @ - 1, !.skipped = @ + 1]
        BY <2>4 DEF CountDown
    <3>2. /\ Entry.fail_counter - 1 \in Nat /\ Entry.skipped + 1 \in Nat
        BY <2>2, <2>4, Fields
    <3>3. /\ CountDown \in Scheduled
          /\ CountDown.interval = Entry.interval /\ CountDown.start = Entry.start
          /\ CountDown.ran = Entry.ran /\ CountDown.slept = Entry.slept
          /\ CountDown.skipped = Entry.skipped + 1 /\ CountDown.failed = Entry.failed
          /\ CountDown.fail_counter = Entry.fail_counter - 1
        BY <2>2, <3>1, <3>2 DEF Scheduled
    <3>4. /\ CountDown.ran + CountDown.skipped + CountDown.slept
                = Entry.ran + Entry.skipped + Entry.slept + 1
          /\ CountDown.fail_counter <= 1
          /\ CountDown.skipped + CountDown.fail_counter = CountDown.failed
        BY <2>2, <3>3, Fields
    <3>. QED
        BY <2>3, <3>3, <3>4, AdvanceKeeps
  <2>5. CASE Entry.fail_counter = 0
    <3>1. CountDown = [Entry EXCEPT !.slept = @ + 1]
        BY <2>5 DEF CountDown
    <3>2. Entry.slept + 1 \in Nat
        BY <2>2, Fields
    <3>3. /\ CountDown \in Scheduled
          /\ CountDown.interval = Entry.interval /\ CountDown.start = Entry.start
          /\ CountDown.ran = Entry.ran /\ CountDown.slept = Entry.slept + 1
          /\ CountDown.skipped = Entry.skipped /\ CountDown.failed = Entry.failed
          /\ CountDown.fail_counter = Entry.fail_counter
        BY <2>2, <3>1, <3>2 DEF Scheduled
    <3>4. /\ CountDown.ran + CountDown.skipped + CountDown.slept
                = Entry.ran + Entry.skipped + Entry.slept + 1
          /\ CountDown.fail_counter <= 1
          /\ CountDown.skipped + CountDown.fail_counter = CountDown.failed
        BY <2>2, <3>3, Fields
    <3>. QED
        BY <2>3, <3>3, <3>4, AdvanceKeeps
  <2>. QED
    BY <2>4, <2>5
<1>8. CASE Succeed \/ Fail
  <2>1. current \in DOMAIN repeated /\ Good(Entry) /\ overdue >= 0 /\ Updating
        /\ Entry.fail_counter = 0
    BY <1>8, AllGood DEF Succeed, Fail, Inv, TypeOK, LoopInv, Updating, Entry
  <2>2. Entry \in Scheduled /\ Entry.skipped + Entry.fail_counter = Entry.failed
    BY <2>1 DEF Good
  <2>3. CASE Succeed
    <3>. DEFINE new == [Entry EXCEPT !.fail_counter = 0, !.ran = @ + 1]
    <3>1. Advance(new)
        BY <2>3 DEF Succeed
    <3>2. Entry.ran + 1 \in Nat
        BY <2>2, Fields
    <3>3. /\ new \in Scheduled
          /\ new.interval = Entry.interval /\ new.start = Entry.start
          /\ new.ran = Entry.ran + 1 /\ new.slept = Entry.slept
          /\ new.skipped = Entry.skipped /\ new.failed = Entry.failed
          /\ new.fail_counter = 0
        BY <2>2, <3>2 DEF Scheduled
    <3>. HIDE DEF new
    <3>4. /\ new.ran + new.skipped + new.slept = Entry.ran + Entry.skipped + Entry.slept + 1
          /\ new.fail_counter <= 1 /\ new.skipped + new.fail_counter = new.failed
        BY <2>1, <2>2, <3>3, Fields
    <3>. QED
        BY <2>1, <3>1, <3>3, <3>4, AdvanceKeeps
  <2>4. CASE Fail
    <3>1. Advance(Failed)
        BY <2>4 DEF Fail
    <3>2. Entry.ran + 1 \in Nat /\ Entry.failed + 1 \in Nat /\ Entry.fail_counter + 1 \in Nat
        BY <2>2, Fields
    <3>3. /\ Failed \in Scheduled
          /\ Failed.interval = Entry.interval /\ Failed.start = Entry.start
          /\ Failed.ran = Entry.ran + 1 /\ Failed.slept = Entry.slept
          /\ Failed.skipped = Entry.skipped /\ Failed.failed = Entry.failed + 1
          /\ Failed.fail_counter = Entry.fail_counter + 1
        BY <2>2, <3>2 DEF Scheduled, Failed
    <3>4. /\ Failed.ran + Failed.skipped + Failed.slept
                = Entry.ran + Entry.skipped + Entry.slept + 1
          /\ Failed.fail_counter <= 1 /\ Failed.skipped + Failed.fail_counter = Failed.failed
        BY <2>1, <2>2, <3>3, Fields
    <3>. QED
        BY <2>1, <3>1, <3>3, <3>4, AdvanceKeeps
  <2>. QED
    BY <1>8, <2>3, <2>4
<1>9. CASE \E id \in Ids, i \in Intervals : ScheduleRepeated(id, i)
  <2>1. PICK id \in Ids, i \in Intervals : ScheduleRepeated(id, i)
    BY <1>9
  <2>. DEFINE new == [next |-> time + i, interval |-> i, fail_counter |-> 0,
                      is_suspended |-> FALSE, start |-> time, ran |-> 0,
                      failed |-> 0, skipped |-> 0, slept |-> 0]
  <2>2. i \in Int /\ time + i \in Int
    BY <1>0, PositiveIntervals
  <2>3. new \in Scheduled
    BY <1>0, <2>2 DEF Scheduled
  <2>4. new.next = new.start + (new.ran + new.skipped + new.slept + 1) * new.interval
    BY <1>0, <2>2
  <2>5. Good(new)
    BY <1>0, <2>2, <2>3, <2>4 DEF Good
  <2>6. /\ DOMAIN repeated' = DOMAIN repeated \cup {id} /\ repeated'[id] = new
        /\ \A x \in DOMAIN repeated : x # id => repeated'[x] = repeated[x]
        /\ place = "idle" /\ UNCHANGED <<time, place, rest, current, now, overdue, began>>
    BY <2>1 DEF ScheduleRepeated
  <2>. HIDE DEF new
  <2>7. \A x \in DOMAIN repeated' : Good(repeated'[x])
    BY <2>5, <2>6, AllGood
  <2>8. TypeOK'
    BY <2>6, <2>7 DEF Inv, TypeOK, Good
  <2>9. IntervalsServedOnce' /\ FailureCostsOneInterval'
    BY <2>6, <2>7 DEF IntervalsServedOnce, FailureCostsOneInterval, Good
  <2>. QED
    BY <2>6, <2>8, <2>9 DEF Inv, NothingOverdueIsLeft, LoopInv, Updating
<1>10. CASE \E id \in Ids : Remove(id)
  <2>1. PICK id \in Ids : Remove(id)
    BY <1>10
  <2>2. /\ DOMAIN repeated' = DOMAIN repeated \ {id}
        /\ \A x \in DOMAIN repeated' : repeated'[x] = repeated[x]
        /\ place = "idle" /\ UNCHANGED <<time, place, rest, current, now, overdue, began>>
    BY <2>1 DEF Remove
  <2>3. \A x \in DOMAIN repeated' : Good(repeated'[x])
    BY <2>2, AllGood
  <2>4. TypeOK'
    BY <2>2, <2>3 DEF Inv, TypeOK, LoopInv, Good
  <2>5. IntervalsServedOnce' /\ FailureCostsOneInterval'
    BY <2>2, <2>3 DEF IntervalsServedOnce, FailureCostsOneInterval, Good
  <2>. QED
    BY <2>2, <2>4, <2>5 DEF Inv, NothingOverdueIsLeft, LoopInv, Updating
<1>11. CASE \E id \in Ids, b \in BOOLEAN : SetSuspended(id, b)
  <2>1. PICK id \in Ids, b \in BOOLEAN : SetSuspended(id, b)
    BY <1>11
  <2>. DEFINE new == [repeated[id] EXCEPT !.is_suspended = b]
  <2>2. /\ id \in DOMAIN repeated /\ repeated' = [repeated EXCEPT ![id] = new]
        /\ place \in {"idle", "action"}
        /\ UNCHANGED <<time, place, rest, current, now, overdue, began>>
    BY <2>1 DEF SetSuspended
  <2>3. Good(repeated[id])
    BY <2>2, AllGood
  <2>4. repeated[id] \in Scheduled
    BY <2>3 DEF Good
  <2>5. /\ new \in Scheduled /\ new.next = repeated[id].next
        /\ new.interval = repeated[id].interval /\ new.start = repeated[id].start
        /\ new.ran = repeated[id].ran /\ new.skipped = repeated[id].skipped
        /\ new.slept = repeated[id].slept /\ new.failed = repeated[id].failed
        /\ new.fail_counter = repeated[id].fail_counter
    BY <2>4 DEF Scheduled
  <2>. HIDE DEF new
  <2>6. Good(new)
    BY <2>3, <2>5 DEF Good
  <2>7. /\ DOMAIN repeated' = DOMAIN repeated /\ repeated'[id] = new
        /\ \A x \in DOMAIN repeated : x # id => repeated'[x] = repeated[x]
    BY <2>2
  <2>8. \A x \in DOMAIN repeated' : Good(repeated'[x])
    BY <2>6, <2>7, AllGood
  <2>9. TypeOK'
    BY <2>2, <2>7, <2>8 DEF Inv, TypeOK, Good
  <2>10. IntervalsServedOnce' /\ FailureCostsOneInterval'
    BY <2>2, <2>8 DEF IntervalsServedOnce, FailureCostsOneInterval, Good
  <2>11. NothingOverdueIsLeft'
    BY <2>2 DEF NothingOverdueIsLeft
  <2>12. \A x \in DOMAIN repeated : /\ repeated'[x].next = repeated[x].next
                                    /\ repeated'[x].fail_counter = repeated[x].fail_counter
    BY <2>5, <2>7
  <2>13. LoopInv'
    BY <2>2, <2>7, <2>12 DEF Inv, TypeOK, LoopInv, Updating
  <2>. QED
    BY <2>9, <2>10, <2>11, <2>13 DEF Inv
<1>. QED
    BY <1>1, <1>2, <1>3, <1>4, <1>5, <1>6, <1>7, <1>8, <1>9, <1>10, <1>11 DEF Next, Step

-----------------------------------------------------------------------------
\* The inductive invariant: the properties and where update is in its loops.
THEOREM SchedulerInvHolds == Spec => []Inv
<1>1. Init => Inv
    BY DEF Init, Inv, TypeOK, IntervalsServedOnce, FailureCostsOneInterval,
       NothingOverdueIsLeft, LoopInv, Updating
<1>2. Inv /\ [Next]_vars => Inv'
    BY StepKeeps
<1>. QED
    BY <1>1, <1>2, PTL DEF Spec

\* Every reachable state of the scheduler is well typed.
THEOREM SchedulerTypeCorrect == Spec => []TypeOK
BY SchedulerInvHolds, PTL DEF Inv

\* _scheduled::update serves every interval exactly once, on a grid that does
\* not drift, and none before its time, for all intervals and delays.
THEOREM NoIntervalIsLost == Spec => []IntervalsServedOnce
BY SchedulerInvHolds, PTL DEF Inv

\* should_invoke and invoke: a failure costs exactly one interval.
THEOREM FailuresCostOne == Spec => []FailureCostsOneInterval
BY SchedulerInvHolds, PTL DEF Inv

\* update leaves nothing overdue behind.
THEOREM UpdateServesAll == Spec => []NothingOverdueIsLeft
BY SchedulerInvHolds, PTL DEF Inv

-----------------------------------------------------------------------------
(***************************************************************************)
(* Signals and the switch.                                                 *)
(***************************************************************************)

Handlers == [OSSignals -> {"default", "flip"}]
Defaults == [s \in OSSignals |-> "default"]
Flips == [s \in OSSignals |-> "flip"]

(***************************************************************************)
(* The switches nest: the first one saved the handlers found at first, the *)
(* others what a switch had set.                                           *)
(***************************************************************************)
NestInv ==
    /\ switches \in Seq(Handlers)
    /\ handlers = IF switches = <<>> THEN Defaults ELSE Flips
    /\ \A i \in 1..Len(switches) : switches[i] = IF i = 1 THEN Defaults ELSE Flips

(***************************************************************************)
(* What a single switch said, if anything, is what is remembered, but in   *)
(* the middle of a member of it, which has said so and is about to         *)
(* remember it.                                                            *)
(***************************************************************************)
SaidRight(w) ==
    /\ pc \in {"idle", "say_off", "forget", "say_on", "remember"}
    /\ pc # "idle" => acting = 1
    /\ pc = "idle" => (w # "nothing" => (w = "on" <=> swSignalled))
    /\ pc = "forget" => w = "off"
    /\ pc = "remember" => w = "on"

SingleInv ==
    \/ switches = <<>> /\ told = <<>> /\ pc = "idle"
    \/ \E h, w : switches = <<h>> /\ told = <<w>> /\ SaidRight(w)

SwitchInv == NestInv /\ (loop = "switch" => SingleInv)

\* SwitchOn saves the handlers there are, SwitchOff puts the last ones back.
LEMMA NestKept ==
    ASSUME NestInv, [SwitchNext]_swVars
    PROVE  NestInv'
<1>0. /\ switches \in Seq(Handlers) /\ Len(switches) \in Nat
      /\ Defaults \in Handlers /\ Flips \in Handlers
    BY DEF NestInv, Handlers, Defaults, Flips
<1>1. CASE SwitchOn
  <2>1. switches' = Append(switches, handlers) /\ handlers' = Flips
    BY <1>1 DEF SwitchOn, Flips
  <2>2. handlers = IF switches = <<>> THEN Defaults ELSE Flips
    BY DEF NestInv
  <2>3. /\ switches' \in Seq(Handlers) /\ Len(switches') = Len(switches) + 1
        /\ \A i \in 1..Len(switches) : switches'[i] = switches[i]
        /\ switches'[Len(switches) + 1] = handlers
    BY <1>0, <2>1, <2>2, AppendProperties
  <2>4. ASSUME NEW i \in 1..Len(switches')
        PROVE  switches'[i] = IF i = 1 THEN Defaults ELSE Flips
    <3>1. CASE i \in 1..Len(switches)
        BY <2>3, <3>1 DEF NestInv
    <3>2. CASE i \notin 1..Len(switches)
      <4>1. i = Len(switches) + 1
        BY <1>0, <2>3, <3>2
      <4>2. i = 1 <=> switches = <<>>
        BY <1>0, <4>1
      <4>. QED
        BY <2>2, <2>3, <4>1, <4>2
    <3>. QED
        BY <3>1, <3>2
  <2>5. switches' # <<>>
    BY <1>0, <2>3
  <2>. QED
    BY <2>1, <2>3, <2>4, <2>5 DEF NestInv
<1>2. CASE SwitchOff
  <2>1. /\ switches # <<>> /\ handlers' = switches[Len(switches)]
        /\ switches' = SubSeq(switches, 1, Len(switches) - 1)
    BY <1>2 DEF SwitchOff, Q!Front, Q!Last
  <2>2. Len(switches) >= 1
    BY <1>0, <2>1
  <2>3. /\ switches' \in Seq(Handlers) /\ Len(switches') = Len(switches) - 1
        /\ \A i \in 1..Len(switches') : switches'[i] = switches[i]
    <3>1. 1 \in 1..(Len(switches) + 1) /\ Len(switches) - 1 \in (1 - 1)..Len(switches)
        BY <1>0, <2>2
    <3>2. /\ switches' \in Seq(Handlers)
          /\ Len(switches') = IF 1 <= Len(switches) - 1 THEN (Len(switches) - 1) - 1 + 1 ELSE 0
          /\ \A i \in 1..((Len(switches) - 1) - 1 + 1) : switches'[i] = switches[1 + i - 1]
        BY <1>0, <2>1, <3>1, SubSeqProperties
    <3>3. Len(switches') = Len(switches) - 1
      <4>1. CASE Len(switches) = 1
        BY <3>2, <4>1
      <4>2. CASE Len(switches) # 1
        <5>0. PICK n \in Nat : n = Len(switches)
            BY <1>0
        <5>1. 1 <= n - 1 /\ (n - 1) - 1 + 1 = n - 1
            BY <2>2, <4>2, <5>0
        <5>. QED
            BY <3>2, <5>0, <5>1
      <4>. QED
        BY <4>1, <4>2
    <3>4. ASSUME NEW i \in 1..Len(switches') PROVE switches'[i] = switches[i]
      <4>1. i \in 1..((Len(switches) - 1) - 1 + 1) /\ 1 + i - 1 = i
        BY <1>0, <2>2, <3>3
      <4>. QED
        BY <3>2, <4>1
    <3>. QED
        BY <3>2, <3>3, <3>4
  <2>4. handlers' = IF Len(switches) = 1 THEN Defaults ELSE Flips
    <3>1. Len(switches) \in 1..Len(switches)
        BY <1>0, <2>2
    <3>. QED
        BY <2>1, <3>1 DEF NestInv
  <2>5. \A i \in 1..Len(switches') : switches'[i] = IF i = 1 THEN Defaults ELSE Flips
    BY <1>0, <2>2, <2>3 DEF NestInv
  <2>6. switches' = <<>> <=> Len(switches) = 1
    BY <1>0, <2>2, <2>3
  <2>. QED
    BY <2>3, <2>4, <2>5, <2>6 DEF NestInv
<1>3. CASE UNCHANGED <<handlers, switches>>
    BY <1>3 DEF NestInv
<1>4. CASE SwitchStep \/ \E s \in OSSignals : Flip(s)
    BY <1>3, <1>4 DEF SwitchStep, SwitchPoll, SwitchGoOn, Flip, ResetState, SayOff, Forget, Poll, SayOn,
                      Remember
<1>. QED
    BY <1>1, <1>2, <1>3, <1>4 DEF SwitchNext, swVars

\* A member of a single switch says and then remembers, poll by poll.
LEMMA SaidKept ==
    ASSUME SingleInv, [SwitchNext]_swVars, switches' # switches => Len(switches') <= 1
    PROVE  SingleInv'
<1>1. ASSUME SwitchOn PROVE SingleInv'
  <2>1. switches' = Append(switches, handlers) /\ told' = Append(told, "nothing") /\ pc' = "idle"
    BY <1>1 DEF SwitchOn
  <2>2. CASE switches = <<>> /\ told = <<>>
    <3>1. switches' = <<handlers>> /\ told' = <<"nothing">>
      BY <2>1, <2>2
    <3>. QED
      BY <2>1, <3>1 DEF SingleInv, SaidRight
  <2>3. CASE \E h, w : switches = <<h>> /\ told = <<w>>
    <3>1. PICK h : switches = <<h>>
      BY <2>3
    <3>2. switches' = <<h, handlers>> /\ switches' # switches /\ Len(<<h, handlers>>) = 2
      BY <2>1, <3>1
    <3>. QED
      BY <3>2
  <2>. QED
    BY <2>2, <2>3, Zenon DEF SingleInv
<1>2. ASSUME SwitchOff PROVE SingleInv'
  <2>1. /\ switches # <<>> /\ pc' = "idle"
        /\ switches' = SubSeq(switches, 1, Len(switches) - 1) /\ told' = SubSeq(told, 1, Len(told) - 1)
    BY <1>2 DEF SwitchOff, Q!Front
  <2>2. PICK h, w : switches = <<h>> /\ told = <<w>>
    BY <2>1, Zenon DEF SingleInv
  <2>3. switches' = <<>> /\ told' = <<>>
    BY <2>1, <2>2
  <2>. QED
    BY <2>1, <2>3, Zenon DEF SingleInv
<1>3. ASSUME SwitchStep \/ (\E s \in OSSignals : Flip(s)) \/ UNCHANGED swVars PROVE SingleInv'
  <2>0. switches' = switches
    BY <1>3 DEF SwitchStep, SwitchPoll, SwitchGoOn, Flip, ResetState, SayOff, Forget, Poll, SayOn, Remember, swVars
  <2>1. CASE switches = <<>> /\ told = <<>> /\ pc = "idle"
    <3>1. DOMAIN switches = {}
      BY <2>1
    <3>2. told' = told /\ pc' = pc
      BY <1>3, <2>1, <3>1 DEF SwitchStep, SwitchPoll, SwitchGoOn, Flip, SayOff, Forget, SayOn, Remember, swVars
    <3>. QED
      BY <2>0, <2>1, <3>2, Zenon DEF SingleInv
  <2>2. CASE \E h, w : switches = <<h>> /\ told = <<w>> /\ SaidRight(w)
    <3>1. PICK h, w : switches = <<h>> /\ told = <<w>> /\ SaidRight(w)
      BY <2>2
    <3>2. DOMAIN switches = {1} /\ \A x : [told EXCEPT ![1] = x] = <<x>>
      BY <3>1
    <3>. SUFFICES \E v : told' = <<v>> /\ SaidRight(v)'
      BY <2>0, <3>1, Zenon DEF SingleInv
    <3>3. CASE \E i \in DOMAIN switches : ResetState(i) \/ Poll(i)
      BY <3>1, <3>2, <3>3 DEF ResetState, Poll, SaidRight
    <3>4. CASE SayOff
      <4>1. told' = <<"off">>
        BY <3>1, <3>2, <3>4 DEF SayOff, SaidRight
      <4>. QED
        BY <3>1, <3>4, <4>1 DEF SayOff, SaidRight
    <3>5. CASE SayOn
      <4>1. told' = <<"on">>
        BY <3>1, <3>2, <3>5 DEF SayOn, SaidRight
      <4>. QED
        BY <3>1, <3>5, <4>1 DEF SayOn, SaidRight
    <3>6. CASE Forget \/ Remember
      BY <3>1, <3>6 DEF Forget, Remember, SaidRight
    <3>7. CASE (\E s \in OSSignals : Flip(s)) \/ UNCHANGED swVars
      BY <3>1, <3>7 DEF Flip, swVars, SaidRight
    <3>. QED
      BY <1>3, <3>3, <3>4, <3>5, <3>6, <3>7, Zenon DEF SwitchStep, SwitchPoll, SwitchGoOn
  <2>. QED
    BY <2>1, <2>2, Zenon DEF SingleInv
<1>. QED
    BY <1>1, <1>2, <1>3, Zenon DEF SwitchNext

\* The steps of a loop, as the switches see them.
LEMMA LoopIsSwitch ==
    [LoopNext]_<<loop, vars, signalVars>> =>
        /\ [SwitchNext]_swVars /\ loop' = loop
        /\ loop = "switch" => (switches' # switches => Len(switches') <= 1)
BY DEF LoopNext, RunScheduler, RunSignal, RunSwitch, signalVars, swVars

(***************************************************************************)
(* Whenever the OS signals come, a poll of a single switch never forgets   *)
(* that it said there was one, nor a reset that it took it back, also when *)
(* the switch takes over the statics of an earlier one; and of however     *)
(* many, the last switch to go leaves the handlers that the first one      *)
(* found (signal_switch).                                                  *)
(***************************************************************************)
THEOREM SwitchStaysConsistent == LoopSpec => []SwitchIsConsistent
<1>1. LoopInit => SwitchInv
  <2>. SUFFICES ASSUME LoopInit PROVE SwitchInv
    OBVIOUS
  <2>1. SignalsInit
    BY DEF LoopInit
  <2>2. NestInv
    BY <2>1 DEF SignalsInit, NestInv, Defaults
  <2>3. SingleInv
    BY <2>1 DEF SignalsInit, SingleInv
  <2>. QED
    BY <2>2, <2>3 DEF SwitchInv
<1>2. SwitchInv /\ [LoopNext]_<<loop, vars, signalVars>> => SwitchInv'
    BY LoopIsSwitch, NestKept, SaidKept, Zenon DEF SwitchInv
<1>3. SwitchInv => SwitchIsConsistent
  <2>. SUFFICES ASSUME SwitchInv PROVE SwitchIsConsistent
    OBVIOUS
  <2>1. HandlersRestored
    BY DEF SwitchInv, NestInv, Defaults, HandlersRestored
  <2>2. SingleInv => SwitchSaysWhatItKnows
    BY DEF SingleInv, SaidRight, SwitchSaysWhatItKnows
  <2>. QED
    BY <2>1, <2>2, Zenon DEF SwitchInv, SwitchIsConsistent
<1>. QED
    BY <1>1, <1>2, <1>3, PTL DEF LoopSpec

-----------------------------------------------------------------------------
(* Sequences with an element more or less.                                 *)

\* Sequences of n and of m elements, one behind the other.
Joined(S, s, t, n, m) ==
    /\ s \o t \in Seq(S) /\ Len(s \o t) = n + m
    /\ \A i \in 1..n : (s \o t)[i] = s[i]
    /\ \A i \in (n + 1)..(n + m) : (s \o t)[i] = t[i - n]

\* The concatenation of two sequences, position by position.
LEMMA JoinedFacts ==
    ASSUME NEW S, NEW s \in Seq(S), NEW t \in Seq(S), NEW n \in Nat, NEW m \in Nat,
           Len(s) = n, Len(t) = m
    PROVE  Joined(S, s, t, n, m)
<1>1. s \o t \in Seq(S) /\ Len(s \o t) = n + m
    BY ConcatProperties
<1>2. \A i \in 1..(n + m) : (s \o t)[i] = IF i <= n THEN s[i] ELSE t[i - n]
    BY ConcatProperties
<1>. QED
    BY <1>1, <1>2 DEF Joined

\* insert puts the element at a position and moves what is behind it.
LEMMA InsertFacts ==
    ASSUME NEW S, NEW s \in Seq(S), NEW p \in 1..(Len(s) + 1), NEW e \in S
    PROVE  /\ Q!InsertAt(s, p, e) \in Seq(S) /\ Len(Q!InsertAt(s, p, e)) = Len(s) + 1
           /\ \A i \in 1..(Len(s) + 1) :
                Q!InsertAt(s, p, e)[i] = IF i < p THEN s[i] ELSE IF i = p THEN e ELSE s[i - 1]
<1>. DEFINE before == SubSeq(s, 1, p - 1)
            upto == before \o <<e>>
            behind == SubSeq(s, p, Len(s))
<1>1. PICK n \in Nat : n = Len(s)
    OBVIOUS
<1>2. PICK m \in Nat : m = n + 1 - p
    BY <1>1
<1>3. before \in Seq(S) /\ Len(before) = p - 1 /\ \A i \in 1..(p - 1) : before[i] = s[i]
    BY <1>1
<1>4. behind \in Seq(S) /\ Len(behind) = m /\ \A i \in 1..m : behind[i] = s[p + i - 1]
    BY <1>1, <1>2
<1>5. Q!InsertAt(s, p, e) = upto \o behind
    BY DEF Q!InsertAt
<1>. HIDE DEF before, behind
<1>6. /\ upto \in Seq(S) /\ Len(upto) = p
      /\ \A i \in 1..(p - 1) : upto[i] = s[i]
      /\ upto[p] = e
    BY <1>3
<1>. HIDE DEF upto
<1>7. p \in Nat /\ p + m = n + 1
    BY <1>1, <1>2
<1>8. /\ upto \o behind \in Seq(S) /\ Len(upto \o behind) = p + m
      /\ \A i \in 1..p : (upto \o behind)[i] = upto[i]
      /\ \A i \in (p + 1)..(p + m) : (upto \o behind)[i] = behind[i - p]
  <2>1. Joined(S, upto, behind, p, m)
    BY <1>4, <1>6, <1>7, JoinedFacts
  <2>. QED
    BY <2>1 DEF Joined
<1>9. ASSUME NEW i \in 1..(n + 1)
      PROVE  (upto \o behind)[i] = IF i < p THEN s[i] ELSE IF i = p THEN e ELSE s[i - 1]
  <2>1. CASE i < p
    <3>1. i \in 1..(p - 1) /\ i \in 1..p
        BY <1>1, <2>1
    <3>. QED
        BY <1>6, <1>8, <2>1, <3>1
  <2>2. CASE i = p
    <3>1. p \in 1..p
        BY <1>1
    <3>. QED
        BY <1>6, <1>8, <2>2, <3>1
  <2>3. CASE ~(i < p) /\ i # p
    <3>1. i \in (p + 1)..(p + m) /\ i - p \in 1..m /\ p + (i - p) - 1 = i - 1
        BY <1>1, <1>7, <2>3
    <3>2. (upto \o behind)[i] = s[i - 1]
        BY <1>4, <1>8, <3>1
    <3>. QED
        BY <2>3, <3>2
  <2>. QED
    BY <2>1, <2>2, <2>3
<1>. QED
    BY <1>1, <1>5, <1>7, <1>8, <1>9

\* erase moves what is behind the position to the front.
LEMMA RemoveFacts ==
    ASSUME NEW S, NEW s \in Seq(S), NEW p \in 1..Len(s)
    PROVE  /\ Q!RemoveAt(s, p) \in Seq(S) /\ Len(Q!RemoveAt(s, p)) = Len(s) - 1
           /\ \A i \in 1..(Len(s) - 1) : Q!RemoveAt(s, p)[i] = IF i < p THEN s[i] ELSE s[i + 1]
<1>. DEFINE before == SubSeq(s, 1, p - 1)
            behind == SubSeq(s, p + 1, Len(s))
<1>1. PICK n \in Nat : n = Len(s)
    OBVIOUS
<1>2. PICK m \in Nat : m = n - p
  <2>1. n - p \in Nat
    BY <1>1
  <2>. QED
    BY <2>1
<1>3. PICK l \in Nat : l = p - 1
    OBVIOUS
<1>4. before \in Seq(S) /\ Len(before) = l /\ \A i \in 1..l : before[i] = s[i]
    BY <1>1, <1>3
<1>5. behind \in Seq(S) /\ Len(behind) = m /\ \A i \in 1..m : behind[i] = s[p + i]
    BY <1>1, <1>2
<1>6. Q!RemoveAt(s, p) = before \o behind
    BY DEF Q!RemoveAt
<1>. HIDE DEF before, behind
<1>7. /\ before \o behind \in Seq(S) /\ Len(before \o behind) = l + m
      /\ \A i \in 1..l : (before \o behind)[i] = before[i]
      /\ \A i \in (l + 1)..(l + m) : (before \o behind)[i] = behind[i - l]
  <2>1. Joined(S, before, behind, l, m)
    BY <1>4, <1>5, JoinedFacts
  <2>. QED
    BY <2>1 DEF Joined
<1>8. l + m = n - 1
    BY <1>1, <1>2, <1>3
<1>9. ASSUME NEW i \in 1..(n - 1)
      PROVE  (before \o behind)[i] = IF i < p THEN s[i] ELSE s[i + 1]
  <2>1. CASE i < p
    <3>1. i \in 1..l
        BY <1>1, <1>3, <2>1
    <3>. QED
        BY <1>4, <1>7, <2>1, <3>1
  <2>2. CASE ~(i < p)
    <3>1. i \in (l + 1)..(l + m) /\ i - l \in 1..m /\ p + (i - l) = i + 1
        BY <1>1, <1>3, <1>8, <2>2
    <3>2. (before \o behind)[i] = s[i + 1]
        BY <1>5, <1>7, <3>1
    <3>. QED
        BY <2>2, <3>2
  <2>. QED
    BY <2>1, <2>2
<1>. QED
    BY <1>1, <1>6, <1>7, <1>8, <1>9

-----------------------------------------------------------------------------
(* The slots of a signal, in a map by key.                                 *)

SlotEntries == [key : 1..KeyMax, slot : Slots]

\* A map made of another one by putting an entry in at a position.
SlotPut(made, ss, p, e) ==
    /\ made \in Seq(SlotEntries) /\ Len(made) = Len(ss) + 1
    /\ \A i \in 1..(Len(ss) + 1) : made[i] = IF i < p THEN ss[i] ELSE IF i = p THEN e ELSE ss[i - 1]

\* InsertFacts of the entries of a signal.
LEMMA SlotInserted ==
    ASSUME NEW ss \in Seq(SlotEntries), NEW p \in 1..(Len(ss) + 1), NEW e \in SlotEntries
    PROVE  SlotPut(Q!InsertAt(ss, p, e), ss, p, e)
BY InsertFacts DEF SlotPut

Sorted(ss) == \A i, j \in 1..Len(ss) : i < j => ss[i].key < ss[j].key

Has(ss, k, s) == \E i \in 1..Len(ss) : ss[i].key = k /\ ss[i].slot = s

\* The parts of an entry of the signal.
LEMMA EntryFacts ==
    ASSUME NEW ss \in Seq(SlotEntries), NEW i \in 1..Len(ss)
    PROVE  ss[i].key \in 1..KeyMax /\ ss[i].key \in Nat /\ ss[i].slot \in Slots
<1>1. ss[i] \in SlotEntries
    OBVIOUS
<1>2. ss[i].key \in 1..KeyMax /\ ss[i].slot \in Slots
    BY <1>1 DEF SlotEntries
<1>3. KeyMax \in Nat
    BY SignalsAssumption
<1>. QED
    BY <1>2, <1>3

\* There is one place for a key.
LEMMA PlaceFacts ==
    ASSUME NEW ss \in Seq(SlotEntries), Sorted(ss), NEW k \in Nat
    PROVE  /\ Place(ss, k) \in 1..(Len(ss) + 1)
           /\ \A i \in 1..Len(ss) : ss[i].key < k <=> i < Place(ss, k)
<1>. DEFINE T == {i \in 1..(Len(ss) + 1) : i \in 1..Len(ss) => ~(ss[i].key < k)}
<1>0. PICK n \in Nat : n = Len(ss)
    OBVIOUS
<1>1. \A i \in 1..n : ss[i].key \in Nat
    BY <1>0, EntryFacts
<1>2. T \subseteq Nat /\ n + 1 \in T
    BY <1>0
<1>3. PICK p \in T : \A i \in T : p <= i
    BY <1>2, Least
<1>4. p \in 1..(n + 1) /\ (p \in 1..n => ~(ss[p].key < k))
    BY <1>0, <1>3
<1>5. ASSUME NEW i \in 1..n PROVE ss[i].key < k <=> i < p
  <2>1. CASE i < p
    <3>1. i \notin T
        BY <1>3, <1>4, <2>1
    <3>. QED
        BY <1>0, <2>1, <3>1
  <2>2. CASE ~(i < p)
    <3>1. p \in 1..n /\ (p = i \/ p < i)
        BY <1>4, <2>2
    <3>2. p = i \/ ss[p].key < ss[i].key
        BY <1>0, <3>1 DEF Sorted
    <3>. QED
        BY <1>1, <1>4, <2>2, <3>1, <3>2
  <2>. QED
    BY <2>1, <2>2
<1>6. \E q \in 1..(Len(ss) + 1) : \A i \in DOMAIN ss : ss[i].key < k <=> i < q
  <2>1. DOMAIN ss = 1..n
    BY <1>0
  <2>. QED
    BY <1>0, <1>4, <1>5, <2>1
<1>7. /\ Place(ss, k) \in 1..(Len(ss) + 1)
      /\ \A i \in DOMAIN ss : ss[i].key < k <=> i < Place(ss, k)
    BY <1>6, Zenon DEF Place
<1>. QED
    BY <1>7

\* erase(key) takes the entry with the key out and leaves the others.
LEMMA ErasedFacts ==
    ASSUME NEW ss \in Seq(SlotEntries), Sorted(ss), NEW k \in Nat
    PROVE  /\ Erased(ss, k) \in Seq(SlotEntries) /\ Sorted(Erased(ss, k))
           /\ \A m, s : Has(Erased(ss, k), m, s) <=> Has(ss, m, s) /\ m # k
<1>. DEFINE p == Place(ss, k)
            others == Erased(ss, k)
<1>0. PICK n \in Nat : n = Len(ss)
    OBVIOUS
<1>1. p \in 1..(n + 1) /\ (\A i \in 1..n : ss[i].key < k <=> i < p) /\ DOMAIN ss = 1..n
  <2>1. DOMAIN ss = 1..n
    BY <1>0
  <2>. QED
    BY <1>0, <2>1, PlaceFacts
<1>2. \A i \in 1..n : ss[i].key \in Nat /\ \A j \in 1..n : i < j => ss[i].key < ss[j].key
  <2>1. \A i \in 1..n : ss[i].key \in Nat
    BY <1>0, EntryFacts
  <2>2. \A i \in 1..n : \A j \in 1..n : i < j => ss[i].key < ss[j].key
    BY <1>0 DEF Sorted
  <2>. QED
    BY <2>1, <2>2
<1>3. others = IF p \in 1..n /\ ss[p].key = k THEN Q!RemoveAt(ss, p) ELSE ss
    BY <1>1 DEF Erased
<1>. HIDE DEF p, others
<1>4. CASE p \in 1..n /\ ss[p].key = k
  <2>1. /\ others \in Seq(SlotEntries) /\ Len(others) = n - 1
        /\ \A i \in 1..(n - 1) : others[i] = IF i < p THEN ss[i] ELSE ss[i + 1]
    BY <1>0, <1>3, <1>4, RemoveFacts
  <2>2. Sorted(others)
    <3>. SUFFICES ASSUME NEW i \in 1..(n - 1), NEW j \in 1..(n - 1), i < j
                  PROVE  others[i].key < others[j].key
        BY <2>1 DEF Sorted
    <3>1. i \in 1..n /\ j \in 1..n /\ i + 1 \in 1..n /\ j + 1 \in 1..n /\ i < j + 1 /\ i + 1 < j + 1
        OBVIOUS
    <3>2. PICK x \in 1..n, y \in 1..n : x < y /\ others[i] = ss[x] /\ others[j] = ss[y]
      <4>1. CASE j < p
        <5>1. i < p
            BY <1>1, <4>1
        <5>. QED
            BY <2>1, <3>1, <4>1, <5>1
      <4>2. CASE i < p /\ ~(j < p)
        BY <2>1, <3>1, <4>2
      <4>3. CASE ~(i < p)
        <5>1. ~(j < p)
            BY <1>1, <4>3
        <5>. QED
            BY <2>1, <3>1, <4>3, <5>1
      <4>. QED
        BY <4>1, <4>2, <4>3
    <3>. QED
        BY <1>2, <3>2
  <2>3. ASSUME NEW m, NEW s, Has(others, m, s) PROVE Has(ss, m, s) /\ m # k
    <3>1. PICK i \in 1..(n - 1) : others[i].key = m /\ others[i].slot = s
        BY <2>1, <2>3 DEF Has
    <3>2. PICK j \in 1..n : j # p /\ ss[j] = others[i]
      <4>1. i \in 1..n /\ i + 1 \in 1..n
        OBVIOUS
      <4>2. CASE i < p
        BY <2>1, <4>1, <4>2
      <4>3. CASE ~(i < p)
        BY <1>1, <2>1, <4>1, <4>3
      <4>. QED
        BY <4>2, <4>3
    <3>3. ss[j].key # ss[p].key
        BY <1>2, <1>4, <3>2
    <3>. QED
        BY <1>0, <1>4, <3>1, <3>2, <3>3 DEF Has
  <2>4. ASSUME NEW m, NEW s, Has(ss, m, s), m # k PROVE Has(others, m, s)
    <3>1. PICK j \in 1..n : ss[j].key = m /\ ss[j].slot = s
        BY <1>0, <2>4 DEF Has
    <3>2. j # p
        BY <1>4, <2>4, <3>1
    <3>3. PICK i \in 1..(n - 1) : others[i] = ss[j]
      <4>1. CASE j < p
        <5>1. j \in 1..(n - 1)
            BY <1>1, <1>4, <4>1
        <5>. QED
            BY <2>1, <4>1, <5>1
      <4>2. CASE ~(j < p)
        <5>1. j - 1 \in 1..(n - 1) /\ ~(j - 1 < p) /\ (j - 1) + 1 = j
            BY <1>4, <3>2, <4>2
        <5>. QED
            BY <2>1, <5>1
      <4>. QED
        BY <4>1, <4>2
    <3>. QED
        BY <2>1, <3>1, <3>3 DEF Has
  <2>. QED
    BY <2>1, <2>2, <2>3, <2>4 DEF others
<1>5. CASE ~(p \in 1..n /\ ss[p].key = k)
  <2>1. others = ss
    BY <1>3, <1>5
  <2>2. ASSUME NEW i \in 1..n PROVE ss[i].key # k
    <3>1. CASE i < p
        BY <1>1, <1>2, <3>1
    <3>2. CASE i = p
        BY <1>5, <3>2
    <3>3. CASE i > p
        BY <1>1, <1>2, <1>5, <3>3
    <3>. QED
        BY <1>1, <3>1, <3>2, <3>3
  <2>. QED
    BY <1>0, <2>1, <2>2 DEF Has, others
<1>. QED
    BY <1>4, <1>5

\* A key stays what it is in the map, as long as it is not too large.
LEMMA StoredFacts ==
    ASSUME NEW k \in 0..KeyMax
    PROVE  Stored(k) = k
<1>1. KeyMax \in Nat
    BY SignalsAssumption
<1>2. ASSUME NEW n \in Nat, NEW i \in 0..n PROVE i % (n + 1) = i
    OBVIOUS
<1>. QED
    BY <1>1, <1>2 DEF Stored

\* With fewer slots than keys one of the keys is left.
LEMMA SomeKeyLeft ==
    ASSUME NEW ss \in Seq(SlotEntries), Len(ss) < KeyMax
    PROVE  \E k \in 1..KeyMax : \A i \in 1..Len(ss) : ss[i].key # k
<1>1. PICK n \in Nat : n = Len(ss)
    OBVIOUS
<1>2. KeyMax \in Nat /\ n < KeyMax
    BY <1>1, SignalsAssumption
<1>. SUFFICES ASSUME \A k \in 1..KeyMax : \E i \in 1..n : ss[i].key = k
              PROVE  FALSE
    BY <1>1
<1>. DEFINE f == [k \in 1..KeyMax |-> CHOOSE i \in 1..n : ss[i].key = k]
<1>3. f \in [1..KeyMax -> 1..n] /\ \A k \in 1..KeyMax : ss[f[k]].key = k
    OBVIOUS
<1>. HIDE DEF f
<1>4. ASSUME NEW m \in Nat PROVE IsFiniteSet(1..m) /\ Cardinality(1..m) = m
  <2>1. 1 \in Int /\ m \in Int
    OBVIOUS
  <2>2. IsFiniteSet(1..m) /\ Cardinality(1..m) = IF 1 > m THEN 0 ELSE m - 1 + 1
    BY <2>1, FS_Interval, Zenon
  <2>. QED
    BY <2>2
<1>5. /\ IsFiniteSet(1..KeyMax) /\ IsFiniteSet(1..n)
      /\ Cardinality(1..n) < Cardinality(1..KeyMax)
    BY <1>2, <1>4
<1>6. \E x, y \in 1..KeyMax : x # y /\ f[x] = f[y]
    BY <1>3, <1>5, FS_PigeonHole, Zenon
<1>. QED
    BY <1>3, <1>6

\* connect looks for a key from behind the last one on, or from 1 on.
LEMMA FreeKeyFacts ==
    ASSUME NEW ss \in Seq(SlotEntries), Sorted(ss), Len(ss) < KeyMax
    PROVE  /\ Stored(FreeKey(ss)) \in 1..KeyMax
           /\ \A i \in 1..Len(ss) : ss[i].key # Stored(FreeKey(ss))
<1>. DEFINE used == KeysUsed(ss)
            first == IF ss = <<>> THEN 1
                     ELSE IF Q!Last(ss).key # KeyMax THEN Q!Last(ss).key + 1 ELSE 1
<1>1. PICK n \in Nat : n = Len(ss)
    OBVIOUS
<1>2. KeyMax \in Nat /\ n < KeyMax
    BY <1>1, SignalsAssumption
<1>3. \A k : k \in used <=> \E i \in 1..n : ss[i].key = k
  <2>1. DOMAIN ss = 1..n
    BY <1>1
  <2>. QED
    BY <2>1 DEF KeysUsed
<1>4. \A i \in 1..n : ss[i].key \in 1..KeyMax /\ ss[i].key \in Nat
    BY <1>1, EntryFacts
\* The search begins at a key from which on one is left.
<1>5. first \in 1..KeyMax /\ \E k \in first..KeyMax : k \notin used
  <2>1. CASE ss = <<>>
    <3>1. n = 0 /\ first = 1
        BY <1>1, <2>1
    <3>. QED
        BY <1>2, <1>3, <3>1
  <2>2. CASE ss # <<>> /\ Q!Last(ss).key = KeyMax
    <3>1. first = 1
        BY <2>2
    <3>2. PICK k \in 1..KeyMax : \A i \in 1..Len(ss) : ss[i].key # k
        BY SomeKeyLeft
    <3>. QED
        BY <1>1, <1>2, <1>3, <3>1, <3>2
  <2>3. CASE ss # <<>> /\ Q!Last(ss).key # KeyMax
    <3>1. n \in 1..n /\ Q!Last(ss) = ss[n]
        BY <1>1, <2>3 DEF Q!Last
    <3>2. first = ss[n].key + 1 /\ ss[n].key # KeyMax
        BY <2>3, <3>1
    <3>3. first \in 1..KeyMax /\ first \in first..KeyMax
        BY <1>2, <1>4, <3>1, <3>2
    <3>4. ASSUME NEW i \in 1..n PROVE ss[i].key # first
      <4>1. CASE i = n
        BY <1>4, <3>1, <3>2, <4>1
      <4>2. CASE i # n
        <5>1. ss[i].key < ss[n].key
            BY <1>1, <3>1, <4>2 DEF Sorted
        <5>. QED
            BY <1>4, <3>1, <3>2, <5>1
      <4>. QED
        BY <4>1, <4>2
    <3>. QED
        BY <1>3, <3>3, <3>4
  <2>. QED
    BY <2>1, <2>2, <2>3
<1>. HIDE DEF used, first
<1>6. PICK least \in {k \in first..KeyMax : k \notin used} :
        \A k \in {k \in first..KeyMax : k \notin used} : least <= k
  <2>1. {k \in first..KeyMax : k \notin used} \subseteq Nat
    BY <1>2, <1>5
  <2>2. {k \in first..KeyMax : k \notin used} # {}
    BY <1>5
  <2>. QED
    BY <2>1, <2>2, Least
<1>7. /\ least \in first..(first + KeyMax) /\ Stored(least) \notin used
      /\ \A j \in first..(least - 1) : Stored(j) \in used
  <2>1. least \in first..(first + KeyMax) /\ least \in 0..KeyMax
    BY <1>2, <1>5, <1>6
  <2>2. ASSUME NEW j \in first..(least - 1) PROVE Stored(j) \in used
    <3>1. j \in 0..KeyMax /\ j \in first..KeyMax /\ ~(least <= j)
        BY <1>2, <1>5, <1>6
    <3>2. j \in used
        BY <1>6, <3>1
    <3>. QED
        BY <3>1, <3>2, StoredFacts
  <2>. QED
    BY <1>6, <2>1, <2>2, StoredFacts
<1>8. FreeKey(ss) = CHOOSE k \in first..(first + KeyMax) :
                      Stored(k) \notin used /\ \A j \in first..(k - 1) : Stored(j) \in used
    BY DEF FreeKey, first, used
<1>9. /\ FreeKey(ss) \in first..(first + KeyMax) /\ Stored(FreeKey(ss)) \notin used
      /\ \A j \in first..(FreeKey(ss) - 1) : Stored(j) \in used
    BY <1>7, <1>8, Zenon
<1>10. FreeKey(ss) <= least
  <2>. SUFFICES ASSUME least < FreeKey(ss) PROVE FALSE
    BY <1>2, <1>5, <1>6, <1>9
  <2>1. least \in first..(FreeKey(ss) - 1)
    BY <1>2, <1>5, <1>6, <1>9
  <2>. QED
    BY <1>7, <1>9, <2>1
<1>11. FreeKey(ss) \in 0..KeyMax /\ FreeKey(ss) \in 1..KeyMax
    BY <1>2, <1>5, <1>6, <1>9, <1>10
<1>12. Stored(FreeKey(ss)) = FreeKey(ss)
    BY <1>11, StoredFacts
<1>. QED
    BY <1>1, <1>3, <1>9, <1>11, <1>12

\* connect puts the slot into the map, with a key of its own.
LEMMA ConnectedFacts ==
    ASSUME NEW ss \in Seq(SlotEntries), Sorted(ss), Len(ss) < KeyMax, NEW slot \in Slots
    PROVE  /\ Connected(ss, slot) \in Seq(SlotEntries) /\ Sorted(Connected(ss, slot))
           /\ \A m, s : Has(Connected(ss, slot), m, s)
                        <=> Has(ss, m, s) \/ (m = Stored(FreeKey(ss)) /\ s = slot)
<1>1. PICK k \in 1..KeyMax : k = Stored(FreeKey(ss)) /\ \A i \in 1..Len(ss) : ss[i].key # k
    BY FreeKeyFacts
<1>2. k \in Nat /\ [key |-> k, slot |-> slot] \in SlotEntries
    BY SignalsAssumption DEF SlotEntries
<1>3. PICK n \in Nat : n = Len(ss)
    OBVIOUS
<1>4. PICK p \in 1..(n + 1) : p = Place(ss, k) /\ \A i \in 1..n : ss[i].key < k <=> i < p
    BY <1>2, <1>3, PlaceFacts
<1>5. PICK e \in SlotEntries : e = [key |-> k, slot |-> slot]
    BY <1>2
<1>6. PICK made \in Seq(SlotEntries) : made = Connected(ss, slot)
        /\ Len(made) = n + 1
        /\ \A i \in 1..(n + 1) : made[i] = IF i < p THEN ss[i] ELSE IF i = p THEN e ELSE ss[i - 1]
  <2>1. Connected(ss, slot) = Q!InsertAt(ss, p, e)
    BY <1>1, <1>4, <1>5 DEF Connected
  <2>2. SlotPut(Q!InsertAt(ss, p, e), ss, p, e)
    <3>1. p \in 1..(Len(ss) + 1)
        BY <1>3
    <3>. QED
        BY <3>1, SlotInserted, Zenon
  <2>3. SlotPut(Connected(ss, slot), ss, p, e)
    BY <2>1, <2>2, Zenon
  <2>. QED
    BY <1>3, <2>3 DEF SlotPut
<1>7. \A i \in 1..n : /\ ss[i].key \in Nat /\ ss[i].key # k
                      /\ \A j \in 1..n : i < j => ss[i].key < ss[j].key
  <2>1. \A i \in 1..n : ss[i].key \in Nat
    BY <1>3, EntryFacts
  <2>2. \A i \in 1..n : \A j \in 1..n : i < j => ss[i].key < ss[j].key
    BY <1>3 DEF Sorted
  <2>. QED
    BY <1>1, <1>3, <2>1, <2>2
<1>8. ASSUME NEW i \in 1..(n + 1), NEW j \in 1..(n + 1), i < j
      PROVE  made[i].key < made[j].key
  <2>1. CASE j < p
    <3>1. i \in 1..n /\ j \in 1..n /\ i < p /\ made[i] = ss[i] /\ made[j] = ss[j]
        BY <1>4, <1>6, <1>8, <2>1
    <3>. QED
        BY <1>7, <1>8, <3>1
  <2>2. CASE j = p
    <3>1. i \in 1..n /\ i < p /\ made[i] = ss[i] /\ made[j].key = k
        BY <1>4, <1>5, <1>6, <1>8, <2>2
    <3>. QED
        BY <1>4, <3>1
  <2>3. CASE i = p
    <3>1. j - 1 \in 1..n /\ ~(j - 1 < p) /\ made[j] = ss[j - 1] /\ made[i].key = k
        BY <1>4, <1>5, <1>6, <1>8, <2>3
    <3>2. ~(ss[j - 1].key < k)
        BY <1>4, <3>1
    <3>. QED
        BY <1>2, <1>7, <3>1, <3>2
  <2>4. CASE i < p /\ p < j
    <3>1. i \in 1..n /\ j - 1 \in 1..n /\ ~(j - 1 < p) /\ made[i] = ss[i] /\ made[j] = ss[j - 1]
        BY <1>4, <1>6, <1>8, <2>4
    <3>2. ss[i].key < k /\ ~(ss[j - 1].key < k)
        BY <1>4, <2>4, <3>1
    <3>. QED
        BY <1>2, <1>7, <3>1, <3>2
  <2>5. CASE p < i
    <3>1. /\ i - 1 \in 1..n /\ j - 1 \in 1..n /\ i - 1 < j - 1
          /\ made[i] = ss[i - 1] /\ made[j] = ss[j - 1]
        BY <1>4, <1>6, <1>8, <2>5
    <3>. QED
        BY <1>7, <3>1
  <2>. QED
    BY <1>4, <1>8, <2>1, <2>2, <2>3, <2>4, <2>5
<1>9. ASSUME NEW m, NEW s
      PROVE  Has(made, m, s) <=> Has(ss, m, s) \/ (m = k /\ s = slot)
  <2>1. ASSUME Has(made, m, s) PROVE Has(ss, m, s) \/ (m = k /\ s = slot)
    <3>1. PICK i \in 1..(n + 1) : made[i].key = m /\ made[i].slot = s
        BY <1>6, <2>1 DEF Has
    <3>2. CASE i < p
      <4>1. i \in 1..n /\ made[i] = ss[i]
        BY <1>4, <1>6, <3>2
      <4>. QED
        BY <1>3, <3>1, <4>1 DEF Has
    <3>3. CASE i = p
        BY <1>5, <1>6, <3>1, <3>3
    <3>4. CASE p < i
      <4>1. i - 1 \in 1..n /\ made[i] = ss[i - 1]
        BY <1>4, <1>6, <3>4
      <4>. QED
        BY <1>3, <3>1, <4>1 DEF Has
    <3>. QED
        BY <1>4, <3>2, <3>3, <3>4
  <2>2. ASSUME m = k, s = slot PROVE Has(made, m, s)
    <3>1. made[p] = e /\ p \in 1..Len(made)
        BY <1>4, <1>6
    <3>. QED
        BY <1>5, <2>2, <3>1 DEF Has
  <2>3. ASSUME Has(ss, m, s) PROVE Has(made, m, s)
    <3>1. PICK i \in 1..n : ss[i].key = m /\ ss[i].slot = s
        BY <1>3, <2>3 DEF Has
    <3>2. CASE i < p
      <4>1. i \in 1..Len(made) /\ made[i] = ss[i]
        BY <1>4, <1>6, <3>2
      <4>. QED
        BY <3>1, <4>1 DEF Has
    <3>3. CASE ~(i < p)
      <4>1. i + 1 \in 1..Len(made) /\ made[i + 1] = ss[(i + 1) - 1] /\ (i + 1) - 1 = i
        BY <1>4, <1>6, <3>3
      <4>. QED
        BY <3>1, <4>1 DEF Has
    <3>. QED
        BY <3>2, <3>3
  <2>. QED
    BY <2>1, <2>2, <2>3
<1>10. Sorted(made)
    BY <1>6, <1>8 DEF Sorted
<1>. QED
    BY <1>1, <1>6, <1>9, <1>10

-----------------------------------------------------------------------------
(* The owners of the keys: a binding, or the caller of connect for a slot. *)

\* An entry of a signal that is sorted is the only one with its key.
LEMMA HasFacts ==
    ASSUME NEW ss \in Seq(SlotEntries), Sorted(ss), NEW k, NEW s, Has(ss, k, s)
    PROVE  /\ k \in 1..KeyMax /\ k \in Nat /\ k # 0 /\ s \in Slots
           /\ \A t : Has(ss, k, t) => t = s
<1>1. PICK i \in 1..Len(ss) : ss[i].key = k /\ ss[i].slot = s
    BY DEF Has
<1>2. k \in 1..KeyMax /\ k \in Nat /\ k # 0 /\ s \in Slots
    BY <1>1, EntryFacts
<1>3. ASSUME NEW t, Has(ss, k, t) PROVE t = s
  <2>1. PICK j \in 1..Len(ss) : ss[j].key = k /\ ss[j].slot = t
    BY <1>3 DEF Has
  <2>2. ~(i < j) /\ ~(j < i)
    BY <1>1, <1>2, <2>1 DEF Sorted
  <2>. QED
    BY <1>1, <2>1, <2>2
<1>. QED
    BY <1>2, <1>3

MapTypeOK(ss, rk, bd) ==
    /\ ss \in Seq(SlotEntries) /\ Sorted(ss)
    /\ rk \in [Slots -> 0..KeyMax]
    /\ bd \in [Binders -> [key : 0..KeyMax, slot : Slots \cup {"none"}]]

(***************************************************************************)
(* What the owners hold is in the map, each key in one hand, and what is   *)
(* in the map is held by one of them.                                      *)
(***************************************************************************)
Held(ss, rk, bd) ==
    /\ \A b \in Binders : bd[b].key # 0 => Has(ss, bd[b].key, bd[b].slot)
    /\ \A s \in Slots : rk[s] # 0 => Has(ss, rk[s], s)

Alone(rk, bd) ==
    /\ \A b, c \in Binders : bd[b].key # 0 /\ bd[b].key = bd[c].key => b = c
    /\ \A b \in Binders, s \in Slots : bd[b].key # 0 => bd[b].key # rk[s]

Owned(ss, rk, bd) ==
    \A k, s : Has(ss, k, s) => \/ \E b \in Binders : bd[b].key = k /\ bd[b].slot = s
                               \/ s \in Slots /\ rk[s] = k

InHands(ss, rk, bd) == MapTypeOK(ss, rk, bd) /\ Held(ss, rk, bd) /\ Alone(rk, bd) /\ Owned(ss, rk, bd)

(***************************************************************************)
(* A call under way is at one of the slots and has called those before.    *)
(***************************************************************************)
CallInv ==
    /\ at \in Nat /\ upTo \in Nat
    /\ at # 0 => /\ upTo = Len(slots) /\ at \in 1..upTo
                 /\ called = [i \in 1..(at - 1) |-> slots[i].slot]

SignalInv == InHands(slots, rawKey, bound) /\ CallInv

\* connect() gives the caller a key that no one holds.
LEMMA ConnectKeeps ==
    ASSUME NEW ss, NEW rk, NEW bd, InHands(ss, rk, bd), Len(ss) < KeyMax,
           NEW s \in Slots, rk[s] = 0
    PROVE  InHands(Connected(ss, s), [rk EXCEPT ![s] = Stored(FreeKey(ss))], bd)
<1>. DEFINE made == Connected(ss, s)
            keys == [rk EXCEPT ![s] = Stored(FreeKey(ss))]
<1>1. MapTypeOK(ss, rk, bd) /\ Held(ss, rk, bd) /\ Alone(rk, bd) /\ Owned(ss, rk, bd)
    BY DEF InHands
<1>2. ss \in Seq(SlotEntries) /\ Sorted(ss)
    BY <1>1 DEF MapTypeOK
<1>3. PICK k \in 1..KeyMax : k = Stored(FreeKey(ss)) /\ \A i \in 1..Len(ss) : ss[i].key # k
    BY <1>2, FreeKeyFacts
<1>4. k # 0 /\ k \in 0..KeyMax /\ \A t : ~Has(ss, k, t)
    BY <1>3, SignalsAssumption DEF Has
<1>5. /\ made \in Seq(SlotEntries) /\ Sorted(made)
      /\ \A m, t : Has(made, m, t) <=> Has(ss, m, t) \/ (m = k /\ t = s)
    BY <1>2, <1>3, ConnectedFacts
<1>6. keys \in [Slots -> 0..KeyMax] /\ keys[s] = k /\ \A t \in Slots : t # s => keys[t] = rk[t]
    BY <1>1, <1>3, <1>4 DEF MapTypeOK
<1>. HIDE DEF made, keys
<1>7. MapTypeOK(made, keys, bd)
    BY <1>1, <1>5, <1>6 DEF MapTypeOK
<1>8. Held(made, keys, bd)
    BY <1>1, <1>5, <1>6 DEF Held
<1>9. Alone(keys, bd)
    BY <1>1, <1>4, <1>6 DEF Alone, Held
<1>10. Owned(made, keys, bd)
  <2>. SUFFICES ASSUME NEW m, NEW t, Has(made, m, t)
                PROVE  \/ \E b \in Binders : bd[b].key = m /\ bd[b].slot = t
                       \/ t \in Slots /\ keys[t] = m
    BY DEF Owned
  <2>1. CASE m = k /\ t = s
    BY <1>6, <2>1
  <2>2. CASE Has(ss, m, t)
    <3>1. m # 0
        BY <1>2, <2>2, HasFacts
    <3>. QED
        BY <1>1, <1>6, <2>2, <3>1 DEF Owned
  <2>. QED
    BY <1>5, <2>1, <2>2
<1>. QED
    BY <1>7, <1>8, <1>9, <1>10 DEF InHands, made, keys

\* disconnect() takes what the key names out of the map.
LEMMA DisconnectKeeps ==
    ASSUME NEW ss, NEW rk, NEW bd, InHands(ss, rk, bd), NEW s \in Slots, rk[s] # 0
    PROVE  InHands(Erased(ss, rk[s]), [rk EXCEPT ![s] = 0], bd)
<1>. DEFINE others == Erased(ss, rk[s])
            keys == [rk EXCEPT ![s] = 0]
<1>1. MapTypeOK(ss, rk, bd) /\ Held(ss, rk, bd) /\ Alone(rk, bd) /\ Owned(ss, rk, bd)
    BY DEF InHands
<1>2. ss \in Seq(SlotEntries) /\ Sorted(ss)
    BY <1>1 DEF MapTypeOK
<1>3. Has(ss, rk[s], s) /\ rk[s] \in Nat
  <2>1. Has(ss, rk[s], s)
    BY <1>1 DEF Held
  <2>. QED
    BY <1>2, <2>1, HasFacts
<1>4. /\ others \in Seq(SlotEntries) /\ Sorted(others)
      /\ \A m, t : Has(others, m, t) <=> Has(ss, m, t) /\ m # rk[s]
    BY <1>2, <1>3, ErasedFacts
<1>5. keys \in [Slots -> 0..KeyMax] /\ keys[s] = 0 /\ \A t \in Slots : t # s => keys[t] = rk[t]
    BY <1>1, SignalsAssumption DEF MapTypeOK
<1>6. \A t \in Slots : t # s /\ rk[t] # 0 => rk[t] # rk[s]
  <2>. SUFFICES ASSUME NEW t \in Slots, t # s, rk[t] # 0, rk[t] = rk[s] PROVE FALSE
    OBVIOUS
  <2>1. Has(ss, rk[s], t)
    BY <1>1 DEF Held
  <2>. QED
    BY <1>2, <1>3, <2>1, HasFacts
<1>. HIDE DEF others, keys
<1>7. MapTypeOK(others, keys, bd)
    BY <1>1, <1>4, <1>5 DEF MapTypeOK
<1>8. Held(others, keys, bd)
    BY <1>1, <1>4, <1>5, <1>6 DEF Held, Alone
<1>9. Alone(keys, bd)
    BY <1>1, <1>5 DEF Alone
<1>10. Owned(others, keys, bd)
    BY <1>1, <1>4, <1>5 DEF Owned
<1>. QED
    BY <1>7, <1>8, <1>9, <1>10 DEF InHands, others, keys

\* The new key of a binding is one that no one holds; the old one goes.
LEMMA BindKeeps ==
    ASSUME NEW ss, NEW rk, NEW bd, InHands(ss, rk, bd), Len(ss) < KeyMax,
           NEW s \in Slots, NEW b \in Binders
    PROVE  InHands(IF bd[b].key # 0 THEN Erased(Connected(ss, s), bd[b].key) ELSE Connected(ss, s),
                   rk, [bd EXCEPT ![b] = [key |-> Stored(FreeKey(ss)), slot |-> s]])
<1>. DEFINE made == Connected(ss, s)
            left == IF bd[b].key # 0 THEN Erased(made, bd[b].key) ELSE made
            hands == [bd EXCEPT ![b] = [key |-> Stored(FreeKey(ss)), slot |-> s]]
<1>1. MapTypeOK(ss, rk, bd) /\ Held(ss, rk, bd) /\ Alone(rk, bd) /\ Owned(ss, rk, bd)
    BY DEF InHands
<1>2. ss \in Seq(SlotEntries) /\ Sorted(ss)
    BY <1>1 DEF MapTypeOK
<1>3. PICK k \in 1..KeyMax : k = Stored(FreeKey(ss)) /\ \A i \in 1..Len(ss) : ss[i].key # k
    BY <1>2, FreeKeyFacts
<1>4. k # 0 /\ k \in 0..KeyMax /\ \A t : ~Has(ss, k, t)
    BY <1>3, SignalsAssumption DEF Has
<1>5. /\ made \in Seq(SlotEntries) /\ Sorted(made)
      /\ \A m, t : Has(made, m, t) <=> Has(ss, m, t) \/ (m = k /\ t = s)
    BY <1>2, <1>3, ConnectedFacts
<1>6. bd[b].key \in Nat /\ \A c \in Binders : bd[c].key # k
  <2>1. \A c \in Binders : bd[c].key \in 0..KeyMax
    BY <1>1 DEF MapTypeOK
  <2>. QED
    BY <1>1, <1>4, <2>1, SignalsAssumption DEF Held
<1>. HIDE DEF made
<1>7. /\ left \in Seq(SlotEntries) /\ Sorted(left)
      /\ \A m, t : Has(left, m, t) <=> (Has(ss, m, t) \/ (m = k /\ t = s)) /\ m # bd[b].key
  <2>1. CASE bd[b].key # 0
    BY <1>5, <1>6, <2>1, ErasedFacts, ZenonT(40)
  <2>2. CASE bd[b].key = 0
    BY <1>2, <1>4, <1>5, <2>2, HasFacts
  <2>. QED
    BY <2>1, <2>2
<1>8. /\ hands \in [Binders -> [key : 0..KeyMax, slot : Slots \cup {"none"}]]
      /\ hands[b].key = k /\ hands[b].slot = s
      /\ \A c \in Binders : c # b => hands[c] = bd[c]
    BY <1>1, <1>3, <1>4 DEF MapTypeOK
<1>9. \A t \in Slots : rk[t] # k
    BY <1>1, <1>4 DEF Held
<1>. HIDE DEF left, hands
<1>10. MapTypeOK(left, rk, hands)
    BY <1>1, <1>7, <1>8 DEF MapTypeOK
<1>11. Held(left, rk, hands)
  <2>1. ASSUME NEW c \in Binders, hands[c].key # 0 PROVE Has(left, hands[c].key, hands[c].slot)
    <3>1. CASE c = b
        BY <1>6, <1>7, <1>8, <3>1
    <3>2. CASE c # b
        BY <1>1, <1>7, <1>8, <2>1, <3>2 DEF Held, Alone
    <3>. QED
        BY <3>1, <3>2
  <2>2. ASSUME NEW t \in Slots, rk[t] # 0 PROVE Has(left, rk[t], t)
    <3>1. Has(ss, rk[t], t) /\ rk[t] # bd[b].key
        BY <1>1, <2>2 DEF Held, Alone
    <3>. QED
        BY <1>7, <3>1
  <2>. QED
    BY <2>1, <2>2 DEF Held
<1>12. Alone(rk, hands)
  <2>1. ASSUME NEW c \in Binders, NEW d \in Binders, hands[c].key # 0, hands[c].key = hands[d].key
        PROVE  c = d
    BY <1>1, <1>6, <1>8, <2>1 DEF Alone
  <2>2. ASSUME NEW c \in Binders, NEW t \in Slots, hands[c].key # 0 PROVE hands[c].key # rk[t]
    BY <1>1, <1>8, <1>9, <2>2 DEF Alone
  <2>. QED
    BY <2>1, <2>2 DEF Alone
<1>13. Owned(left, rk, hands)
  <2>. SUFFICES ASSUME NEW m, NEW t, Has(left, m, t)
                PROVE  \/ \E c \in Binders : hands[c].key = m /\ hands[c].slot = t
                       \/ t \in Slots /\ rk[t] = m
    BY DEF Owned
  <2>1. CASE m = k /\ t = s
    BY <1>8, <2>1
  <2>2. CASE Has(ss, m, t) /\ m # bd[b].key
    <3>1. ASSUME NEW c \in Binders, bd[c].key = m, bd[c].slot = t
          PROVE  hands[c].key = m /\ hands[c].slot = t
        BY <1>8, <2>2, <3>1
    <3>. QED
        BY <1>1, <2>2, <3>1 DEF Owned
  <2>. QED
    BY <1>7, <2>1, <2>2
<1>. QED
    BY <1>10, <1>11, <1>12, <1>13 DEF InHands, left, hands, made

\* A binding that is moved from holds what the other one held.
LEMMA MoveKeeps ==
    ASSUME NEW ss, NEW rk, NEW bd, InHands(ss, rk, bd), NEW a \in Binders, NEW b \in Binders, a # b
    PROVE  InHands(ss, rk, [bd EXCEPT ![a] = bd[b], ![b] = bd[a]])
<1>. DEFINE hands == [bd EXCEPT ![a] = bd[b], ![b] = bd[a]]
<1>1. MapTypeOK(ss, rk, bd) /\ Held(ss, rk, bd) /\ Alone(rk, bd) /\ Owned(ss, rk, bd)
    BY DEF InHands
<1>2. /\ hands \in [Binders -> [key : 0..KeyMax, slot : Slots \cup {"none"}]]
      /\ hands[a] = bd[b] /\ hands[b] = bd[a]
      /\ \A c \in Binders : c # a /\ c # b => hands[c] = bd[c]
    BY <1>1 DEF MapTypeOK
<1>. HIDE DEF hands
<1>3. MapTypeOK(ss, rk, hands)
    BY <1>1, <1>2 DEF MapTypeOK
<1>4. Held(ss, rk, hands)
    BY <1>1, <1>2 DEF Held
<1>5. Alone(rk, hands)
    BY <1>1, <1>2 DEF Alone
<1>6. Owned(ss, rk, hands)
    BY <1>1, <1>2 DEF Owned
<1>. QED
    BY <1>3, <1>4, <1>5, <1>6 DEF InHands, hands

\* A binding that is disconnected or destroyed takes its slot out of the map.
LEMMA UnbindKeeps ==
    ASSUME NEW ss, NEW rk, NEW bd, InHands(ss, rk, bd), NEW b \in Binders, bd[b].key # 0
    PROVE  InHands(Erased(ss, bd[b].key), rk, [bd EXCEPT ![b] = Unbound])
<1>. DEFINE others == Erased(ss, bd[b].key)
            hands == [bd EXCEPT ![b] = Unbound]
<1>1. MapTypeOK(ss, rk, bd) /\ Held(ss, rk, bd) /\ Alone(rk, bd) /\ Owned(ss, rk, bd)
    BY DEF InHands
<1>2. ss \in Seq(SlotEntries) /\ Sorted(ss)
    BY <1>1 DEF MapTypeOK
<1>3. Has(ss, bd[b].key, bd[b].slot) /\ bd[b].key \in Nat
  <2>1. Has(ss, bd[b].key, bd[b].slot)
    BY <1>1 DEF Held
  <2>. QED
    BY <1>2, <2>1, HasFacts
<1>4. /\ others \in Seq(SlotEntries) /\ Sorted(others)
      /\ \A m, t : Has(others, m, t) <=> Has(ss, m, t) /\ m # bd[b].key
    BY <1>2, <1>3, ErasedFacts
<1>5. /\ hands \in [Binders -> [key : 0..KeyMax, slot : Slots \cup {"none"}]]
      /\ hands[b].key = 0 /\ \A c \in Binders : c # b => hands[c] = bd[c]
    BY <1>1, SignalsAssumption DEF MapTypeOK, Unbound
<1>. HIDE DEF others, hands
<1>6. MapTypeOK(others, rk, hands)
    BY <1>1, <1>4, <1>5 DEF MapTypeOK
<1>7. Held(others, rk, hands)
  <2>1. ASSUME NEW c \in Binders, hands[c].key # 0 PROVE Has(others, hands[c].key, hands[c].slot)
    BY <1>1, <1>4, <1>5, <2>1 DEF Held, Alone
  <2>2. ASSUME NEW t \in Slots, rk[t] # 0 PROVE Has(others, rk[t], t)
    BY <1>1, <1>4, <2>2 DEF Held, Alone
  <2>. QED
    BY <2>1, <2>2 DEF Held
<1>8. Alone(rk, hands)
    BY <1>1, <1>5 DEF Alone
<1>9. Owned(others, rk, hands)
    BY <1>1, <1>4, <1>5 DEF Owned
<1>. QED
    BY <1>6, <1>7, <1>8, <1>9 DEF InHands, others, hands

\* A call advances over the slots that were connected when it began.
LEMMA CallKept ==
    ASSUME SignalInv, CallSlot
    PROVE  CallInv'
<1>1. PICK n \in Nat : n = Len(slots)
    BY DEF SignalInv, InHands, MapTypeOK
<1>2. slots \in Seq(SlotEntries) /\ \A i \in 1..n : slots[i].slot \in Slots
  <2>1. slots \in Seq(SlotEntries)
    BY DEF SignalInv, InHands, MapTypeOK
  <2>. QED
    BY <1>1, <2>1, EntryFacts
<1>3. PICK k \in 1..n : k = at /\ upTo = n /\ called = [i \in 1..(k - 1) |-> slots[i].slot]
    BY <1>1 DEF SignalInv, CallInv, CallSlot
<1>4. slots' = slots /\ upTo' = upTo /\ at' = IF k = n THEN 0 ELSE k + 1
    BY <1>3 DEF CallSlot
<1>5. CASE k = n
    BY <1>3, <1>4, <1>5 DEF CallInv
<1>6. CASE k # n
  <2>1. k \in DOMAIN slots
    BY <1>1, <1>2
  <2>2. called' = Append(called, slots[k].slot)
    BY <1>3, <1>6, <2>1 DEF CallSlot
  <2>3. called \in Seq(Slots) /\ Len(called) = k - 1
    BY <1>2, <1>3
  <2>4. /\ Append(called, slots[k].slot) \in Seq(Slots)
        /\ Len(Append(called, slots[k].slot)) = k
        /\ \A i \in 1..(k - 1) : Append(called, slots[k].slot)[i] = called[i]
        /\ Append(called, slots[k].slot)[k] = slots[k].slot
    BY <1>2, <2>3, AppendProperties
  <2>5. Append(called, slots[k].slot) = [i \in 1..k |-> slots[i].slot]
    <3>. DEFINE more == Append(called, slots[k].slot)
    <3>. HIDE DEF more
    <3>1. more \in Seq(Slots) /\ Len(more) = k /\ \A i \in 1..k : more[i] = slots[i].slot
        BY <1>3, <2>4 DEF more
    <3>. QED
        BY <3>1 DEF more
  <2>6. (k + 1) - 1 = k /\ k + 1 \in Nat /\ n \in Nat /\ k + 1 # 0 /\ k + 1 \in 1..n
    BY <1>6
  <2>7. called' = [i \in 1..(at' - 1) |-> slots'[i].slot]
    BY <1>4, <1>6, <2>2, <2>5, <2>6
  <2>. QED
    BY <1>1, <1>3, <1>4, <1>6, <2>6, <2>7 DEF CallInv
<1>. QED
    BY <1>5, <1>6

\* Every step of a signal keeps the invariant.
LEMMA SignalStepKeeps ==
    ASSUME SignalInv, [SignalNext]_callVars
    PROVE  SignalInv'
<1>0. InHands(slots, rawKey, bound) /\ CallInv
    BY DEF SignalInv
<1>. SUFFICES InHands(slots', rawKey', bound') /\ CallInv'
    BY DEF SignalInv, InHands, MapTypeOK, Held, Alone, Owned, Has, Sorted
<1>1. ASSUME NEW s \in Slots, Connect(s) PROVE InHands(slots', rawKey', bound') /\ CallInv'
  <2>1. InHands(slots', rawKey', bound')
    BY <1>0, <1>1, ConnectKeeps DEF Connect, KeysLeft
  <2>. QED
    BY <1>0, <1>1, <2>1 DEF Connect, MayChange, CallInv
<1>2. ASSUME NEW s \in Slots, Disconnect(s) PROVE InHands(slots', rawKey', bound') /\ CallInv'
  <2>1. InHands(slots', rawKey', bound')
    BY <1>0, <1>2, DisconnectKeeps DEF Disconnect
  <2>. QED
    BY <1>0, <1>2, <2>1 DEF Disconnect, MayChange, CallInv
<1>3. ASSUME NEW s \in Slots, NEW b \in Binders, Bind(b, s)
      PROVE  InHands(slots', rawKey', bound') /\ CallInv'
  <2>1. InHands(slots', rawKey', bound')
    <3>. DEFINE left == IF bound[b].key # 0 THEN Erased(Connected(slots, s), bound[b].key)
                       ELSE Connected(slots, s)
                hands == [bound EXCEPT ![b] = [key |-> Stored(FreeKey(slots)), slot |-> s]]
    <3>1. Len(slots) < KeyMax
        BY <1>3 DEF Bind, KeysLeft
    <3>2. InHands(left, rawKey, hands)
        BY <1>0, <3>1, BindKeeps, Zenon
    <3>3. slots' = left /\ rawKey' = rawKey /\ bound' = hands
        BY <1>3 DEF Bind
    <3>. HIDE DEF left, hands
    <3>. QED
        BY <3>2, <3>3
  <2>. QED
    BY <1>0, <1>3, <2>1 DEF Bind, MayChange, CallInv
<1>4. ASSUME NEW b \in Binders, Unbind(b) PROVE InHands(slots', rawKey', bound') /\ CallInv'
  <2>1. InHands(slots', rawKey', bound')
    BY <1>0, <1>4, UnbindKeeps DEF Unbind
  <2>. QED
    BY <1>0, <1>4, <2>1 DEF Unbind, MayChange, CallInv
<1>5. ASSUME NEW a \in Binders, NEW b \in Binders, MoveBinding(a, b)
      PROVE  InHands(slots', rawKey', bound') /\ CallInv'
  <2>1. InHands(slots', rawKey', bound')
    <3>1. InHands(slots, rawKey, [bound EXCEPT ![a] = bound[b], ![b] = bound[a]])
        BY <1>0, <1>5, MoveKeeps, Zenon DEF MoveBinding
    <3>2. /\ slots' = slots /\ rawKey' = rawKey
          /\ bound' = [bound EXCEPT ![a] = bound[b], ![b] = bound[a]]
        BY <1>5 DEF MoveBinding
    <3>. QED
        BY <3>1, <3>2, Zenon
  <2>. QED
    BY <1>0, <1>5, <2>1 DEF MoveBinding, MayChange, CallInv
<1>6. CASE BeginCall
  <2>1. slots' = slots /\ rawKey' = rawKey /\ bound' = bound
    BY <1>6 DEF BeginCall
  <2>2. PICK n \in Nat : n = Len(slots) /\ n # 0
    BY <1>0, <1>6 DEF InHands, MapTypeOK, BeginCall
  <2>3. at' = 1 /\ upTo' = n /\ called' = <<>>
    BY <1>6, <2>2 DEF BeginCall
  <2>4. <<>> = [i \in 1..(1 - 1) |-> slots[i].slot]
    OBVIOUS
  <2>. QED
    BY <1>0, <2>1, <2>2, <2>3, <2>4 DEF CallInv
<1>7. CASE CallSlot
    BY <1>0, <1>7, CallKept DEF CallSlot
<1>8. CASE UNCHANGED callVars
    BY <1>0, <1>8 DEF callVars, CallInv
<1>. QED
    BY <1>1, <1>2, <1>3, <1>4, <1>5, <1>6, <1>7, <1>8 DEF SignalNext

\* The steps of a loop, as the signal sees them.
LEMMA LoopIsSignal == [LoopNext]_<<loop, vars, signalVars>> => [SignalNext]_callVars
<1>1. RunSwitch => UNCHANGED callVars
    BY DEF RunSwitch, SwitchNext, SwitchOn, SwitchOff, SwitchStep, SwitchPoll, SwitchGoOn, Flip,
           ResetState, SayOff, Forget, Poll, SayOn, Remember
<1>. QED
    BY <1>1 DEF LoopNext, RunScheduler, RunSignal, signalVars

\* The map holds as many slots as there are keys in hands.
LEMMA OwnedAreCounted ==
    ASSUME NEW ss \in Seq(SlotEntries), Sorted(ss)
    PROVE  Cardinality({<<ss[i].key, ss[i].slot>> : i \in DOMAIN ss}) = Len(ss)
<1>. DEFINE T == {<<ss[i].key, ss[i].slot>> : i \in DOMAIN ss}
<1>1. PICK n \in Nat : n = Len(ss) /\ DOMAIN ss = 1..n
    OBVIOUS
<1>. DEFINE f == [i \in 1..n |-> <<ss[i].key, ss[i].slot>>]
<1>2. f \in Surjection(1..n, T)
    BY <1>1 DEF Surjection
<1>3. \A i, j \in 1..n : ss[i].key = ss[j].key => i = j
  <2>. SUFFICES ASSUME NEW i \in 1..n, NEW j \in 1..n, ss[i].key = ss[j].key, i < j PROVE FALSE
    OBVIOUS
  <2>1. ss[i].key < ss[j].key /\ ss[i].key \in Nat
    BY <1>1, EntryFacts DEF Sorted
  <2>. QED
    BY <2>1
<1>4. f \in Injection(1..n, T)
  <2>1. f \in [1..n -> T]
    BY <1>1
  <2>2. \A i, j \in 1..n : f[i] = f[j] => i = j
    BY <1>3
  <2>. QED
    BY <2>1, <2>2 DEF Injection, IsInjective
<1>5. IsFiniteSet(1..n) /\ Cardinality(1..n) = n
  <2>1. 1 \in Int /\ n \in Int
    OBVIOUS
  <2>2. IsFiniteSet(1..n) /\ Cardinality(1..n) = IF 1 > n THEN 0 ELSE n - 1 + 1
    BY <2>1, FS_Interval, Zenon
  <2>. QED
    BY <2>2
<1>. HIDE DEF f, T
<1>6. Cardinality(T) = Cardinality(1..n)
    BY <1>2, <1>4, <1>5, FS_Surjection
<1>. QED
    BY <1>1, <1>5, <1>6 DEF T

\* The invariant implies that keys name their slots and calls reach them.
LEMMA SignalInvSuffices ==
    ASSUME SignalInv
    PROVE  SignalsReachTheirSlots
<1>1. /\ MapTypeOK(slots, rawKey, bound) /\ Held(slots, rawKey, bound) /\ Alone(rawKey, bound)
      /\ Owned(slots, rawKey, bound) /\ CallInv
    BY DEF SignalInv, InHands
<1>2. slots \in Seq(SlotEntries) /\ Sorted(slots) /\ DOMAIN slots = 1..Len(slots)
    BY <1>1 DEF MapTypeOK
<1>. DEFINE held == {<<slots[i].key, slots[i].slot>> : i \in DOMAIN slots}
            owned == {<<bound[b].key, bound[b].slot>> : b \in {x \in Binders : bound[x].key # 0}}
                     \cup {<<rawKey[s], s>> : s \in {x \in Slots : rawKey[x] # 0}}
<1>3. owned \subseteq held
    BY <1>1, <1>2 DEF Held, Has
<1>4. held \subseteq owned
  <2>. SUFFICES ASSUME NEW i \in DOMAIN slots
                PROVE  <<slots[i].key, slots[i].slot>> \in owned
    OBVIOUS
  <2>1. PICK k, s : k = slots[i].key /\ s = slots[i].slot
    OBVIOUS
  <2>2. Has(slots, k, s)
    BY <1>2, <2>1 DEF Has
  <2>3. k # 0
    BY <1>2, <2>2, HasFacts
  <2>4. CASE \E b \in Binders : bound[b].key = k /\ bound[b].slot = s
    BY <2>1, <2>3, <2>4
  <2>5. CASE s \in Slots /\ rawKey[s] = k
    BY <2>1, <2>3, <2>5
  <2>. QED
    BY <1>1, <2>2, <2>4, <2>5 DEF Owned
<1>5. Cardinality(held) = Len(slots)
    BY <1>2, OwnedAreCounted
<1>6. held = owned
    BY <1>3, <1>4
<1>. HIDE DEF held
<1>7. KeysNameTheirSlots
    BY <1>1, <1>5, <1>6 DEF KeysNameTheirSlots, Alone, held
<1>8. CallsReachEverySlot
    BY <1>1 DEF CallInv, CallsReachEverySlot
<1>. QED
    BY <1>7, <1>8 DEF SignalsReachTheirSlots

(***************************************************************************)
(* Every connected slot is held under a key of its own by the binding, or  *)
(* the caller, that it was connected for, and a call reaches each of them  *)
(* in the order of their keys, whatever was connected, bound, moved and    *)
(* disconnected before (signal::connect, disconnect, bind, operator()).    *)
(***************************************************************************)
THEOREM SignalsStayConnected == LoopSpec => []SignalsReachTheirSlots
<1>1. LoopInit => SignalInv
  <2>. SUFFICES ASSUME LoopInit PROVE SignalInv
    OBVIOUS
  <2>1. /\ slots = <<>> /\ rawKey = [s \in Slots |-> 0] /\ bound = [b \in Binders |-> Unbound]
        /\ at = 0 /\ upTo = 0
    BY DEF LoopInit, SignalsInit
  <2>2. /\ <<>> \in Seq(SlotEntries) /\ Sorted(<<>>) /\ \A k, s : ~Has(<<>>, k, s)
    BY DEF Sorted, Has
  <2>3. MapTypeOK(slots, rawKey, bound)
    BY <2>1, <2>2, SignalsAssumption DEF MapTypeOK, Unbound
  <2>4. Held(slots, rawKey, bound) /\ Alone(rawKey, bound)
    BY <2>1 DEF Held, Alone, Unbound
  <2>5. Owned(slots, rawKey, bound)
    BY <2>1, <2>2 DEF Owned
  <2>. QED
    BY <2>1, <2>3, <2>4, <2>5 DEF SignalInv, InHands, CallInv
<1>2. SignalInv /\ [LoopNext]_<<loop, vars, signalVars>> => SignalInv'
    BY LoopIsSignal, SignalStepKeeps
<1>3. SignalInv => SignalsReachTheirSlots
    BY SignalInvSuffices
<1>. QED
    BY <1>1, <1>2, <1>3, PTL DEF LoopSpec
=============================================================================
