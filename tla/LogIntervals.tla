---------------------------- MODULE LogIntervals ----------------------------
(***************************************************************************)
(* Time intervals: basic_logger registers them with its backend and        *)
(* measures them with log_time_interval objects; the json_log_backend      *)
(* writes the average of each batch of measurements.  Only the entry is    *)
(* written under the backend's lock, the interval's own numbers are not.   *)
(* Until the proxy is configured the interval is number 0, which nobody    *)
(* measures.                                                               *)
(* And a repeating_log_entry_control, which lets an entry that a program   *)
(* makes again and again into the log less and less often.                 *)
(***************************************************************************)
EXTENDS Integers, Sequences, FiniteSets

CONSTANTS
    IvThreads,              \* the threads
    IvLogger,               \* IvThreads -> the logger object each one uses
    Batch,                  \* measurements that make an entry, 1000 in the code
    MaxClock, MaxReports,   \* bounds: time, entries
    OrigInterval,           \* the interval a control is made with
    MaxRepeats              \* bound: entries logged between two resets

ASSUME LogIntervalsAssumption ==
    /\ {Batch, OrigInterval} \subseteq Nat \ {0}
    /\ {MaxClock, MaxReports, MaxRepeats} \subseteq Nat

VARIABLES
    delegated,              \* does the proxy have its delegate?
    clock,
    infos,                  \* logger -> [start, count, duration], of the registered ones
    handle,                 \* thread -> its time_interval_id: 0, "none" or a logger
    ivpc, now, seen,        \* thread -> where it is, its copies of the time and of the numbers
    began,                  \* history: thread -> when its measurement began
    spent,                  \* history: logger -> the measurements since its last entry
    reports                 \* the entries: [logger, tns, spent]

intervalVars == <<delegated, clock, infos, handle, ivpc, now, seen, began, spent, reports>>

IvLoggers == {IvLogger[t] : t \in IvThreads}
Unmeasured == [start |-> 0, count |-> 0, duration |-> 0]

IntervalsInit ==
    /\ delegated = FALSE /\ clock = 0
    /\ infos = [l \in {} |-> Unmeasured]
    /\ handle = [t \in IvThreads |-> "none"] /\ ivpc = [t \in IvThreads |-> "idle"]
    /\ now = [t \in IvThreads |-> 0] /\ seen = [t \in IvThreads |-> Unmeasured]
    /\ began = [t \in IvThreads |-> 0] /\ spent = [l \in IvLoggers |-> <<>>] /\ reports = <<>>

\* register_time_interval: the interval of a label and a logger is made once.
RegisterInterval(t) ==
    /\ ivpc[t] = "idle" /\ handle[t] = "none"
    /\ LET l == IvLogger[t]
       IN IF delegated
          THEN /\ handle' = [handle EXCEPT ![t] = l]
               /\ infos' = [k \in DOMAIN infos \cup {l} |-> IF k \in DOMAIN infos THEN infos[k] ELSE Unmeasured]
          ELSE handle' = [handle EXCEPT ![t] = "0"] /\ UNCHANGED infos
    /\ UNCHANGED <<delegated, clock, ivpc, now, seen, began, spent, reports>>

\* A registered interval; number 0 is none.
_get_interval(t) == handle[t] \in DOMAIN infos

\* log_time_interval: time_interval_begin, and later time_interval_end.
BeginInterval(t) ==
    /\ ivpc[t] = "idle" /\ handle[t] # "none" /\ Len(reports) < MaxReports
    /\ ivpc' = [ivpc EXCEPT ![t] = "measuring"] /\ began' = [began EXCEPT ![t] = clock]
    /\ infos' = IF _get_interval(t) THEN [infos EXCEPT ![handle[t]].start = clock] ELSE infos
    /\ UNCHANGED <<delegated, clock, handle, now, seen, spent, reports>>

\* The numbers are read and written without the lock.
ReadNumbers(t) ==
    /\ ivpc[t] = "measuring"
    /\ IF _get_interval(t)
       THEN /\ ivpc' = [ivpc EXCEPT ![t] = "adding"]
            /\ now' = [now EXCEPT ![t] = clock] /\ seen' = [seen EXCEPT ![t] = infos[handle[t]]]
            /\ spent' = [spent EXCEPT ![handle[t]] = Append(@, clock - began[t])]
       ELSE ivpc' = [ivpc EXCEPT ![t] = "idle"] /\ UNCHANGED <<now, seen, spent>>
    /\ UNCHANGED <<delegated, clock, infos, handle, began, reports>>

WriteNumbers(t) ==
    /\ ivpc[t] = "adding"
    /\ infos' = [infos EXCEPT ![handle[t]].count = seen[t].count + 1,
                              ![handle[t]].duration = seen[t].duration + (now[t] - seen[t].start)]
    /\ ivpc' = [ivpc EXCEPT ![t] = IF seen[t].count + 1 >= Batch THEN "reporting" ELSE "idle"]
    /\ UNCHANGED <<delegated, clock, handle, now, seen, began, spent, reports>>

Emptied(i) == [i EXCEPT !.count = 0, !.duration = 0]

\* The entry, under the lock, and the reset.
ReportBatch(t) ==
    /\ ivpc[t] = "reporting"
    /\ LET l == handle[t]
       IN /\ reports' = Append(reports, [logger |-> l, tns |-> infos[l].duration \div Batch, spent |-> spent[l]])
          /\ infos' = [infos EXCEPT ![l] = Emptied(@)]
          /\ spent' = [spent EXCEPT ![l] = <<>>]
    /\ ivpc' = [ivpc EXCEPT ![t] = "idle"]
    /\ UNCHANGED <<delegated, clock, handle, now, seen, began>>

ConfigureProxy ==
    /\ ~delegated /\ delegated' = TRUE
    /\ UNCHANGED <<clock, infos, handle, ivpc, now, seen, began, spent, reports>>

IvTick ==
    /\ clock < MaxClock /\ clock' = clock + 1
    /\ UNCHANGED <<delegated, infos, handle, ivpc, now, seen, began, spent, reports>>

IntervalsNext ==
    \/ \E t \in IvThreads : \/ RegisterInterval(t) \/ BeginInterval(t)
                            \/ ReadNumbers(t) \/ WriteNumbers(t) \/ ReportBatch(t)
    \/ ConfigureProxy \/ IvTick

IntervalsSpec == IntervalsInit /\ [][IntervalsNext]_intervalVars

\* As long as no two threads measure the interval of one logger, every entry
\* is the average of exactly the measurements made since the last one,
\* however the threads, the configuration and the clock interleave
\* (time_interval_begin, time_interval_end).
SumOf(s) == LET sum[i \in 0..Len(s)] == IF i = 0 THEN 0 ELSE sum[i - 1] + s[i] IN sum[Len(s)]
AveragesAreRight ==
    \A i \in 1..Len(reports) :
        (\A t, u \in IvThreads : t # u => IvLogger[t] # IvLogger[u]) =>
            /\ Len(reports[i].spent) = Batch
            /\ reports[i].tns = SumOf(reports[i].spent) \div Batch

-----------------------------------------------------------------------------
(* The control of an entry that repeats. *)

VARIABLES
    period, rest,           \* of its timeout; rest is what is left of it
    since,                  \* history: time since the entry was last logged
    gaps,                   \* history: those times, since the last reset
    last                    \* "none", "logged" or "held back"

repeatVars == <<period, rest, since, gaps, last>>

\* timeout{interval, nothing} has expired from the start.
RepeatsInit == period = OrigInterval /\ rest = 0 /\ since = 0 /\ gaps = <<>> /\ last = "none"

should_be_logged == rest = 0

SamePeriod == period    \* mutant of DoubledPeriod

\* was_logged: the timeout starts again with twice the period.
DoubledPeriod == period * 2

\* make_log_entry with a control; was_logged whether or not there is a
\* backend that takes the entry.
RepeatEntry(hasBackend) ==
    /\ Len(gaps) < MaxRepeats
    /\ IF should_be_logged
       THEN /\ period' = DoubledPeriod /\ rest' = DoubledPeriod
            /\ since' = 0 /\ gaps' = Append(gaps, since)
            /\ last' = IF hasBackend THEN "logged" ELSE "held back"
       ELSE /\ last' = "held back"
            /\ UNCHANGED <<period, rest, since, gaps>>

ResetControl ==
    /\ gaps # <<>>
    /\ period' = OrigInterval /\ rest' = 0 /\ gaps' = <<>> /\ last' = "none"
    /\ UNCHANGED since

RepeatTick ==
    /\ since < OrigInterval * 2^(MaxRepeats + 1)
    /\ rest' = (IF rest = 0 THEN 0 ELSE rest - 1) /\ since' = since + 1
    /\ UNCHANGED <<period, gaps, last>>

RepeatsNext == (\E b \in BOOLEAN : RepeatEntry(b)) \/ ResetControl \/ RepeatTick

RepeatsSpec == RepeatsInit /\ [][RepeatsNext]_repeatVars

\* The entries of a repeating_log_entry_control come further and further
\* apart, however often the program asks for them: the time before the
\* i-th one is at least 2^(i-1) times the interval, until the control is
\* reset (was_logged, make_log_entry).
RepeatsBackOff ==
    \A i \in 2..Len(gaps) : gaps[i] >= OrigInterval * 2^(i - 1)
=============================================================================
