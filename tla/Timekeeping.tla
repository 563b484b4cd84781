---------------------------- MODULE Timekeeping -----------------------------
(***************************************************************************)
(* What keeps track of what has passed: timeouts, the watchdog that relies *)
(* on one, and variables with a history.                                   *)
(***************************************************************************)
EXTENDS Integers, Sequences, SequencesExt

(***************************************************************************)
(* timeout, resetting_timeout and backing_off_timeout, and the process     *)
(* watchdog, which feeds the service manager with the help of one.  Time   *)
(* is kept as what is left until the deadlines.                            *)
(***************************************************************************)

CONSTANTS
    WatchdogInterval,       \* what the service manager asks for; 0: no watchdog
    NotifyPeriod,           \* the main loop calls notify() at least this often
    HeartbeatPeriod,        \* of the heartbeats logged, 30 seconds in the code
    MinPeriod, MaxPeriod,   \* of the backing_off_timeout
    MaxExtensions           \* bound: extend() calls counted

ASSUME TimeoutsAssumption ==
    /\ {WatchdogInterval, NotifyPeriod, HeartbeatPeriod, MinPeriod, MaxPeriod} \subseteq Nat \ {0}
    /\ 2 * NotifyPeriod <= WatchdogInterval
    /\ MinPeriod <= MaxPeriod

VARIABLES
    phase,                  \* "starting", "watched", "stopped"
    feedIn,                 \* until _should_notify expires
    unfed,                  \* time since the service manager last heard of us
    unpolled,               \* time since the main loop called notify()
    heartIn,                \* until _should_log_heartbeat expires
    unlogged,               \* time since the last heartbeat, or the start
    curPeriod, backIn,      \* backing_off_timeout
    extended,               \* extend() calls since the last rewind()
    announced               \* what sd_notify was told, repetitions left out

timeoutVars == <<phase, feedIn, unfed, unpolled, heartIn, unlogged, curPeriod, backIn, extended, announced>>

\* timeout{period, initial}, and reset(period, initial): what is left, and expiry.
NewTimeout(initial) == initial

IsExpired(rest) == rest = 0

AfterTick(rest) == IF rest = 0 THEN 0 ELSE rest - 1

\* resetting_timeout as a condition: the next rest.
Polled(rest, period) == IF IsExpired(rest) THEN NewTimeout(period) ELSE rest

WholeInterval == WatchdogInterval   \* mutant of FeedPeriod

FeedPeriod == WatchdogInterval \div 2

TimeoutsInit ==
    /\ phase = "starting" /\ announced = <<>>
    /\ feedIn = NewTimeout(0) /\ heartIn = NewTimeout(0)
    /\ unfed = 0 /\ unpolled = 0 /\ unlogged = 0
    /\ curPeriod = MinPeriod /\ backIn = NewTimeout(MinPeriod) /\ extended = 0

\* start_watch(): watched_process_lifetime declares the process ready.
StartWatch ==
    /\ phase = "starting"
    /\ phase' = "watched" /\ announced' = Append(announced, "READY=1")
    /\ unfed' = 0 /\ unpolled' = 0
    /\ UNCHANGED <<feedIn, heartIn, unlogged, curPeriod, backIn, extended>>

\* notify(): feeds the manager and logs a heartbeat, each when its time has come.
NotifyAlive ==
    /\ phase = "watched"
    /\ unpolled' = 0
    /\ feedIn' = Polled(feedIn, FeedPeriod)
    /\ unfed' = IF IsExpired(feedIn) THEN 0 ELSE unfed
    /\ announced' = IF IsExpired(feedIn) /\ announced[Len(announced)] # "WATCHDOG=1" THEN Append(announced, "WATCHDOG=1") ELSE announced
    /\ heartIn' = Polled(heartIn, HeartbeatPeriod)
    /\ unlogged' = IF IsExpired(heartIn) THEN 0 ELSE unlogged
    /\ UNCHANGED <<phase, curPeriod, backIn, extended>>

\* The destructor of watched_process_lifetime.
AnnounceShutdown ==
    /\ phase = "watched"
    /\ phase' = "stopped" /\ announced' = Append(announced, "STOPPING=1")
    /\ UNCHANGED <<feedIn, unfed, unpolled, heartIn, unlogged, curPeriod, backIn, extended>>

\* reset(), rewind() and extend() of the backing_off_timeout.
BackReset ==
    /\ backIn' = NewTimeout(curPeriod)
    /\ UNCHANGED <<phase, feedIn, unfed, unpolled, heartIn, unlogged, curPeriod, extended, announced>>

RewindBackOff ==
    /\ curPeriod' = MinPeriod /\ backIn' = NewTimeout(MinPeriod) /\ extended' = 0
    /\ UNCHANGED <<phase, feedIn, unfed, unpolled, heartIn, unlogged, announced>>

Extend ==
    /\ extended < MaxExtensions
    /\ curPeriod' = IF curPeriod * 2 < MaxPeriod THEN curPeriod * 2 ELSE MaxPeriod
    /\ backIn' = NewTimeout(curPeriod')
    /\ extended' = extended + 1
    /\ UNCHANGED <<phase, feedIn, unfed, unpolled, heartIn, unlogged, announced>>

\* Time passes; the main loop of a watched process does not let NotifyPeriod go
\* by without calling notify().
Tick ==
    /\ phase = "watched" => unpolled < NotifyPeriod
    /\ feedIn' = AfterTick(feedIn) /\ heartIn' = AfterTick(heartIn) /\ backIn' = AfterTick(backIn)
    /\ IF phase = "watched" THEN unfed' = unfed + 1 /\ unpolled' = unpolled + 1 /\ unlogged' = unlogged + 1
                            ELSE UNCHANGED <<unfed, unpolled, unlogged>>
    /\ UNCHANGED <<phase, curPeriod, extended, announced>>

TimeoutsNext ==
    StartWatch \/ NotifyAlive \/ AnnounceShutdown \/ BackReset \/ RewindBackOff \/ Extend \/ Tick

-----------------------------------------------------------------------------
\* As long as the main loop calls notify() twice in the interval the service
\* manager never waits longer than that interval, heartbeats are not much later
\* than their period, and after READY and before STOPPING is when it is fed.
WatchdogFed ==
    /\ phase = "watched" => unfed <= WatchdogInterval /\ unlogged <= HeartbeatPeriod + NotifyPeriod
    /\ announced \in {<<>>, <<"READY=1">>, <<"READY=1", "WATCHDOG=1">>, <<"READY=1", "STOPPING=1">>,
                  <<"READY=1", "WATCHDOG=1", "STOPPING=1">>}

\* The period doubles with every extend() since the last rewind(), up to its
\* maximum, and the deadline is never further away than the period.
BackOffDoubles ==
    /\ curPeriod = IF MinPeriod * 2^extended < MaxPeriod THEN MinPeriod * 2^extended ELSE MaxPeriod
    /\ backIn <= curPeriod

-----------------------------------------------------------------------------
(***************************************************************************)
(* variable_with_history: a value and its last revisions, newest last.     *)
(***************************************************************************)

CONSTANTS
    Revisions,              \* N
    HistVals,               \* values
    Deltas,                 \* what advance() is called with
    MaxPast                 \* bound: values assigned

ASSUME HistoriesAssumption == Revisions \in Nat /\ Revisions >= 2 /\ HistVals \subseteq Int

VARIABLES
    revisions,              \* _values
    past,                   \* every current value there was, from the initial one
    advanced                \* the value the last advance() should have made current

historyVars == <<revisions, past, advanced>>

HistoriesInit ==
    \E v \in HistVals : /\ revisions = [i \in 1..Revisions |-> v]
                        /\ past = [i \in 1..Revisions |-> v] /\ advanced = v

\* std::rotate: the oldest revision comes to stand where the current one does.
Shift(vs) == Append(Tail(vs), Head(vs))

SetCurrent(vs, v) == [vs EXCEPT ![Len(vs)] = v]

HistGet(vs, i) == vs[Len(vs) - i]

Becomes(vs) == revisions' = vs /\ past' = Append(past, Last(vs)) /\ Len(past) < MaxPast

\* operator<<, and assign(), which leaves a value that does not change alone.
PushValue(v) == Becomes(SetCurrent(Shift(revisions), v)) /\ advanced' = v

AssignValue(v) == Last(revisions) # v /\ PushValue(v)

\* advance(): shift, then add to what is current.
Advance(d) ==
    /\ Last(Shift(revisions)) + d \in HistVals
    /\ Becomes(SetCurrent(Shift(revisions), Last(Shift(revisions)) + d))
    /\ advanced' = Last(revisions) + d

\* sync(): all revisions become the current one.
Sync ==
    /\ revisions' = [i \in 1..Revisions |-> Last(revisions)]
    /\ past' = [i \in 1..Revisions |-> Last(revisions)]
    /\ advanced' = Last(revisions)

HistoriesNext ==
    \/ \E v \in HistVals : PushValue(v) \/ AssignValue(v)
    \/ \E d \in Deltas : Advance(d)
    \/ Sync

HistoriesSpec == HistoriesInit /\ [][HistoriesNext]_historyVars

\* deltas(), delta() and changed().
StoredDeltas(vs) == [i \in 1..(Len(vs) - 1) |-> vs[i + 1] - vs[i]]

Delta(vs) == HistGet(vs, 0) - HistGet(vs, 1)

HasChanged(vs) == HistGet(vs, 1) # HistGet(vs, 0)

\* transform() of two histories, revision by revision.
TransformHistory(as, bs, op) == [i \in DOMAIN as |-> op[<<as[i], bs[i]>>]]

-----------------------------------------------------------------------------
SumOf(s) == LET sum[i \in 0..Len(s)] == IF i = 0 THEN 0 ELSE sum[i - 1] + s[i] IN sum[Len(s)]

\* The revisions are the last values there were, in their order, the deltas are
\* the steps between them and add up to the way from the oldest to the current.
HistoryRemembers ==
    /\ revisions = SubSeq(past, Len(past) - Revisions + 1, Len(past))
    /\ SumOf(StoredDeltas(revisions)) = Last(revisions) - Head(revisions)
    /\ Last(StoredDeltas(revisions)) = Delta(revisions)
    /\ HasChanged(revisions) = (Delta(revisions) # 0)
    /\ LET difference == [ab \in ToSet(revisions) \X ToSet(revisions) |-> ab[1] - ab[2]]
       IN  TransformHistory(revisions, revisions, difference) = [i \in 1..Revisions |-> 0]

\* advance() advances the current value by the delta, as its comment says.
AdvancesTheCurrent == Last(revisions) = advanced
=============================================================================
