----------------------------- MODULE MCLogging -----------------------------
(***************************************************************************)
(* The parts of the logging subsystem, one of them in a behaviour: the     *)
(* loggers, their entries, the proxy and the output stream meet only in    *)
(* the calls that each of the modules has as its actions.                  *)
(***************************************************************************)
EXTENDS LogProxy, LogStream, LogEntries, LoggerObjects, LogIntervals

MCPlaceValues == {<<"0">>, <<"1", "0">>}
MCFormats == {<<"">>, <<"a", "b">>, <<"a", "b", "a">>}
MCArguments ==
    UNION {[1..n -> {"null", "syslog", "nw", "local", "address", "spinlock", "no_lock", "json", "xml"}] : n \in 0..3}

\* The choice of a backend and the severities, over short argument lists.
ASSUME \A args \in MCArguments, default \in DOMAIN Defaults, env \in BOOLEAN : BackendLaws(args, default, env)
ASSUME \A s \in 1..Len(SeverityNames) : SeverityLaw(s)

MCIvLogger == [t \in IvThreads |-> IF t = "i1" THEN "o1" ELSE "o2"]

VARIABLE part               \* the part that runs

\* The parts that do not run begin in one way only.
OneStart ==
    /\ part # "entries" => \A p \in Places : Len(mem[p]) = 1
    /\ part # "proxy" => configured = CHOOSE s \in Severities : TRUE

LoggingInit ==
    /\ part \in {"proxy", "stream", "entries", "repeats", "objects", "intervals"}
    /\ Init /\ StreamInit /\ RepeatsInit /\ LoggersInit /\ IntervalsInit
    /\ EntriesInit
    /\ OneStart

RunProxy ==
    /\ part = "proxy" /\ Next
    /\ UNCHANGED <<part, streamVars, entryVars, repeatVars, loggerVars, intervalVars>>

RunStream ==
    /\ part = "stream" /\ StreamNext
    /\ UNCHANGED <<part, vars, entryVars, repeatVars, loggerVars, intervalVars>>

RunEntries ==
    /\ part = "entries" /\ EntriesNext
    /\ UNCHANGED <<part, vars, streamVars, repeatVars, loggerVars, intervalVars>>

RunRepeats ==
    /\ part = "repeats" /\ RepeatsNext
    /\ UNCHANGED <<part, vars, streamVars, entryVars, loggerVars, intervalVars>>

RunLoggers ==
    /\ part = "objects" /\ LoggersNext
    /\ UNCHANGED <<part, vars, streamVars, entryVars, repeatVars, intervalVars>>

RunIntervals ==
    /\ part = "intervals" /\ IntervalsNext
    /\ UNCHANGED <<part, vars, streamVars, entryVars, repeatVars, loggerVars>>

LoggingNext == RunProxy \/ RunStream \/ RunEntries \/ RunRepeats \/ RunLoggers \/ RunIntervals

LoggingVars == <<part, vars, streamVars, entryVars, repeatVars, loggerVars, intervalVars>>

LoggingSpec == LoggingInit /\ [][LoggingNext]_LoggingVars /\ Fairness

\* What the log says of times is right: repeated entries back off, and the
\* averages of intervals are those of the measurements.
LogTimesAreRight == RepeatsBackOff /\ AveragesAreRight
=============================================================================
