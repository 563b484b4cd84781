------------------------------ MODULE LogProxy ------------------------------
(***************************************************************************)
(* From the loggers of the application to the entries of the log: the      *)
(* basic_logger calls, log_entry, the proxy_log_backend that keeps calls   *)
(* back until the configuration was read, and the json_log_backend that    *)
(* then takes over, whose lock is held from begin_message to               *)
(* finish_message.  Before main_ctx configures the log only the main       *)
(* thread runs; the other threads are joined before the log is finished.   *)
(* Each thread makes one entry at a time.                                  *)
(***************************************************************************)
EXTENDS Integers, Sequences, FiniteSets

CONSTANTS
    Threads, Main,  \* the threads that log, one of which is the main one
    Severities,     \* log_event_severity, a range of integers
    MaxCalls,       \* bound: calls made
    Signals         \* are SIGUSR1 and SIGUSR2 sent?

ASSUME LogProxyAssumption ==
    /\ Main \in Threads /\ "free" \notin Threads
    /\ Severities \subseteq Nat
    /\ MaxCalls \in Nat
    /\ Signals \in BOOLEAN

VARIABLES
    phase,          \* "starting", "failed", "running", "finished"
    calls,          \* history: the calls made; a call is known by its number
    delegate,       \* is _delegate set?
    pending,        \* is _delayed set?
    delayed,        \* the calls kept in _delayed
    configured,     \* log.severity of the configuration
    severity,       \* _min_severity of the delegate
    entry,          \* the log_entry each thread is making, 0 if none
    backend,        \* and the backend it goes to
    lock,           \* the holder of _lockable, or "free"
    buffer,         \* _buffer of the delegate, a sequence of parts
    out             \* what was given to the log_output_stream, entry by entry

vars == <<phase, calls, delegate, pending, delayed, configured, severity, entry,
          backend, lock, buffer, out>>

Call(op, t, s) == [op |-> op, thread |-> t, severity |-> s]
Number == Len(calls) + 1

\* The parts of a message; a call of any other kind is one part.
Begin(n) == [call |-> n, part |-> "begin"]
Arg(n) == [call |-> n, part |-> "arg"]
Finish(n) == [call |-> n, part |-> "finish"]
Whole(n) == [call |-> n, part |-> "whole"]

EntryOf(n) == IF calls[n].op = "message" THEN <<Begin(n), Arg(n), Finish(n)>> ELSE <<Whole(n)>>

\* root_logger's constructor: the proxy is the backend and begin_log the
\* first call; the severity in the configuration is yet to be read.
Init ==
    /\ phase = "starting"
    /\ calls = <<Call("begin_log", Main, 0)>>
    /\ delegate = FALSE
    /\ pending = TRUE
    /\ delayed = <<1>>
    /\ configured \in Severities
    /\ severity = configured
    /\ entry = [t \in Threads |-> 0]
    /\ backend = [t \in Threads |-> "none"]
    /\ lock = "free"
    /\ buffer = <<>>
    /\ out = <<>>

\* May the thread make another call now?
Runs(t) ==
    /\ phase \in {"starting", "running"}
    /\ phase = "starting" => t = Main
    /\ entry[t] = 0
    /\ Len(calls) < MaxCalls

-----------------------------------------------------------------------------
(* Messages.                                                               *)

\* entry_backend
EntryBackend(s) ==
    CASE ~delegate -> "proxy"
      [] delegate /\ s >= severity -> "delegate"
      [] OTHER -> "none"

\* A log_entry is made; an entry without a backend comes to nothing.
MakeEntry(t, s) ==
    /\ Runs(t)
    /\ EntryBackend(s) # "none"
    /\ entry' = [entry EXCEPT ![t] = Number]
    /\ backend' = [backend EXCEPT ![t] = EntryBackend(s)]
    /\ calls' = Append(calls, Call("message", t, s))
    /\ UNCHANGED <<phase, delegate, pending, delayed, configured, severity, lock,
                   buffer, out>>

DropEntry(t) == delayed                     \* mutant of KeepEntry

\* begin_message, the arguments and finish_message of the proxy.
KeepEntry(t) == Append(delayed, entry[t])

\* ~log_entry with the proxy as backend.
DelayMessage(t) ==
    /\ entry[t] # 0 /\ backend[t] = "proxy"
    /\ pending
    /\ delayed' = KeepEntry(t)
    /\ entry' = [entry EXCEPT ![t] = 0]
    /\ UNCHANGED <<phase, calls, delegate, pending, configured, severity, backend, lock,
                   buffer, out>>

NeverLock(t) == UNCHANGED lock              \* mutant of TakeLock

TakeLock(t) ==
    /\ lock = "free"
    /\ lock' = t

\* ~log_entry with the delegate: begin_message leaves it locked.
BeginMessage(t) ==
    /\ entry[t] # 0 /\ backend[t] = "delegate"
    /\ TakeLock(t)
    /\ buffer' = Append(buffer, Begin(entry[t]))
    /\ backend' = [backend EXCEPT ![t] = "begun"]
    /\ UNCHANGED <<phase, calls, delegate, pending, delayed, configured, severity, entry, out>>

AddArg(t) ==
    /\ backend[t] = "begun"
    /\ buffer' = Append(buffer, Arg(entry[t]))
    /\ backend' = [backend EXCEPT ![t] = "added"]
    /\ UNCHANGED <<phase, calls, delegate, pending, delayed, configured, severity, entry,
                   lock, out>>

KeepLock == UNCHANGED lock                  \* mutant of Unlock

Unlock == lock' = "free"

FinishMessage(t) ==
    /\ backend[t] = "added"
    /\ out' = Append(out, Append(buffer, Finish(entry[t])))
    /\ buffer' = <<>>
    /\ Unlock
    /\ entry' = [entry EXCEPT ![t] = 0]
    /\ backend' = [backend EXCEPT ![t] = "none"]
    /\ UNCHANGED <<phase, calls, delegate, pending, delayed, configured, severity>>

-----------------------------------------------------------------------------
(* The other calls.                                                        *)

\* heartbeat: forwarded, in one critical section, or kept back.
Heartbeat(t) ==
    /\ Runs(t)
    /\ calls' = Append(calls, Call("heartbeat", t, 0))
    /\ IF delegate
       THEN /\ lock = "free"
            /\ out' = Append(out, <<Whole(Number)>>)
            /\ UNCHANGED delayed
       ELSE /\ delayed' = Append(delayed, Number)
            /\ UNCHANGED out
    /\ UNCHANGED <<phase, delegate, pending, configured, severity, entry, backend, lock, buffer>>

\* set_description, declare_state and active_state are only ever kept back.
Describe(t) ==
    /\ Runs(t)
    /\ calls' = Append(calls, Call("describe", t, 0))
    /\ delayed' = IF pending THEN Append(delayed, Number) ELSE delayed
    /\ UNCHANGED <<phase, delegate, pending, configured, severity, entry, backend, lock,
                   buffer, out>>

\* make_more_verbose and make_less_verbose, from the signal handlers.
SetVerbosity(s) ==
    /\ Signals
    /\ phase = "running"
    /\ s \in {severity - 1, severity + 1}
    /\ severity' = s
    /\ UNCHANGED <<phase, calls, delegate, pending, delayed, configured, entry, backend,
                   lock, buffer, out>>

\* The calls kept back, made again on the delegate, whatever their severity.
Replayed == [i \in 1..Len(delayed) |-> EntryOf(delayed[i])]

Configure ==
    /\ phase = "starting"
    /\ entry[Main] = 0
    /\ \/ /\ phase' = "running"
          /\ delegate' = TRUE
          /\ severity' = configured
          /\ out' = out \o Replayed
          /\ delayed' = <<>>
          /\ pending' = FALSE
       \/ \* the backend cannot be made: log_backend_error
          /\ phase' = "failed"
          /\ UNCHANGED <<delegate, severity, out, delayed, pending>>
    /\ UNCHANGED <<calls, configured, entry, backend, lock, buffer>>

\* ~root_logger; main_ctx_storage has joined the worker threads by then.
FinishLog ==
    /\ phase \in {"running", "failed"}
    /\ \A t \in Threads : entry[t] = 0
    /\ phase' = "finished"
    /\ calls' = Append(calls, Call("finish_log", Main, 0))
    /\ IF delegate
       THEN /\ lock = "free"
            /\ out' = Append(out, <<Whole(Number)>>)
            /\ UNCHANGED delayed
       ELSE /\ delayed' = Append(delayed, Number)
            /\ UNCHANGED out
    /\ UNCHANGED <<delegate, pending, configured, severity, entry, backend, lock, buffer>>

Thread(t) ==
    \/ \E s \in Severities : MakeEntry(t, s)
    \/ DelayMessage(t)
    \/ BeginMessage(t)
    \/ AddArg(t)
    \/ FinishMessage(t)
    \/ Heartbeat(t)
    \/ Describe(t)

Next ==
    \/ \E t \in Threads : Thread(t)
    \/ \E s \in Severities : SetVerbosity(s)
    \/ Configure
    \/ FinishLog

\* A thread that is in a destructor goes on; nobody has to log.
Fairness ==
    /\ \A t \in Threads : WF_vars(DelayMessage(t) \/ AddArg(t) \/ FinishMessage(t))
    /\ \A t \in Threads : WF_vars(BeginMessage(t))

Spec == Init /\ [][Next]_vars /\ Fairness

-----------------------------------------------------------------------------
(* Properties.                                                             *)

\* The threads share one buffer: an entry of the log is all of one message,
\* or one other call.
EntriesAreWhole == \A i \in 1..Len(out) : out[i] = EntryOf(out[i][1].call)

Position(n) == {i \in 1..Len(out) : out[i][1].call = n}
Delayed(n) == {i \in 1..Len(delayed) : delayed[i] = n}
Done(n) == \A t \in Threads : entry[t] # n

\* Every message and heartbeat, also one from before the configuration, is in
\* the log exactly once, or is still kept back.
MessagesReachTheLog ==
    \A n \in 1..Len(calls) :
        calls[n].op # "describe" /\ Done(n) => Cardinality(Position(n)) + Cardinality(Delayed(n)) = 1

\* Each thread's calls are in the log in the order the thread made them, and
\* the log begins with begin_log and ends with finish_log.
LogIsInOrder ==
    /\ \A i, j \in 1..Len(out) :
          LET m == out[i][1].call
              n == out[j][1].call
          IN calls[m].thread = calls[n].thread /\ i < j => m < n
    /\ out # <<>> => out[1] = <<Whole(1)>>
    /\ out # <<>> /\ phase = "finished" => out[Len(out)] = <<Whole(Len(calls))>>

\* Nothing is lost, doubled or reordered on the way through the proxy, before,
\* at and after its configuration.
LogIsComplete == MessagesReachTheLog /\ LogIsInOrder

\* Nobody waits for the lock forever: an entry that is made gets written.
EntriesAreWritten == \A t \in Threads : entry[t] # 0 ~> entry[t] = 0

\* "Sets the user-readable description for the logger object."
DescriptionsReachTheLog ==
    \A n \in 1..Len(calls) : Done(n) => Position(n) # {} \/ Delayed(n) # {}
=============================================================================
