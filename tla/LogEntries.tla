----------------------------- MODULE LogEntries -----------------------------
(***************************************************************************)
(* A log_entry from its first arg() to its end, when the calls it keeps    *)
(* are made on the backend: what each overload of arg keeps of its value,  *)
(* and the syslog backend, which keeps the values of arguments from one    *)
(* message to the next.  Values live in places of the program's memory,    *)
(* which may change while an entry is being made; a value is a sequence,   *)
(* its first member stands for it where the overload takes a single value. *)
(***************************************************************************)
EXTENDS Integers, Sequences, FiniteSets, TLC, SequencesExt

CONSTANTS
    Places, PlaceValues,    \* the memory arguments are taken from
    ArgTypes,               \* the overloads of arg that are called
    ArgNames,               \* the names of arguments
    Formats,                \* formats: sequences of the names in ${...} and of "" for text
    CompiledSeverity,       \* min_log_severity of the build
    BackendSeverity,        \* _min_severity of the backend
    Methods,                \* the methods of a logger that entries are made with
    FallbackTexts,          \* texts given for a value that is missing
    Conversions,            \* those of the texts that printf takes for conversions
    MaxPlaceholders,        \* what _do_log is instantiated for, 12 in the code
    MaxArgs                 \* bound: arguments of an entry

ASSUME LogEntriesAssumption ==
    /\ \A p \in PlaceValues : Len(p) \in Nat \ {0}
    /\ Formats \subseteq Seq(ArgNames \cup {""})
    /\ {CompiledSeverity, BackendSeverity, MaxPlaceholders, MaxArgs} \subseteq Nat

VARIABLES
    mem,                    \* Places -> PlaceValues
    logEntry,               \* the entry being made, or NoEntry
    message,                \* the last message the backend was given, or NoMessage
    argMap,                 \* arg_map of the syslog backend: it keeps the names it was asked for
    printed                 \* its last line

entryVars == <<mem, logEntry, message, argMap, printed>>

-----------------------------------------------------------------------------
\* log_event_severity in its order.
SeverityNames == <<"backtrace", "trace", "debug", "stat", "info", "change", "warning", "error", "fatal">>

increased(s) == IF s = Len(SeverityNames) THEN s ELSE s + 1
decreased(s) == IF s = 1 THEN s ELSE s - 1

SeverityOf(name) == CHOOSE i \in 1..Len(SeverityNames) : SeverityNames[i] = name

\* The severities of the entries the methods of the loggers make.
EntrySeverity ==
    [log_fatal |-> "fatal", log_error |-> "error", log_warning |-> "warning", log_change |-> "change",
     log_info |-> "info", log_stat |-> "stat", log_debug |-> "debug", log_trace |-> "trace",
     log_backtrace |-> "backtrace", log_lifetime |-> "info"]

\* named_logging_object and logger forward to those.
LoggerSeverity ==
    [fatal |-> EntrySeverity.log_fatal, error |-> EntrySeverity.log_error, warning |-> EntrySeverity.log_warning,
     change |-> EntrySeverity.log_change, info |-> EntrySeverity.log_info, stat |-> EntrySeverity.log_stat,
     debug |-> EntrySeverity.log_debug, trace |-> EntrySeverity.log_trace, backtrace |-> EntrySeverity.log_backtrace]

\* Where the enabled levels begin: low profile, debug and other builds, and
\* the severity a backend starts with.
min_log_severity(build) == CASE build = "low_profile" -> 7 [] build = "debug" -> 2 [] OTHER -> 3
default_log_severity(build) == min_log_severity(build) + 1

\* An overload of arg: the backend's call, the tag given when the caller
\* names none, what it makes of the value, and whether the value is copied
\* by arg() or read through a view or reference when the entry ends.
One(call, tag) == [call |-> call, tag |-> tag, form |-> "one", keeps |-> "copy"]
Viewed(o) == [o EXCEPT !.keeps = "view"]
Formed(o, form) == [o EXCEPT !.form = form]

IdArgs ==
    [nothing |-> One("add_nothing", "Nothing"), identifier |-> One("add_identifier", "Identifier"),
     tagged_id |-> One("add_unsigned", "Tag"), message_id |-> One("add_message_id", "MessageId")]

Int64Args == [bool |-> One("add_bool", "bool"), int64 |-> One("add_integer", "int64"),
              int64s |-> Viewed(Formed(One("add_integer", "int64"), "each"))]
Int32Args == [int32 |-> One("add_integer", "int32"), int32s |-> Viewed(Formed(One("add_integer", "int32"), "each"))]
Int16Args == [int16 |-> One("add_integer", "int16"), int16s |-> Viewed(Formed(One("add_integer", "int16"), "each"))]

\* The single uint64 is tagged as an int64.
UnsignedArgs ==
    [uint64 |-> One("add_unsigned", "int64"), uint64s |-> Viewed(Formed(One("add_unsigned", "uint64"), "each")),
     uint32 |-> One("add_unsigned", "uint32"), uint32s |-> Viewed(Formed(One("add_unsigned", "uint32"), "each")),
     uint16 |-> One("add_unsigned", "uint16"), uint16s |-> Viewed(Formed(One("add_unsigned", "uint16"), "each"))]

\* A span of floats is taken apart by arg() itself.
FloatArgs ==
    [float |-> One("add_float", "real"), double |-> One("add_float", "real"),
     floats |-> Formed(One("add_float", "real"), "each"),
     range |-> Formed(One("add_float", "real"), "range"), duration |-> One("add_duration", "duration")]

\* arg(name, const char*) calls arg(name, "str", value), where the overload for
\* bool takes a pointer before those for strings do.
TextArgs ==
    [chars |-> Formed(One("add_bool", "str"), "pointer"), string_view |-> Viewed(One("add_string", "str")),
     string |-> One("add_string", "str"), block |-> Viewed(One("add_blob", "block"))]

\* The adapters of adapt_entry_arg.
AdaptedArgs ==
    [yes_no_maybe |-> Formed(One("add_string", "YesNoMaybe"), "tribool"),
     enum_signed |-> One("add_integer", "EnumId"), enum_unsigned |-> One("add_unsigned", "EnumId"),
     exception |-> Viewed(One("add_string", "Exception")), runtime_error |-> Viewed(One("add_string", "RuntmError")),
     system_error |-> Viewed(Formed(One("add_string", "SystmError"), "error")),
     string_path |-> One("add_string", "StringPath"), fs_path |-> One("add_string", "FsPath"),
     fs_error |-> Formed(One("add_string", "FlSysError"), "error"),
     program_arg |-> Viewed(One("add_string", "ProgramArg")),
     version |-> Viewed(Formed(One("add_integer", "VerMajor"), "version"))]
EnumArgs == [enum |-> One("add_string", "enum"), bitfield |-> Formed(One("add_string", "bitfield"), "each")]
BackendArgs == [backend |-> One("add_identifier", "LogBkEndId"), no_backend |-> One("add_nothing", "LogBkEndId")]

OverloadGroups == {IdArgs, Int64Args, Int32Args, Int16Args, UnsignedArgs, FloatArgs, TextArgs,
                   AdaptedArgs, EnumArgs, BackendArgs}
Overloads == [type \in UNION {DOMAIN g : g \in OverloadGroups} |->
                 (CHOOSE g \in OverloadGroups : type \in DOMAIN g)[type]]

ASSUME ArgTypesAssumption == ArgTypes \subseteq DOMAIN Overloads

\* The backend's calls for one argument of the type.
Added(call, name, tag, value) == [call |-> call, name |-> name, tag |-> tag, value |-> value]

YesNoMaybe(v) == CASE v = "1" -> "yes" [] v = "0" -> "no" [] OTHER -> "maybe"
VersionTags == <<"VerMajor", "VerMinor", "VerPatch", "VerCommit">>

ArgCalls(type, name, tag, value) ==
    LET o == Overloads[type]
        One1(v) == Added(o.call, name, tag, v)
    IN CASE o.form = "one" -> <<One1(Head(value))>>
         [] o.form = "pointer" -> <<One1("1")>>
         [] o.form = "each" -> [i \in 1..Len(value) |-> One1(value[i])]
         [] o.form = "range" -> <<Added("add_float_range", name, tag, value)>>
         [] o.form = "tribool" -> <<One1(YesNoMaybe(Head(value)))>>
         [] o.form = "error" -> <<One1(Head(value)), Added(o.call, "category", "ErrorCtgry", value[Len(value)])>>
         [] o.form = "version" -> [i \in 1..Len(value) |-> Added(o.call, name, VersionTags[i], value[i])]

\* The overloads for values that may be missing choose another overload.
NewArg(type, name, tag, place, value) == [type |-> type, name |-> name, tag |-> tag, place |-> place, value |-> value]
DefaultTag(type) == Overloads[type].tag

OkArg(has, type, name, tag, place, value) ==
    IF has THEN NewArg(type, name, tag, place, value) ELSE NewArg("nothing", name, tag, place, <<"">>)

\* With valid_if_or_fallback the fallback takes its own default tag.
EitherArg(has, type, name, tag, place, value, kind, fallback) ==
    IF has THEN NewArg(type, name, tag, place, value)
    ELSE NewArg(kind, name, DefaultTag(kind), place, fallback)

\* With std::optional the caller's.
OptionalArg(has, type, name, tag, place, value, kind, fallback) ==
    NewArg(IF has THEN type ELSE kind, name, tag, place, IF has THEN value ELSE fallback)

-----------------------------------------------------------------------------
NoEntry == [made |-> FALSE]
NoMessage == [made |-> FALSE]

\* _entry_backend: is the entry's backend set?
is_log_level_enabled(s) == s >= CompiledSeverity
entry_backend(s) == s >= BackendSeverity
_entry_backend(s) == is_log_level_enabled(s) /\ entry_backend(s)

NewEntry(s, f, hasBackend) ==
    [made |-> TRUE, backend |-> hasBackend, severity |-> s, tag |-> "", format |-> f, args |-> <<>>, touched |-> FALSE]

EntriesInit ==
    /\ mem \in [Places -> PlaceValues]
    /\ logEntry = NoEntry /\ message = NoMessage
    /\ argMap = [n \in {} |-> ""] /\ printed = NoMessage

BeginEntry(m, f) ==
    /\ logEntry = NoEntry
    /\ LET s == SeverityOf((EntrySeverity @@ LoggerSeverity)[m]) IN logEntry' = NewEntry(s, f, _entry_backend(s))
    /\ message' = NoMessage /\ printed' = NoMessage
    /\ UNCHANGED <<mem, argMap>>

\* arg(): without a backend nothing is kept.
KeepArg(a) ==
    /\ logEntry.made /\ (logEntry.backend => Len(logEntry.args) < MaxArgs)
    /\ logEntry' = IF logEntry.backend THEN [logEntry EXCEPT !.args = Append(@, a)] ELSE logEntry
    /\ UNCHANGED <<mem, message, argMap, printed>>

\* A caller gives a place's value, alone or in an ok that may be empty, or in
\* an optional with a fallback, which is a string or a const char*.
FallbackTypes == {"string", "chars"}

CallArg(type, name, place) ==
    \/ KeepArg(NewArg(type, name, DefaultTag(type), place, mem[place]))
    \/ \E has \in BOOLEAN : KeepArg(OkArg(has, type, name, "tag", place, mem[place]))
    \/ \E kind \in FallbackTypes, t \in FallbackTexts :
          \/ KeepArg(EitherArg(FALSE, type, name, "tag", place, mem[place], kind, <<t>>))
          \/ KeepArg(OptionalArg(FALSE, type, name, "tag", place, mem[place], kind, <<t>>))

TagEntry ==
    /\ logEntry.made /\ logEntry.tag = ""
    /\ logEntry' = [logEntry EXCEPT !.tag = "Tag"]
    /\ UNCHANGED <<mem, message, argMap, printed>>

\* The program goes on while the entry is being made.
ChangeMemory(p, v) ==
    /\ logEntry.made /\ mem[p] # v
    /\ mem' = [mem EXCEPT ![p] = v] /\ logEntry' = [logEntry EXCEPT !.touched = TRUE]
    /\ UNCHANGED <<message, argMap, printed>>

KeptByReference(a) == mem[a.place]   \* mutant of Kept

\* What the kept function for an argument finds when it is called.
Kept(a) == IF Overloads[a.type].keeps = "copy" THEN a.value ELSE mem[a.place]

EntryCalls(e) == FlattenSeq([i \in 1..Len(e.args) |->
                     ArgCalls(e.args[i].type, e.args[i].name, e.args[i].tag, Kept(e.args[i]))])

-----------------------------------------------------------------------------
\* The members of a sequence that are in a set (SelectSeq, which the proofs
\* cannot expand).
Among(s, S) ==
    LET kept[i \in 0..Len(s)] ==
            IF i = 0 THEN <<>> ELSE IF s[i] \in S THEN Append(kept[i - 1], s[i]) ELSE kept[i - 1]
    IN kept[Len(s)]

\* syslog_log_backend: the values with a text, by argument.
HasText(c) == c.call \notin {"add_nothing", "add_blob"}
SyslogTexts(calls) == Among(calls, {c \in ToSet(calls) : HasText(c)})
CallsOf(n, calls) == Among(calls, {c \in ToSet(calls) : c.name = n})
SyslogText(c) ==
    CASE c.call = "add_bool" -> (IF c.value = "1" THEN "True" ELSE "False")
      [] c.call = "add_float_range" -> c.value[2]
      [] OTHER -> c.value

\* _translate: the names in a format, in order; and the priorities, of which
\* a message always has that of info.
Placeholders(f) == Among(f, ToSet(f) \ {""})

SyslogSeverity ==
    [fatal |-> "LOG_CRIT", error |-> "LOG_ERR", warning |-> "LOG_WARNING", change |-> "LOG_INFO", info |-> "LOG_INFO",
     stat |-> "LOG_INFO", debug |-> "LOG_DEBUG", trace |-> "LOG_NOTICE", backtrace |-> "0"]

\* The calls do_add_arg puts into arg_map for a name of the format.
TextsFor(n, calls) == CallsOf(n, SyslogTexts(calls))
Assigned(f, calls) == {n \in ToSet(f) : TextsFor(n, calls) # <<>>}

MapFirst(map, f, calls) ==  \* mutant of MapAfter
    [n \in DOMAIN map \cup Assigned(f, calls) |->
        IF n \in Assigned(f, calls) THEN SyslogText(TextsFor(n, calls)[1]) ELSE map[n]]

\* do_add_arg: into arg_map if the format has the name, else onto the line.
MapAfter(map, f, calls) ==
    [n \in DOMAIN map \cup Assigned(f, calls) |->
        IF n \in Assigned(f, calls) THEN SyslogText(TextsFor(n, calls)[Len(TextsFor(n, calls))]) ELSE map[n]]

Extras(f, calls) == Among(SyslogTexts(calls), {c \in ToSet(calls) : c.name \notin ToSet(f)})

\* operator[] of arg_map inserts the names it does not have, once there is an
\* instance of _do_log for the number of placeholders.
Missing(map, f) == ToSet(f) \ DOMAIN map
Looked(map, f) ==
    [n \in DOMAIN map \cup (IF Len(f) > MaxPlaceholders THEN {} ELSE Missing(map, f)) |->
        IF n \in DOMAIN map THEN map[n] ELSE ""]

\* The texts are pointers into arg_map, whose vector moves its members when a
\* name is inserted: a text looked up before that, in the order the compiler
\* chose, may be anything.  So is what printf puts for a conversion in the
\* text of an argument that was appended to its format.
Garbage == "?"
Dangling(map, f) == {i \in 1..Len(f) : Missing(map, f) \ {f[i]} # {}}

SyslogField(map, f, bad, i) == IF i \in bad THEN Garbage ELSE Looked(map, f)[f[i]]
SyslogExtra(c) == [name |-> c.name, text |-> IF SyslogText(c) \in Conversions THEN Garbage ELSE SyslogText(c)]
SyslogLine(map, f, calls, bad) ==
    [made |-> TRUE, severity |-> SyslogSeverity["info"],
     fields |-> [i \in 1..Len(f) |-> SyslogField(map, f, bad, i)],
     extras |-> [i \in 1..Len(Extras(f, calls)) |-> SyslogExtra(Extras(f, calls)[i])]]

\* _do_log: one instance for each number of placeholders.
SyslogLines(map, f, calls) ==
    IF Len(f) > MaxPlaceholders THEN {NoMessage}
    ELSE {SyslogLine(map, f, calls, bad) : bad \in SUBSET Dangling(map, f)}

\* The end of an entry: begin_message, the kept calls in their order and
\* finish_message, on a backend that writes all of it and on the syslog one.
EndEntry ==
    /\ logEntry.made
    /\ logEntry' = NoEntry
    /\ IF logEntry.backend
       THEN LET calls == EntryCalls(logEntry)
                names == Placeholders(logEntry.format)
                map == MapAfter(argMap, names, calls)
            IN /\ message' = [made |-> TRUE, entry |-> logEntry, calls |-> calls]
               /\ argMap' = Looked(map, names) /\ printed' \in SyslogLines(map, names, calls)
       ELSE message' = NoMessage /\ printed' = NoMessage /\ UNCHANGED argMap
    /\ UNCHANGED mem

EntriesNext ==
    \/ \E m \in Methods, f \in Formats : BeginEntry(m, f)
    \/ TagEntry \/ EndEntry
    \/ \E t \in ArgTypes, n \in ArgNames, p \in Places : CallArg(t, n, p)
    \/ \E p \in Places, v \in PlaceValues : ChangeMemory(p, v)

EntriesSpec == EntriesInit /\ [][EntriesNext]_entryVars

-----------------------------------------------------------------------------
\* The calls of an argument when all is read at once.
CallsAsGiven(a) == ArgCalls(a.type, a.name, a.tag, a.value)

\* What the backend is told of an entry is what its arguments were when
\* arg() was called, in the order of the calls: for all of them if the
\* program left their memory alone, and for those that are copied even when
\* it did not (log_entry::arg, ~log_entry).  What a call makes of its value is
\* the overload's: a const char* is told as a bool, whatever it points to.
MessagesAreAsGiven ==
    message.made =>
        LET args == message.entry.args
            asGiven == FlattenSeq([i \in 1..Len(args) |-> CallsAsGiven(args[i])])
            copied == \A i \in 1..Len(args) : Overloads[args[i].type].keeps = "copy"
        IN /\ (~message.entry.touched \/ copied) => message.calls = asGiven
           /\ message.entry.severity >= CompiledSeverity
           /\ message.entry.severity >= BackendSeverity

\* A syslog line shows the last value given for each of its placeholders if
\* the entry has a value for every placeholder of its format (the pointers the
\* line is made from stay good only then), and as many other arguments after
\* it as there are with a text (do_add_arg, _do_log).
LinesShowTheArguments ==
    printed.made =>
        LET calls == SyslogTexts(message.calls)
            f == Placeholders(message.entry.format)
            given == \A i \in 1..Len(f) : \E j \in 1..Len(calls) : calls[j].name = f[i]
        IN /\ \A i \in 1..Len(f), j \in 1..Len(calls) :
                  (given /\ calls[j].name = f[i] /\ \A k \in (j + 1)..Len(calls) : calls[k].name # f[i])
                      => printed.fields[i] = SyslogText(calls[j])
           /\ Len(printed.extras) = Cardinality({j \in 1..Len(calls) : calls[j].name \notin ToSet(f)})

\* increased and decreased undo each other but at the ends.
SeverityLaw(s) ==
    /\ s < Len(SeverityNames) => decreased(increased(s)) = s
    /\ s > 1 => increased(decreased(s)) = s
    /\ increased(s) >= s /\ decreased(s) <= s
=============================================================================
