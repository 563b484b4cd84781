--------------------------- MODULE LoggerObjects ---------------------------
(***************************************************************************)
(* The root_logger and the named_logging_objects made from it: how they    *)
(* share its backend when they are created, copied, moved, assigned and    *)
(* destroyed, and the entry the log gets of each of these; how root_logger *)
(* chooses its backend, and the signals that make it more or less verbose. *)
(* Objects are known by the place they live at, as in the log.             *)
(***************************************************************************)
EXTENDS Integers, Sequences, FiniteSets

CONSTANTS
    ObjectPlaces, Root,     \* where objects can live, and the root_logger's place
    ObjectIds,              \* their identifiers; "" is that of no object
    InfoSeverity, MaxSeverity,   \* log_event_severity::info, and the highest
    MaxLifetimes,           \* bound: objects made or assigned
    MaxVerbosity            \* bound: signals delivered

ASSUME LoggerObjectsAssumption ==
    /\ IsFiniteSet(ObjectPlaces) /\ Root \in ObjectPlaces /\ "" \notin ObjectIds
    /\ InfoSeverity \in 1..MaxSeverity /\ MaxSeverity \in Nat

VARIABLES
    objs,                   \* ObjectPlaces -> [alive, id, backend]
    handler,                \* the root_logger the signal handlers use: is it set?
    finished,               \* did the backend write the end of the log?
    minSeverity,            \* _min_severity of the backend
    signalled, made,        \* bounds: signals delivered, objects made or assigned so far
    lifetimes,              \* history: the lifetime entries in the log, by id and tag
    overwritten,            \* history: how often an object with the id was copied over
    quiet                   \* history: was info ever below the backend's severity?

loggerVars == <<objs, handler, finished, minSeverity, signalled, made, lifetimes, overwritten, quiet>>

-----------------------------------------------------------------------------
\* root_logger_choose_backend: the first argument that names one, else the
\* default of the options, else the proxy, which asks the configuration.
BackendTags ==
    [null |-> "null", cerr |-> "ostream", syslog |-> "syslog", nw |-> "tcp", local |-> "asio"]
Defaults ==
    [cerr |-> "ostream", syslog |-> "syslog", local_socket |-> "asio", network_socket |-> "tcp",
     none |-> "null", unspecified |-> "proxy"]

IsBackendTag(a) == a \in DOMAIN BackendTags

\* What follows the argument is an address unless it starts with a dash;
\* then the environment may name one.
AddressOf(args, i, env) ==
    IF i < Len(args) /\ args[i + 1] = "address" THEN "argument"
    ELSE IF env THEN "environment" ELSE "none"

choose_backend(args, default, env) ==
    LET naming == {i \in 1..Len(args) : IsBackendTag(args[i])}
    IN IF naming = {} THEN [backend |-> Defaults[default], address |-> "none"]
       ELSE LET i == CHOOSE k \in naming : \A n \in naming : k <= n
            IN [backend |-> BackendTags[args[i]],
                address |-> IF args[i] \in {"nw", "local"} THEN AddressOf(args, i, env) ELSE "none"]

lock_type(args) ==
    IF \E i \in 1..Len(args) : args[i] = "spinlock" THEN "spinlock"
    ELSE IF \E i \in 1..Len(args) : args[i] = "no_lock" THEN "none" ELSE "mutex"

format(args) ==
    IF \E i \in 1..Len(args) : args[i] = "json" THEN "json"
    ELSE IF \E i \in 1..Len(args) : args[i] = "xml" THEN "xml" ELSE "json"

init_backend(forced, args, default, env) ==
    IF forced THEN [backend |-> "forced", address |-> "none"] ELSE choose_backend(args, default, env)

-----------------------------------------------------------------------------
NoObject == [alive |-> FALSE, id |-> "", backend |-> FALSE]
Object(id, backend) == [alive |-> TRUE, id |-> id, backend |-> backend]
Moved(o) == [o EXCEPT !.id = "", !.backend = FALSE]

LifetimeTags == {"objCreate", "objMove", "objCopy", "assignMove", "assignCopy", "objDestroy"}
AllIds == ObjectIds \cup {"", "root"}

\* log_lifetime is log_info: written if the object has a backend and the
\* backend takes that severity.
Log(tag, o) ==
    IF o.backend /\ InfoSeverity >= minSeverity THEN [lifetimes EXCEPT ![o.id][tag] = @ + 1] ELSE lifetimes

\* root_logger's constructor: no lifetime entry is made.
LoggersInit ==
    /\ objs = [p \in ObjectPlaces |-> IF p = Root THEN Object("root", TRUE) ELSE NoObject]
    /\ handler = TRUE /\ finished = FALSE
    /\ minSeverity = InfoSeverity /\ signalled = 0 /\ made = 0
    /\ lifetimes = [id \in AllIds |-> [t \in LifetimeTags |-> 0]]
    /\ overwritten = [id \in AllIds |-> 0] /\ quiet = FALSE

Alive(p) == objs[p].alive
Same == UNCHANGED <<handler, finished, minSeverity, signalled, overwritten, quiet>>
Bounded == made < MaxLifetimes /\ made' = made + 1

\* named_logging_object(id, parent); id may be empty.
CreateObject(p, id, parent) ==
    /\ Bounded /\ ~Alive(p) /\ p # Root /\ Alive(parent)
    /\ LET o == Object(id, objs[parent].backend)
       IN /\ objs' = [objs EXCEPT ![p] = o]
          /\ lifetimes' = Log("objCreate", o)
    /\ Same

MoveObject(p, from) ==
    /\ Bounded /\ ~Alive(p) /\ p # Root /\ Alive(from) /\ from # Root
    /\ objs' = [objs EXCEPT ![p] = objs[from], ![from] = Moved(@)]
    /\ lifetimes' = Log("objMove", objs[from])
    /\ Same

CopyObject(p, from) ==
    /\ Bounded /\ ~Alive(p) /\ p # Root /\ Alive(from)
    /\ objs' = [objs EXCEPT ![p] = objs[from]]
    /\ lifetimes' = Log("objCopy", objs[from])
    /\ Same

\* operator=(&&): the two swap their backends and their identifiers.
AssignMove(p, from) ==
    /\ Bounded /\ Alive(p) /\ Alive(from) /\ Root \notin {p, from} /\ p # from
    /\ objs' = [objs EXCEPT ![p] = objs[from], ![from] = objs[p]]
    /\ lifetimes' = Log("assignMove", objs[from])
    /\ Same

\* operator=(const&): what p was is forgotten without an entry.
AssignCopy(p, from) ==
    /\ Bounded /\ Alive(p) /\ Alive(from) /\ Root \notin {p, from} /\ p # from
    /\ objs' = [objs EXCEPT ![p] = objs[from]]
    /\ lifetimes' = Log("assignCopy", objs[from])
    /\ overwritten' = IF objs[p].backend THEN [overwritten EXCEPT ![objs[p].id] = @ + 1] ELSE overwritten
    /\ UNCHANGED <<handler, finished, minSeverity, signalled, quiet>>

DestroySilently(p) ==   \* mutant of DestroyObject
    /\ Alive(p) /\ p # Root
    /\ objs' = [objs EXCEPT ![p] = NoObject]
    /\ Same /\ UNCHANGED <<made, lifetimes>>

\* The destructor: an object without an identifier says nothing.
DestroyObject(p) ==
    /\ Alive(p) /\ p # Root
    /\ objs' = [objs EXCEPT ![p] = NoObject]
    /\ lifetimes' = IF objs[p].id = "" THEN lifetimes ELSE Log("objDestroy", objs[p])
    /\ Same /\ UNCHANGED made

\* ~root_logger: finish_log, which lets go of the backend, then the
\* handlers' pointer is reset, then ~named_logging_object.
FinishRoot ==
    /\ Alive(Root) /\ ~finished
    /\ finished' = TRUE
    /\ objs' = [objs EXCEPT ![Root].backend = FALSE]
    /\ UNCHANGED <<handler, minSeverity, signalled, made, lifetimes, overwritten, quiet>>

ResetHandlers ==
    /\ finished /\ handler
    /\ handler' = FALSE
    /\ UNCHANGED <<objs, finished, minSeverity, signalled, made, lifetimes, overwritten, quiet>>

DestroyRoot ==
    /\ finished /\ ~handler /\ Alive(Root)
    /\ objs' = [objs EXCEPT ![Root] = NoObject]
    /\ lifetimes' = Log("objDestroy", objs[Root])
    /\ Same /\ UNCHANGED made

\* SIGUSR1 and SIGUSR2 at any time: _logger() and its backend() may be gone.
Verbosity(s) ==
    /\ signalled < MaxVerbosity
    /\ signalled' = signalled + 1
    /\ minSeverity' = IF handler /\ objs[Root].backend THEN s ELSE minSeverity
    /\ quiet' = (quiet \/ InfoSeverity < minSeverity')
    /\ UNCHANGED <<objs, handler, finished, made, lifetimes, overwritten>>

MoreVerbose == Verbosity(IF minSeverity = 1 THEN 1 ELSE minSeverity - 1)
LessVerbose == Verbosity(IF minSeverity = MaxSeverity THEN MaxSeverity ELSE minSeverity + 1)

LoggersNext ==
    \/ \E p, q \in ObjectPlaces :
           \/ \E id \in ObjectIds \cup {""} : CreateObject(p, id, q)
           \/ MoveObject(p, q) \/ CopyObject(p, q) \/ AssignMove(p, q) \/ AssignCopy(p, q)
    \/ \E p \in ObjectPlaces : DestroyObject(p)
    \/ FinishRoot \/ ResetHandlers \/ DestroyRoot
    \/ MoreVerbose \/ LessVerbose

LoggersSpec == LoggersInit /\ [][LoggersNext]_loggerVars

-----------------------------------------------------------------------------

\* The log's lifetime entries account for every object: as long as the log
\* shows info entries, the objects with an identifier that were created,
\* copied or assigned to are those that were destroyed, copied over, or are
\* still there and can log, whatever was moved where in between
\* (named_logging_object's constructors, assignments and destructor).
LifetimesAreBalanced ==
    ~quiet => \A id \in ObjectIds :
        lifetimes[id]["objCreate"] + lifetimes[id]["objCopy"] + lifetimes[id]["assignCopy"]
        = lifetimes[id]["objDestroy"] + overwritten[id]
          + Cardinality({p \in ObjectPlaces \ {Root} : objs[p].id = id /\ objs[p].backend})

\* Every argument list yields one backend: what an argument names wins over
\* the default, and only the network and the local backend take an address,
\* which the arguments give before the environment does
\* (root_logger_choose_backend).
BackendLaws(args, default, env) ==
    LET c == choose_backend(args, default, env)
    IN /\ (\E i \in 1..Len(args) : IsBackendTag(args[i]))
              => \E i \in 1..Len(args) : IsBackendTag(args[i]) /\ c.backend = BackendTags[args[i]]
       /\ c.backend = "proxy" => default = "unspecified"
       /\ c.address # "none" => c.backend \in {"tcp", "asio"}
       /\ \A i \in 1..Len(args) : (IsBackendTag(args[i]) /\ \A k \in 1..(i - 1) : ~IsBackendTag(args[k]))
              => (c.address = "argument" => args[i + 1] = "address")
       /\ init_backend(TRUE, args, default, env).backend = "forced"
       /\ lock_type(args) = "none" => \A i \in 1..Len(args) : args[i] # "spinlock"
       /\ format(args) = "xml" => \A i \in 1..Len(args) : args[i] # "json"
=============================================================================
