---------------------------- MODULE MainContext ----------------------------
(***************************************************************************)
(* The life of a process under main_impl: the storage of the main context, *)
(* whose members come up in the order of their declaration, the context    *)
(* itself, the main function, and the ways each of them may fail.          *)
(***************************************************************************)
EXTENDS Integers, Sequences, SequencesExt, FiniteSets

CONSTANTS
    AppNameGiven,           \* main_ctx_options::app_name is not empty
    Services,               \* services that may be injected
    MaxUpdates              \* bound: update() calls counted

VARIABLES
    stage,                  \* "start", "storage", "context", "main", "down", "failed", "exit", "terminated"
    alive,                  \* the members of the storage that exist, in order
    theCtx,                 \* _single_ptr() is set
    appName,                \* _app_name: "empty", "given" or "stem"
    seedAsked,              \* the app name the lookup of the random seed used
    tags,                   \* mainStart and mainFinish as logged
    result,                 \* what main_impl returns
    injected,               \* _services
    updates                 \* of the scheduler

mainVars == <<stage, alive, theCtx, appName, seedAsked, tags, result, injected, updates>>

\* The members in the order of declaration, which is that of construction.
Members ==
    <<"args", "console", "log", "progress", "system", "user", "watchdog", "config",
      "buffers", "compressor", "scheduler", "workers", "app_name", "services", "random">>

MainInit ==
    /\ stage = "start" /\ alive = <<>> /\ theCtx = FALSE /\ appName = "empty" /\ seedAsked = "none"
    /\ tags = <<>> /\ result = 0 /\ injected = {} /\ updates = 0

\* The next member comes up.  The seed of the random engine is looked up in the
\* configuration, under the app name known so far.
ConstructMember ==
    /\ stage = "start" /\ Len(alive) < Len(Members)
    /\ LET m == Members[Len(alive) + 1] IN
       /\ alive' = Append(alive, m)
       /\ appName' = IF m = "app_name" THEN (IF AppNameGiven THEN "given" ELSE "empty") ELSE appName
       /\ seedAsked' = IF m = "random" THEN appName ELSE seedAsked
    /\ UNCHANGED <<stage, theCtx, tags, result, injected, updates>>

\* The body of the storage's constructor: a name from the command.
FinishStorage ==
    /\ stage = "start" /\ alive = Members
    /\ appName' = IF appName = "empty" THEN "stem" ELSE appName
    /\ stage' = "storage"
    /\ UNCHANGED <<alive, theCtx, seedAsked, tags, result, injected, updates>>

\* The constructor of the storage is noexcept: what its members throw ends the
\* process.
StorageThrows ==
    /\ stage = "start" /\ stage' = "terminated"
    /\ UNCHANGED <<alive, theCtx, appName, seedAsked, tags, result, injected, updates>>

\* main_ctx asserts that it is the only one, publishes itself and configures
\* the log and the progress.
EnterMain ==
    /\ stage = "storage" /\ ~theCtx
    /\ theCtx' = TRUE /\ tags' = Append(tags, "mainStart") /\ stage' = "main"
    /\ UNCHANGED <<alive, appName, seedAsked, result, injected, updates>>

\* The log backend cannot connect (121), fails otherwise (122), or the system
\* does (125): the storage is destroyed, but not the context, whose constructor
\* did not end, so that its pointer stays.
ConfigureFails(code) ==
    /\ stage = "storage" /\ ~theCtx
    /\ result' = code /\ theCtx' = TRUE /\ stage' = "failed"
    /\ UNCHANGED <<alive, appName, seedAsked, tags, injected, updates>>

\* What the main function does with the context.
Inject(s) ==
    /\ stage = "main" /\ injected' = injected \cup {s}
    /\ UNCHANGED <<stage, alive, theCtx, appName, seedAsked, tags, result, updates>>

Located(s) == s \in injected /\ \E i \in DOMAIN alive : alive[i] = "services"

Update ==
    /\ stage = "main" /\ updates < MaxUpdates /\ updates' = updates + 1
    /\ UNCHANGED <<stage, alive, theCtx, appName, seedAsked, tags, result, injected>>

\* The main function returns or throws: std::system_error (123), another
\* std::exception (124); anything else is not caught here.
LeaveMain(code) ==
    /\ stage = "main"
    /\ result' = code /\ tags' = Append(tags, "mainFinish") /\ stage' = "down"
    /\ UNCHANGED <<alive, theCtx, appName, seedAsked, injected, updates>>

ThrowOther ==
    /\ stage = "main" /\ stage' = "terminated"
    /\ UNCHANGED <<alive, theCtx, appName, seedAsked, tags, result, injected, updates>>

\* The context goes first, then the members of the storage, in reverse order.
DestroyContext ==
    /\ stage = "down" /\ theCtx
    /\ theCtx' = FALSE
    /\ UNCHANGED <<stage, alive, appName, seedAsked, tags, result, injected, updates>>

DestroyMember ==
    /\ stage = "failed" \/ (stage = "down" /\ ~theCtx)
    /\ IF alive = <<>> THEN stage' = "exit" /\ alive' = alive
                       ELSE stage' = stage /\ alive' = Front(alive)
    /\ injected' = IF alive # <<>> /\ Last(alive) = "services" THEN {} ELSE injected
    /\ UNCHANGED <<theCtx, appName, seedAsked, tags, result, updates>>

MainNext ==
    \/ ConstructMember \/ FinishStorage \/ EnterMain \/ Update \/ ThrowOther
    \/ StorageThrows \/ \E c \in {121, 122, 125} : ConfigureFails(c)
    \/ \E s \in Services : Inject(s)
    \/ \E c \in {0, 1, 123, 124} : LeaveMain(c)
    \/ DestroyContext \/ DestroyMember

-----------------------------------------------------------------------------
\* Whoever asks for the main context while it lives finds one whose members are
\* all there; the log outlives the workers and the services; a main function
\* that was entered is logged as left before the process ends, and one that
\* never was leaves a code of its own, and a pointer to nothing behind.
ContextOutlivesItsUsers ==
    /\ theCtx /\ stage \notin {"failed", "exit", "terminated"} => alive = Members
    /\ \A i, j \in DOMAIN alive : alive[i] = "log" /\ alive[j] \in {"workers", "services"} => i < j
    /\ injected # {} => \E i \in DOMAIN alive : alive[i] = "services"
    /\ \A s \in Services : stage = "main" /\ s \in injected => Located(s)
    /\ stage = "exit" => tags \in {<<>>, <<"mainStart", "mainFinish">>}
    /\ stage = "exit" => (tags = <<>> <=> result \in {121, 122, 125}) /\ (tags = <<>> <=> theCtx)
    /\ AppNameGiven /\ stage = "main" => seedAsked = appName
=============================================================================
