# Verification of eagine-core

TLA+ models of eagine-core: the parts that keep state, are shared between
threads, meet failures or depend on the order of calls, as state machines; the
parts that only compute, as operators with the laws they should obey; the TLC
runs that check both on small instances; and TLAPS proofs of the central results
for every value of the constants. Paths below are relative to the repository's
root; `E/` stands for `source/modules/eagine/`.

## Inventory

eagine-core is a C++20 library of foundation modules (memory, containers,
strings, logging, main context, serialization, value trees, mathematics, units,
runtime services) with a log server and a log viewer beside it. `PROJECT.json`
lists every part with its source files and what is modelled of it, and under
"hazards" what is hard to test, at its line. The parts that carry state:

| part | state | operations | what is hard | what makes it correct |
|---|---|---|---|---|
| **workshop** `E/runtime/workshop*` | queue of work units, `_shutdown`, worker threads, one mutex, one condition variable; the latch of every batch | `enqueue`, `_fetch`, `_employ`, `add_worker(s)`, `ensure_workers`, `release_worker`, `shutdown`, `wait_until_closed`, `wait_until_idle`, batch construction and destruction | two kinds of sleepers on one condition variable, `notify_one`, spurious wakeups, failing units enqueued again, shutdown at any time, units that live in the caller's frame | no unit is lost, done twice or used after its owner freed it; no wakeup is lost; everyone who waits gets through |
| **stack allocators** `E/memory/stack_allocator*` | `_pos`, `_min`, `_dif`, `_btm`, `_top` | `allocate`, `truncate`, `deallocate`, the byte allocators and their padding | blocks returned in any order, tails lost by `truncate`, an arena at its limit, padding kept in the byte before a block | blocks never overlap; the bookkeeping is exact; an arena that got everything back is empty |
| **log output stream** `E/logging/asio_output_stream*`, `E/runtime/file_contents*`, `E/utility/double_buffer.cpp` | two buffers, the first entry, the connection, the reconnect timeout, a temporary file of stored entries | `begin_stream`, `entry_append`, `finish_entry`, `finish_stream`, `add_chunk`, `for_each_chunk`, `clear` | every write may fail, reconnecting, replaying what was stored | each connection sees a well-formed stream; nothing is lost; what is stored is what still has to be sent |
| **log proxy and pipeline** `E/logging/proxy_backend*`, `json_backend*`, `logger*` | the calls kept back, the delegate, the backend's lock, the least severity | `begin_message`, `add_*`, `finish_message`, `heartbeat`, `set_description`, `declare_state`, `configure`, `make_more/less_verbose` | a lock taken in one virtual call and released in another; calls kept back and replayed; loggers of several threads | messages are whole, in order, none lost, nobody waits for ever |
| **log entries, logger objects, intervals** `E/logging/entry.cpp`, `logger*`, `root_logger*`, `syslog_backend*` | the arguments an entry keeps, objects and the entries about them, counts and sums of intervals | `arg`, the end of an entry, creation, move, copy, assignment, `log_time_interval`, `repeating_log_entry_control` | arguments read when the entry ends; moved-from loggers; numbers that threads share without the lock | a message shows what was given; lifetimes balance; averages are those of the measurements |
| **action scheduler** `E/utility/scheduler*` | the entries with their next time, interval, failure counter and suspension | `schedule_repeated`, `remove`, `suspend`, `resume`, `update` | updates that come late, actions that take time or fail | every interval is served once and on its grid; a failure costs one interval; `update` returns |
| **signals** `E/utility/signal.cpp`, `E/runtime/signal_switch*` | slots with 16-bit keys; flags set by a signal handler | `connect`, `bind`, `disconnect`, the call; `reset`, `interrupted`, nested switches | slots that change the vector being iterated; keys that come round; a handler between two assignments; switches that share what was said | a connected slot is called once per call; an OS signal is reported once, to the switch that asks first, unless it is reset |
| **progress** `E/progress` | activities in a map, mutex, observer, callback | `begin_activity`, `update_progress`, `advance`, `finish`, cancel | threads racing on the callback; fields filled in after the mutex was released | observers see consistent activities; every begin has its finish |
| **containers** `E/container` | chunks, an array or a vector, sorted vectors, trie nodes | insert, erase, push, pop, resize, find, traverse | chunks that split or become empty; the move from the array to the heap; hints; keys with characters the trie does not know | they implement sequences, maps and sets |
| **memory** `E/container/object_pool.cpp`, `E/memory/buffer.cpp`, `object_storage.cpp` | objects or blocks in use and kept | get, return, resize, move, `emplace`, `clear` | returning twice, a pool at its limit, constructors that throw | everything handed out has one owner |
| **timers, histories** `E/utility/timeout.cpp`, `E/main_ctx/watchdog*`, `E/runtime/value_with_history.cpp` | deadlines, periods, revisions | reset, extension, back-off, notify; assign, advance, sync | the moment of a check; a watchdog fed with half its period | fed in time; the back-off doubles; the revisions are the last values |
| **configuration, main context** `E/main_ctx`, `E/runtime/program_args.cpp` | open files, linked values; the members that are up | lookup, reload; construct, update, destroy | files that change between reads; failing half way; services that use what is going down | the first source that answers wins; what is used is alive |
| **value trees** `E/value_tree` | nodes with reference counts; the parser's state | find, fetch, traverse, overlay, parse a piece, build | handles that outlive a tree; text cut anywhere | nodes live as long as a handle; the same events however the text was cut |
| **serialization** `E/serialization` | position in a block, errors so far | write and read of each shape, transactions, fragments | sinks with little room, errors half way | what was written is read back, or an error says that it is not |
| **pure parts** `E/types`, `E/identifier`, `E/memory/span*`, `E/string`, `E/math`, `E/units`, `E/utility/sudoku.cpp`, `network_sort.cpp` | none (the tiling keeps boards) | | limits of a packing, lanes and orders, exponents | inverses of each other, or equal to a reference |
| **log server** `source/app/log_server` | connections, parsers, sinks | accept, read, parse, report | text cut anywhere, broken connections | every entry once, the end once (not modelled) |

How the parts meet: the main context owns the logger, the workshop, the
scheduler, the progress root, the buffers and the configuration. Every object
logs through a `basic_logger` that holds the `proxy_log_backend`; after
`configure` this delegates to a JSON, XML, syslog or null backend, which writes
entries to an output stream; the asio output stream sends them to the log
server. Work units use the shared buffers and log from worker threads. The main
loop polls the signal switch and runs the scheduler's `update`.

## Modules

| module | models | composed with |
|---|---|---|
| `WorkBatches` | the contract of a worker pool: a unit is raw, pending, delivered, freed, and freed only after it was delivered | |
| `Workshop` | `workshop` and `inplace_work_batch` | implements `WorkBatches` |
| `StackAllocator` | `base_stack_allocator` and three byte allocators | |
| `LogStream` | `asio_log_output_stream_base`, `double_buffer`, `temporary_chunk_storage` | |
| `LogProxy` | `basic_logger`, `log_entry` as calls, `proxy_log_backend`, the locking of `json_log_backend` | |
| `LogEntries` | `log_entry` and the overloads of `arg`; the syslog backend's arguments and lines | |
| `LoggerObjects` | `named_logging_object`, `root_logger`, the choice of a backend | |
| `LogIntervals` | `log_time_interval` and the averages of `json_log_backend`; `repeating_log_entry_control` | |
| `Scheduler` | `action_scheduler` | |
| `Signals` | `signal`, `signal_binding`, `signal_switch` | |
| `Progress` | `default_progress_tracker_backend`, `activity_progress` | |
| `ListSpec`, `MapSpec` | a sequence and a map with the results of each call: what `std::vector` and `std::map` promise | |
| `ListContainers` | `chunk_list`; `small_vector` with its `static_vector` | both implement `ListSpec` |
| `KeyedContainers` | `flat_map` and `flat_set`; `basic_trie_impl` | the first two implement `MapSpec` |
| `Buffers`, `ObjectStorage` | `buffer`, `buffer_pool`; `object_pool`, `pool_object`, `object_storage`, `callable_storage` | |
| `Timekeeping` | `timeout` and its kin, the watchdog; `variable_with_history` | |
| `ProgramArgs`, `AppConfig` | the argument list, names of keys, flags; `application_config` with its files and reload | `AppConfig` extends `ProgramArgs` |
| `MainContext` | `main_impl`, the context's storage, services | |
| `TreeNodes` | reference counts of nodes and the handles to them | |
| `ValueTree` | JSON, YAML, directories, overlays: lookup, fetch, traversal, stream parser, object builder | |
| `Serialization` | the string, portable and fast backends, serializers, fragments, buffer sizes | |
| `MultiByte` | multi-byte numbers, blocks with sizes, encryption, string lists, paths | uses `Spans` |
| `Bits` | limits, bit fields, byte and bite sets, bit density, identifiers | |
| `Spans` | span algorithms, spans as addresses, offset pointers | |
| `Optionals` | tribool, valid_if and its policies, optional-like types | |
| `Vectors`, `Matrices` | SIMD data, vectors, quaternions, intersections; matrices, their constructors, curves | `Matrices` extends `Vectors` |
| `Units` | dimensions, scales, units, quantities | extends `Vectors` for its fractions |
| `Sudoku`, `NetworkSort` | boards, solver, tiling, patches; sorting networks | |
| `WorkshopProofs`, `ProgressProofs` | theorems | each extends its component |
| `LogOutputProofs` | theorems about `LogStream` and `LogProxy` | extends both |
| `SchedulingProofs`, `LoggingProofs` | theorems about `Scheduler` and `Signals`; about `LogEntries`, `LoggerObjects` and `LogIntervals` | extend `MCScheduling` and `MCLogging` |
| `ContainersProofs` | what the containers keep, call by call | extends `ListContainers`, `KeyedContainers` |
| `ComponentsProofs` | theorems about what `MCComponents` composes | extends it and `ContainersProofs` |
| `NumberFacts` | inductions, sums, powers, and facts about sequences | used by `SchedulingProofs`, `LoggingProofs`, `ContainersProofs`, `ComponentsProofs` |
| `MCWorkshop` | the batches of the two runs; symmetry | |
| `MCLogging`, `MCScheduling`, `MCComponents` | several components, one of which runs in each behaviour | extend them |
| `MCValues` | samples for the pure parts | |

Each component's module holds its state, its actions, its properties, and, just
before the definition it stands for, the mutated form of a definition (marked
"mutant of"), which shows that a property notices such a bug.

`MCLogging`, `MCScheduling` and `MCComponents` select one component in the
initial state and leave the others where they begin. These components share no
variable and do not call each other except through the actions their modules
already have, so combining their states would only multiply them.

`MCValues` has no behaviour of its own: a kind of sample is chosen, then one
sample of that kind is taken (a value, a board, a tree, a pair of units ...), and
the laws are action properties: they are about the sample a step takes.

### Workshop

`queue`, `shutdown`, `n` (`_workers.size()`) and `asleep` are the shared state;
a thread's `pc` is its place in `_employ`, `work` and `last` what `_fetch`
returned; `latch` and `status` belong to the batches. A section under
`_queue_lockable` is one action: nothing in it waits except `_cond.wait`, which
releases the mutex and is split at that point (`Fetch` / `Resume`, and the two
halves of `WaitUntilIdle`). What runs outside the mutex is an action of its own:
`DoIt` (the unit may fail `MaxRetries` times), the wait for the latch
(`Completed`), each `Join`. `NotifyOne` releases any one sleeper, worker or idle
caller alike; `SpuriousWakeup` releases one without a notification. `Deliver`
and `Requeue` are the two ends of a unit in `_employ`. Misuse that ends in
`std::terminate` (joining twice, destroying a joinable thread) is modelled by
`aborted`.

Assumption: `_workers` is not protected by the mutex, so `add_worker` is taken
not to overlap an `enqueue` into a workshop that has no workers yet.

### StackAllocator

The arena is `Capacity` cells starting at address `Base`. `pos`, `min` and `dif`
are the code's; `blocks` are the blocks callers hold and `lost` the cells no
one can return any more (cut off by `truncate`, or forgotten by
`stack_byte_allocator_only`). `kind` chooses the allocator, once, in `Init`:
`base` (no padding), `byte` (`stack_byte_allocator`), `only`
(`stack_byte_allocator_only`, which never returns) and `aligned`
(`stack_aligned_byte_allocator`). `Polite` says whether callers ask `max_size`
before they allocate; a failing `assert` is recorded in `failed`.

### LogStream

`conns` is, per connection, what the peer has received: a sequence of header,
separators, entries and footer. Whether a write succeeds is chosen anew for each
of them. `file`, `at` and `done` are the temporary storage: its chunks, the
position of the stream and the flag that something was written. Entries are
numbers; an action is one call of the stream's interface with all the writes it
makes, up to the one that throws. `Expire` is the passing of the second the
reconnect timeout takes.

### LogProxy

`delayed` are the calls kept back until `Configure`, `out` what the JSON backend
wrote, with `lock` its mutex. A message is several calls (`BeginMessage`,
`AddArg`, `FinishMessage`), and the calls of several threads interleave as the
lock allows. Before `Configure` only the main thread logs, as
`E/main_ctx/main_ctx_impl.cpp` has it. `SetVerbosity` is the signal handler's
change of the least severity.

### Scheduler

`repeated` maps the ids to their entries. `Update` is the call; `Visit` takes
the next entry and reads the clock for it; `Visit`, `Invoke`, `Skip`, `Succeed`, `Fail`, `EntryDone` and
`Return` are the steps of the loop, so that time passes while an action runs and
an action may suspend and resume entries. `start`, `ran`, `failed`, `skipped`
and `slept` are history: how many intervals were served and how.

Assumptions: intervals are positive (a zero interval keeps `update` in its loop
for ever, and nothing in the code rejects one), and actions neither add nor
remove entries (this changes the vector that `update` iterates over, which is
undefined behaviour in the code).

### Progress

`activities` is the `std::map` of infos, by the address of the node, which is the
id of the activity; an erased node's address is used again. `id` and `parent`
belong to the `activity_progress` objects. A section under `_mutex` is one action
(`BeginActivity`, `NotifyObserver`, `Erase`, `Register`, `Unregister`); what is
done before or after it is an action of its own (`FillIn`, `SetSteps`,
`FinishActivity`). `CallBack` and `StoreKeepGoing` are the load and the store of
`_keep_going = _callback() and _keep_going`. Whether `_min_interval` has passed
is left open at every call, since time passes at any place. `view` is what an
observer would note of what it was told; it starts with `Unknown` for the
activities that are older than its registration. The map's keys count modulo
`IdLimit`, so that the search for a free one comes round.

Assumptions: one call at a time on an activity; sub-activities finish before
their parents (otherwise the reused address of a parent would name another
activity); the callback is set and reset only while no thread is in it, as it is
a plain pair of pointers; an observer does not call the tracker, whose mutex is
held while it is told. The tracker's own log messages are left out, and nobody
advances beyond the total (a bound).

### LogEntries, LoggerObjects, LogIntervals

`mem` is the program's memory: an argument kept as a view (a span, a string
view, an exception) is read when the entry ends, any other one is copied when
`arg` is called; between the two the program may write. Each overload of `arg` is
a record of what it keeps and the backend's call it makes; that of a `const char*`
picks the overload for `bool` (`entry.cpp:609`), so the record says `add_bool`. The
syslog backend's map of arguments starts empty, takes the texts of a message
(`MapAfter`) and the names that its line asks for (`Looked`), and lives on from message
to message, as in the code. A line is one of `SyslogLines`: while names are
inserted the map's vector may move, and the text behind a pointer that was taken
before may then be anything (`Dangling`, `Garbage`), whichever order the compiler
evaluates the arguments in. An argument that the format does not name goes into the
string that is printf's format, and a conversion in it (`Conversions`) prints anything.
The text of the format itself and the names of its arguments are taken to have no
conversions: the program writes them as constants. What a conversion does beyond the
text it stands in (it may end the program, or take characters of the next name) is
left out. `LoggerObjects` keeps, per place an object lives at,
whether it has a backend, and what the log was told of it. In `LogIntervals` the
steps of `time_interval_end` that read and write the shared numbers are separate
actions, because no lock covers them; the averages are promised only for
intervals that no two threads share.

### Signals

Slots are kept by key, keys wrap at `KeyMax`, and a binding or the caller of
`connect` owns each. A call of a signal is one action per slot. Assumptions:
slots leave the signal that calls them as it is (a change would invalidate the
iterators of the loop), and a key is free (`KeysLeft`: with all 65535 in use the
search ends at the key 0, which is that of a binding without connection). Every
assignment of `signal_switch` is an action of its own and the OS signal comes between
any two of them. The state and whether it was signalled are static, hence one variable
each; what listeners were told belongs to a switch (`told`, one entry for each living
one), as each has a `switched` signal of its own. The documentation asks for a single
instance; one that is destroyed may be followed by another over the same
statics (the part `"switch"`), and the code does not reject several (`"switches"`).

### Containers

Each call leaves in a history variable what was called and what it returned.
`ListSpec` and `MapSpec` say which calls a sequence or a map admits in a state
and with which result; `ChunkListIsAList`, `SmallVectorIsAList` and
`FlatMapIsAMap` instantiate them with the content of the chunks, of the array or
the heap, and of the sorted vector. `array` keeps what is in memory behind the
last element, since `resize` makes it visible again; positions of a chunk list
are chunk and index, and bisection, distance and advance are translated as they
walk over chunks. `flat_map` and `flat_set` are assigned any list: it is sorted, in any
order of the elements that compare equal (`Arrangements`), and what it has twice stays
there twice; `mapRepeats` and `setRepeats` remember that, and `MapSpec` is implemented
until then. A traversal of the trie holds a reference into the vector it appends to
(`trie.cpp:210`, `:227`); when that has no room left (`ReservedDepth`, 16 in the code) the
character read through it is undefined, and `KeyTold` is no longer the key. Characters
are those of the 128 entries of the trie's map (`CharMapSize`).

### Memory, timers, configuration, context, nodes

Blocks, objects and nodes are numbers that stand for addresses and are used again
once freed. The timers of `Timekeeping` count down to deadlines, so that the state space is
finite. `AppConfig` edits files between any two reads. `MainContext` brings
members up in the order of their declaration, lets each step fail, and takes them
down in reverse; `ContextOutlivesItsUsers` asks what is up at each use.

### Pure parts

`Bits`, `Spans`, `Optionals`, `Serialization`, `ValueTree`, `Vectors`,
`Matrices`, `Units`, `Sudoku` and `NetworkSort` are operators named after the
functions they translate, and laws that relate them: an inverse undoes, two ways
to compute agree, a reference definition (determinant, dimension, tree, sorted
sequence) is met. Numbers keep their width in `Bits` (small widths, wrapping as
in the code). Floating point is replaced by exact fractions; an angle is its
sine and cosine or a fraction of a turn. In `Serialization` a sink remembers whether
one of the writers' assertions failed (`asserted`; `PutSpan` and `WriteOne` are
`plain_serializer::write`), spans of values of a fixed size are read by the fast
backend as a whole (`FastReadSpan`), which for less than one value, or none asked for,
has not enough data, and for some of them an incomplete read.

## Runs

| run | bounds | states | question |
|---|---|---|---|
| `workshop_safety` | two units in one batch, a second, empty batch, three workers, one retry | 590 000 | units, latches, wakeups, misuse, and the contract |
| `workshop_liveness` | two batches of one unit, two workers, one retry | 101 000 | do waiting clients and a shutdown always get through |
| `progress` | two threads, two objects, two observers, two addresses, keys modulo 3 | 593 000 | ids, the observer, cancellation |
| `logging` | six entries over four connections; two threads, two severities, five calls, signals; two arguments of an entry, formats of up to three places, two of which print; three lifetimes of objects at three places; two threads measuring in batches of two | 724 000 | what each peer sees and what is kept; whole, complete and ordered messages; arguments, lines, lifetimes, times; the lock |
| `scheduling` | two entries, intervals 1 and 2, four ticks; three slots, two bindings, four keys; two switches, one at a time and nested | 599 000 | grid, service, failures, return; keys and slots; interruptions |
| `components` | see below | 127 000 | the stack arenas, containers, owners, timers, configuration, context, nodes, tiling |
| `values` | some ninety thousand samples | 94 000 | the laws of the pure parts; what is decoded is what was encoded |
| `stack_exhausted` | six cells, callers that do not ask first | | *violated*: the assertions of `stack_byte_allocator` |
| `log_stream_replay` | four entries, three connections | | *violated*: `add_chunk` adds |
| `log_proxy_describe` | four calls, no signals | | *violated*: descriptions reach the log |
| `progress_cancel` | as `progress` | | *violated*: a canceled activity stays canceled |
| `network_sort` | arrays of zeros and ones of the length 13 | | *violated*: the networks sort |

Why these bounds are enough to meet the interesting cases:

- *Workshop.* Two units let one be queued while the other runs, is retried or
  is delivered. `Hardware = 3` makes `enqueue` start two workers, and a third
  can be added. The empty batch waits in `wait_until_idle` and passes its latch
  at once, so an idle sleeper competes with the workers for `notify_one`. A
  third kind of sleeper does not exist. With more units, workers or retries
  the theorems take over.
- *Progress.* Two objects are a parent and its sub-activity, or two activities
  of different threads; with two addresses and the keys 1 and 2 both are used
  again at once, and the key search has to skip zero and a key in use.
- *Logging.* Three entries can be stored while a connection is replayed and
  breaks, and two more connections are still to come. Two calls kept back and
  two after `configure` are needed to see a wrong order, a second thread to see
  mixed messages. One place that two arguments refer to and that changes in
  between shows what is copied and what is read late: numbers are viewed and
  told one by one, the text or `const char*` that stands for a missing one is copied.
  A format with two names over up to two arguments leaves one name, both or none
  without a value, so that the map grows while a line is made; another has more
  places than there is a `_do_log_I` for, and a third leaves all arguments to go
  behind it, one of which may be a conversion. Two threads in one batch of two
  measurements are enough to lose one.
- *Scheduling.* With an interval of one, an update can be late by four intervals.
  Three slots and two bindings fill all but a few of four keys, so that keys wrap
  and have to skip used ones. Two switches that nest are enough for one to restore
  the other's handlers and to say what the other one then never says.
- *Components.* Eight cells hold three blocks of mixed sizes, so that a
  block can be returned below, between and above others, and the arena gets full
  (callers ask `max_size` first). Chunks have the smallest size the code admits
  (4), of which five elements and three chunks give full, split and empty ones;
  the small vector has room for two of four elements; four keys give a map every
  kind of neighbour; lists of up to two elements repeat a key; the trie's alphabet leaves out one of
  the three characters, and its keys get as long as what a traversal has reserved; two
  buffers and a pool of one meet its limit; three holders and the revisions, the
  two services, the three handles and the nine tiles around the first board do
  the same for the others.
- *Values.* Small exhaustive sets where there are any (all pairs of small widths,
  all short sequences, all 288 boards of rank two, all arrays of zeros and ones
  of up to ten and of twelve elements, which is enough by the 0-1 principle), chosen
  values with their edge cases elsewhere.

`CHECK_DEADLOCK FALSE` stands where the program ends or a bound is reached: the
workshop after it was destroyed, shut down under its clients, or aborted; the
logs after `finish_stream`, `finish_log` and the bound on connections, entries
and objects; the components whose life ends (main context, storages) or whose
histories are bounded; the samples, which have no successor. The `scheduling` and
`progress` runs never stop and are checked for deadlock.

### Fairness

- *Workshop* (`FairSpec`): weak fairness of each worker, of each client's steps
  and of the join loop. A thread that can run is scheduled by the operating
  system; a mutex that is free infinitely often is not always got under weak
  fairness alone, but a section under the mutex is one action here, so there is
  no one else to wait for. No fairness for the owner's calls (`shutdown`, the
  destructor) nor for spurious wakeups.
- *LogProxy* (`Fairness`): weak fairness of each thread inside a message. The
  calls are bounded, so a thread cannot be overtaken for ever.
- *Scheduler* (`UpdateGoesOn`): weak fairness of the steps of a running `update`;
  nobody is obliged to call it.
- *Signals* (`SwitchPolled`, `SwitchGoesOn`): a main loop asks the switch again
  and again (this is what it is for), and a member of it that has begun goes on;
  of several that are alive some one is asked. No fairness for OS signals nor for `reset`.

### Properties

- `UnitsConserved`: a submitted unit is in exactly one place (queue or a
  thread's hands) until it is delivered, and nothing refers to one that is
  delivered or freed. `LatchCountsUndelivered` ties the latch to it.
  `NoLostWakeup` and `IdleSleepersAreOwedAWakeup` are the two halves of why one
  condition variable is enough. `KeepsContract` is the refinement of
  `WorkBatches`. `GoneIsQuiet`: after the destructor no thread runs.
  `TerminateOnlyAfterMisuse`: only joining twice or releasing a worker ends in
  `std::terminate`. `BatchesComplete`, `ShutdownCloses`: liveness.
- `IdsAreAlive`: the address an id stands for is a node still in the map, and
  each activity has its own. `ObserverIsRight`: the observer knows exactly the
  activities there are, and was last told the right steps and parent of each one
  no call is under way for. `RevivedOnlyByOverlap`: cancelling is for good unless
  two threads were in the callback at once.
- `ConnectionsAreWellFormed`, `EntriesAreKept`: what every peer receives is a
  stream with its header and first entry, and an entry that was finished was
  sent, or is stored in order, or was lost by a replay that failed.
  `EntriesAreWhole`, `LogIsComplete`, `EntriesAreWritten`: messages of several
  threads are not mixed, none is missing or out of order, and no one waits for
  ever. `MessagesAreAsGiven`: a message is what its arguments were when they were given,
  whatever happened to their memory if they are copied, and if it was left alone
  otherwise. `LinesShowTheArguments`: the line of an entry with a value for every
  placeholder shows its own, last ones, whatever names and texts earlier entries
  left in the map. `LifetimesAreBalanced`: the log's
  account of objects agrees with the objects there are. `LogTimesAreRight`:
  averages and the back-off of repeated entries.
- `IntervalsServedOnce`, `FailureCostsOneInterval`, `NothingOverdueIsLeft`,
  `UpdateReturns`; `SignalsReachTheirSlots`. `SwitchIsConsistent`: the last switch
  to go restores the handlers the first one found, and a single switch has told its
  listeners what the statics remember. `InterruptionReported`: an interruption that
  no listener was told of yet is told to those of one switch.
- `BlocksDisjoint`, `DifCountsUsed`, `AllReturnedAllFree`,
  `PoliteCallersAreServed` (stack arenas); `ContainersKeepTheirPromise` (the
  vector and the chunk list implement `ListSpec`, the map and the set `MapSpec`
  until a list with repeated keys is assigned to them);
  `StructuresAgree` (what a chunk list and a trie find by position, by bisection
  and by key is what was put in); `OwnedOnce`, `TimersAreKept`,
  `ContextIsCurrent`, `PuzzleTilesHold`, each a statement about the component
  that runs.
- `ValuesObeyTheirLaws`: the laws of all pure parts. `DecodedAsEncoded`: what a
  backend writes into a sink of any size is read back as it was or reported as an
  error, and the stream parser tells the same whatever the cuts. A code point, a
  block with its size, an encrypted block, a list of strings and a path come back
  from their bytes, and too little room for them is reported.

### What the properties exclude

These are places where the code does something else, which the models show when
the restriction is dropped; each is described under "Observed while reading".

- `AnyHint = FALSE`: a hint that is neither the end nor the key's place doubles a
  key that is there.
- `Overlay = FALSE` in `TreeNodes`: nodes that an overlay keeps for its children.
- `TilesStay` leaves out the corner tiles of boards of rank two, for which a
  solution need not exist; `SolveLaws` boards that are solved already.
- `DecodedAsEncoded` applies where `CanReturn` says so: not to an empty optional
  or an empty name, the lowest signed number of the portable backend, and powers
  of two that look like zero or an infinity.
  Nor does it to empty lists of values of a fixed size in the fast backend, whose
  read of no values has not enough data. In a debug build, writing an empty span or a
  value that does not fit ends in an assertion (`asserted`); `RoundTripLaws` says that
  nothing else fails it, and that the error the assertion meets is then the
  incomplete write, not the one it expects.
- `ValuesObeyTheirLaws`: products of scaled quantities are compared in base units
  unless a mass is among them or one of the scales is of no base unit (`Mixed`), where the
  code converts only a part; unit vectors come back from their spherical coordinates
  unless they are level; `LookLaws` does not ask for the eye in the origin.
- `OwnedOnce` speaks of a pool until a caller keeps an object it has returned,
  and leaves out the blocks that a buffer loses when another one is moved onto it.
- The averages are promised for intervals that no two threads measure at once:
  measurements of a shared one do get lost, in the code and in the model.
- `MessagesAreAsGiven` has no claim about an argument that is viewed and changed
  before the entry ends (it is logged as it is then), and takes for the value of a
  `const char*` the `true` it is logged as.
- `LinesShowTheArguments` has no claim about the fields of an entry that leaves a
  placeholder without a value (it shows a text of an earlier entry, or what a
  dangling pointer finds), nor about the text of an argument that goes behind the
  format, only that it is there.
- `SwitchIsConsistent` says of several switches at once only that the handlers are
  restored: one of them goes on saying what another one has taken back.
  `InterruptionReported` speaks of the first report: a switch that follows one that
  reported, without a reset in between, tells its listeners nothing.
- `ContainersKeepTheirPromise` ends for a map or a set with a list that has a key
  twice. `StructuresAgree` knows the keys of a traversal up to `ReservedDepth`, and
  leaves out characters beyond 127 and what the traversal does after its last call.
- `EntriesAreKept` steps aside once a replay has failed; what is lost then is what
  `AddChunkAdds` is violated by.
- `LogIsComplete`: `configure` is one step, and other threads log only after it. A
  thread that logged during the replay would be written in front of what was kept.
- `SignalsReachTheirSlots` needs a free key (`KeysLeft`).

## Proofs

Eight modules hold theorems; the theorems a reader should know of are listed in
`PROJECT.json`, each with the property of a run that it states, if it states one.
Unless something else is said they rest on the assumptions of the modules only,
that is, they hold for every number of threads, clients, units, entries,
connections, calls and so on, where the runs have two or three.

**WorkshopProofs.** From `WorkshopAssumption` only (any finite set of units, any
clients, workers and retries). `TypeCorrect` needs that a thread at `run`,
`deliver` or `requeue` holds a unit (`HoldsUnit`). `UnitsAreConserved`,
`LatchesCount` and `WorkshopKeepsContract` rest on `UnitsInv`: the properties
together with `ThreadPlaces`, which says where threads can be that were not
started or have left. Neither property is inductive alone: that a freed unit
is nowhere follows from a latch of zero, which means that all units of the batch
were delivered (`ZeroLatch`, by the cardinality of the undelivered ones), which
in turn are in no queue. The refinement then maps each action to a step of
`WorkBatches` or to none. `NoWakeupIsLost` and `IdleSleepersAreServed` rest on
`WakeInv`, which adds the flags and that a thread with a unit in hand is awake:
it is the one that notifies later. `GoneStaysQuiet` and
`TerminatedOnlyAfterMisuse` rest on `EndInv`: the join loop has joined every
thread before the one it is at (`LifeInv`), without an explicit
`wait_until_closed` none was joined earlier (`AbortInv`), and clients that are
done have their batches freed (`FreedInv`), so that no unit is left when the
threads are gone.

**ComponentsProofs.** About `ComponentsSpec`, in which one of the components
runs and the others stay as they are (`OthersStay`), so that the theorem about
several of them follows from the invariants of each.

- *Stack arenas*, for every capacity, alignment and set of sizes that
  are not zero (`PositiveSizes`, a hypothesis of the theorems because the code
  accepts empty blocks; the effect of those is described below). `StackInv` is the
  conjunction of the properties with the range of the blocks; the work is in the
  cardinality of `Used` above `min` when an interval is added or removed
  (`AddInterval`, `RemoveInterval`), and in the case distinction of `deallocate`.
  `PoliteCallersStayServed` assumes of the constants what the property says of
  callers and buffers (`PoliteCallers`: they ask `max_size`, the buffer begins at a
  multiple of every alignment, and the padding fits into its byte); its
  arithmetic is that of `pos % alignment` (`PaddedIsAligned`).
- *Timers and histories* (`TimersStayKept`), for all periods and numbers of
  revisions. `TimeoutsInv`: what is left of a timeout and the time since it was
  set add up to no more than its period (`OnTime`). `HistoriesInv`: the
  revisions are the end of what has passed; that the deltas add up to the
  distance is an induction over a recursive sum (`DeltasTelescope`).
- *Main context and configuration* (`ContextStaysCurrent`). `MainInv` says for
  each stage which members exist, whether the context is published and what was
  logged. `ConfigInv` is the property itself with the range of files and values;
  the work is in the order of the search, which is a computed sequence
  (`SearchOrderFacts`).
- *Owners* (`HandedOutIsOwnedOnce`). `BuffersInv`: each block in use has one
  owner, a caller's buffer or one in the pool, or was overwritten by a move.
  `PoolInv`: until an object is returned twice, those marked as used are those
  that holders have, one each, and as many as the count says. `StorageInv`: until
  a constructor throws, blocks and destructors are in step. `NodesInv` (`TreeOK`):
  a node counts the handles that refer to it and has the path they mean, with the
  cardinality of `RefsTo` for one handle more and one less (`RefCounts`). An
  overlay has no nodes of its own, hence the hypothesis `~Overlay`.
- *Containers* (`ContainersKeepTheirPromises`, `StructuresStayConsistent`): see the next
  paragraph. `~AnyHint` is a hypothesis of the first, because a wrong hint
  doubles a key; so is that of the run. A list with a key twice is no hypothesis but a
  case: the statement is that the map is a `MapSpec` until it takes one.

**ContainersProofs.** The refinements are shown call by call. `FlatInv`: keys are
sorted and each is there once, unless the list that was assigned last has one twice,
so that bisection finds where a key is or would be; after an assignment this follows
from the list, since what is sorted is an arrangement of it (`Arrangements`). `VectorInv`: the
array has its full length and the size is within it while the elements are
there; what a call leaves behind the last element does not matter.
`WellChunked`: no chunk has more than `ChunkSize` elements. `AtIndex` says that a
position (chunk and offset) is the n-th element however many chunks before it
are empty (`IndexCounted`); an insertion into a full chunk splits it (`FullSplit`),
resizing keeps the first elements (`ShrunkKeepsFirst`). For `StructuresAgree` the
bisection over positions keeps, turn by turn, to one over indices (`KeepsTo`,
`ChunkHalvedFacts`), and
`ChunkPositionsHold` follows from `WellChunked` alone. Of the trie, `TrieInv` says
that there is a text for every node (`TrieShape`: the root's is empty, a
child's is its parent's and one character, no two are the same, every other
node is a child of one before it) and that the nodes have the values of their
texts (`TrieHolds`). A lookup comes to the node of the key or to one without
child for the next character (`WalkFacts`), and beyond that there is no key
(`NothingBeyond`); the loop of `insert` keeps the shape with each node it adds
(`TrieGrows`, `GrowTurn`), also the ones it leaves when it meets a character
that is not in the alphabet. Loops are functions of the turn (`After`), and
`AfterStays` is their induction. Alphabets may be empty and have a character twice;
what a traversal visits are the nodes, with the keys it can still tell (`KeyTold`).

**NumberFacts.** What the other modules need of numbers and sequences: the least
member of a set of numbers and induction over such a set (`Least`,
`SetInduction`), induction over sequences (`SequenceInduction`), sums, parts and
joins of sequences as functions, powers of two, elements put in and cut out, and
sequences that are in order.

**SchedulingProofs.** The scheduler, for every set of ids and positive
intervals: `Inv` adds `LoopInv`, which relates `overdue` to the entry being
visited while the loop is under way. The grid is kept because the next time is
the old one plus one interval (`NextInterval`). The signal switch, for any set
of OS signals and nesting: `NestInv` (the first switch saved the handlers found
at first, the others what a switch had set, and each has its own entry in `told`) and,
for one switch at a time, `SaidInv` (what was said and what is remembered, in the
middle of a member too). Signals, for any slots,
bindings and width of keys: `SignalInv` says that the map is sorted, that every
key in somebody's hands is in the map with the right slot, in one hand only, and
that nothing else is in the map; there is a free key for `connect` because fewer
keys are used than there are (`FreeKeyFacts`). Both are about `LoopSpec`, where
the parts of a main loop run.

**ProgressProofs.** From `ProgressAssumption` only. `Inv` adds to the properties
that the keys of the map are unique (so that erasing by key erases the
activity's own node), that each object has at most one call under way
(`CallsInv`), that parents outlive their sub-activities (`ParentsInv`; hence the
id of a parent does not change under its child), that an info not being filled
in names the right parent (`InfosInv`), and what the observer knows of an
activity while a call is under way (`ViewInv`: nothing, the right thing, how it
began, or it is about to be told). `CancelHolds` has an invariant of its own,
`CancelInv`: what a thread is about to store was loaded after the last store.

**LogOutputProofs**, the stream. From `LogStreamAssumption` only. `StreamInv` adds to the two
properties: the entry being made is the last one (`BufferInv`), the file is
written to at its end unless a replay failed (`FileInv`), an open connection has
got its header and ends with a whole entry (`ConnInv`), what is remembered as
the first entry is the first one and waits in front of all others until it is
remembered (`FirstInv`), and what was sent or is stored was finished (`KeptInv`).
The proof follows one send: `WritesFacts` says what is written for the entries,
`WrittenFacts` what of it has arrived after k writes, and `SendOutcome` splits
into the three ways it can end: all is written, the replay broke, or the new
chunk broke.

**LogOutputProofs**, the proxy. From `LogProxyAssumption` only. `ProxyInv` says that the proxy is
in one of two states, `KeptBack` (nothing is out, only the main thread has
entries, begin_log is the first call kept) and `PassedOn` (nothing is kept, no
entry goes to the proxy any more); that the holder of the lock is the one thread
inside of a message and the buffer holds the parts of that message
(`LockInv`); and how the numbers of the calls in the log, of those kept back and
of those under way are related (`CallsInv`, `DoneInv`, `OnceInv`). `OnceInv` is
what makes order inductive: a thread's call under way is later than all of its
calls in the log.

**LoggingProofs.** Four invariants, one for each of the parts that `MCLogging`
composes beside those two. `LifetimesInv`: the balance of creations and
destructions, by counting the places with an object of an id when one place
(`PutStepCounts`) or two (`TwoPutsCount`) change. `RepeatsInv`: the period is the
interval doubled once for every gap. `IntervalsInv`: the numbers in a thread's
interval are those of its measurements at every moment, the one that is being
added kept apart; it holds as long as no two threads have one logger (`Apart`)
and no logger has the name of the handle without an interval, a hypothesis of
`LogTimesStayRight`. `EntriesInv`: an argument is the entry's own or still in its
place. `MessagesStayAsGiven` then needs that the calls of an entry are those of
its arguments as they were given (`EntryCallsFacts`), and
`LinesStillShowTheArguments` what `Among`, which the arguments and lines are
taken with, finds (`AmongFacts`), that its last member is the value shown
(`MapFacts`), and that an entry with a value for every placeholder asks for no name
that the map does not have (`NothingMissing`), so that no pointer dangles.

Some of these lemmas are inductions over data. The library's induction theorems
take an operator, which the provers cannot instantiate, but an induction over
a set of numbers can be had from the well-founded order of the natural numbers
(`Least`, `SetInduction` of `NumberFacts`): a recursive function is characterised
step by step (`SumsFacts`, `PartsFacts`, `JoinedSeq`, `LoopTurnsExist`), its
existence for every length is shown by `SetInduction`, and its properties by
another one. `LogEntries` is written with such functions where the community
modules have operators without definition for the prover (`SelectSeq`, `@@`).

Only model-checked:

- the liveness properties: fairness and `ENABLED` are beyond the prover;
- `AssertionsHold`, `AddChunkAdds` and the other statements that a run shows to be
  violated;
- `PuzzleTilesHold`: that a tile on the edge always has a completion is a fact
  about the puzzles of a rank, which the run finds by trying them all;
- the laws of the pure parts. `ValueTree`, `Serialization` and `Units` have recursive
  operators, behind which the prover proves next to nothing; the others speak
  of samples, for which running them is the proof.

## Findings

1. `stack_exhausted`: `stack_byte_allocator::allocate` asserts that the padding
   fits into the block before it looks whether there is a block: an exhausted
   arena aborts a debug build, where an empty block was meant to be returned.
2. `log_stream_replay`: `add_chunk` writes where the file is positioned. A
   connection that breaks while stored entries are replayed leaves that position
   in the middle, and the entry stored next overwrites one never sent.
3. `log_proxy_describe`: `set_description`, `declare_state` and `active_state`
   are kept back before `configure` and dropped after it.
4. `progress_cancel`: `_keep_going` is atomic, but is loaded and stored in two
   steps, and nothing keeps two threads out of the callback at once: a thread
   that loaded true before another one was canceled stores true after it, and
   later calls are told to go on.
5. `network_sort`: sizes without a manual network get the bitonic rounds, which
   assume a power of two; arrays of thirteen elements come back out of order.

Observed while reading, without a run (paths in `E/`):

- *Memory.* An empty block of `stack_aligned_byte_allocator` that is returned
  after the block below it ends above `_pos` and fails an assertion. Move
  assignment onto a buffer that has a block loses that block
  (`memory/buffer.cpp:74`). A constructor that throws leaves its block and
  destructor in the storage, and `clear` then destroys an object that was never
  built; `add` and `operator()` no longer agree on the indices
  (`memory/object_storage.cpp:78-82`, `:158`). An offset pointer
  to its own address is null (`memory/offset_ptr.cpp:240`).
- *Containers.* A wrong hint doubles a key (`container/flat_map.cpp:512`), and so
  does a list that has one twice: it is sorted and nothing is removed
  (`flat_map.cpp:310-320`, `flat_set.cpp:75-84`), where the `std::map` that `flat_map`
  is a "Drop-in replacement for" (`:252`) keeps one of them; `erase` asserts that there is one
  (`flat_map.cpp:473`, `flat_set.cpp:217`). The
  trie's traversal reports a value again after each child of its node, and at its
  end takes a character from an empty string (`container/trie.cpp:217-221`); below sixteen
  levels it reads through a reference into a vector that has grown (`:227-228`), and
  characters outside of ASCII are looked up past the end of the map (`:157`, `:379`).
- *Signals.* When all 65535 keys are in use, `connect` goes on to 65536, which as
  a key is 0 and passes the assertion, and hands it out (`utility/signal.cpp:53-65`). A second
  `signal_switch` finds the static state of the first one: after an interruption it
  is true when it was made, against its `@post` (`runtime/signal_switch.cpp:25`), and
  never calls its own `switched` for what another one reported
  (`signal_switch_impl.cpp:50`).
- *Logging.* The temporary storage's `empty()` stays false after `clear()`;
  entries then take the way through the file, which changes nothing of what is
  sent. Messages kept back are replayed whatever the least severity is.
  `finish_stream` on a fresh connection writes the footer without a header. If
  the temporary file cannot be made, entries that cannot be sent are dropped. A
  `uint64` argument is tagged `int64` (`logging/entry.cpp:354`). An argument
  given as `const char*` is logged as the bool true, since a pointer converts to `bool`
  before it does to a string view (`entry.cpp:608-610`). The syslog
  backend never empties its map of arguments (`syslog_backend_impl.cpp:144`) and shows
  an earlier text for a placeholder without a value; it takes pointers to the texts
  while the map still grows (`:342`), and texts of arguments without a placeholder
  become a part of printf's format (`:146-149`, `:335`); a
  format with more than twelve placeholders prints nothing (`:359`), and every
  line has the severity info (`:335`). An interval registered before `configure`
  is number 0 for ever (`proxy_backend_impl.cpp:199`). The tag
  `--log-active-state` never matches (`root_logger_impl.cpp:319`). `configure` of
  `basic_logger` always returns false (`logger_impl.cpp:48-53`). An argument
  functor that logs waits for the lock its own message holds (`entry.cpp:79`,
  `json_backend_impl.cpp:486`).
- *Sudoku and sorting.* Corner tiles of rank two may be retried for ever
  (`utility/sudoku.cpp:923`), a patch's height is rounded by its width (`:706`),
  a board without solution fails an assertion (`:689`), a board that is solved
  already is not recognised (`:651-665`). From the rank 6 on `to_cell_type` shifts by
  more than an `unsigned` has (`:200`). The last row of the network for sixteen
  (`utility/network_sort.cpp:489`) names an element twice and loses another.
- *Units and mathematics.* Converting km/h to m/s multiplies by 3600 where it
  should divide (`units/unit.cpp:138-146`). `looking_at_y_up` builds its axes from
  vectors that need not be perpendicular (`math/matrix_construct.cpp:945-970`) and moves
  by the axis instead of by the eye;
  the longitude of `to_unit_spherical` is left out at y = 0
  (`math/coordinates.cpp:67`) instead of at the poles; `fibonacci(0)` is 1.
- *Value trees and serialization.* A token longer than the parser's window may be
  parsed from its first part (`value_tree/json_impl.cpp:954`); an overlay keeps
  plain references to its children's nodes (`overlay_impl.cpp:86-91`) and finds no
  paths (`:165`); a list of texts is told as empty texts
  (`wrappers_impl.cpp:131-133`). Positive powers of two with the exponents 0 to 5
  are read back as zeros, infinities or not a number
  (`serialization/float_utils.cpp:90`), an optional is read even when the count is
  zero (`read.cpp:408`), the lowest signed number cannot be read back
  (`portable_backend.cpp:150`, `:342`), and the fast backend does not look whether
  a text fitted (`fast_backend.cpp:66`). It reads an empty list of numbers as one that
  has not enough data (`fast_backend.cpp:109-115`). `plain_serializer::write` asserts that
  a write of nothing has too much data (`write.cpp:76-78`, `:85-91`); a block that is full
  reports an incomplete write (`block.cpp:76-82`) and an empty span no error.
- *Texts and blocks.* The largest code point of a length is encoded with the next
  one (`string/multi_byte.cpp:196-201`). `do_decode_length_and_code_point` wants one
  byte more than the sequence (`:303`), so `for_each_data_with_size` does not visit
  an empty block at the end. `pad_and_store_data_with_size` does not end for an
  empty block with something to pad (`serialization/size_and_data.cpp:44`). The
  length that a path asserts when it is made of names counts one byte for each
  header, although names of 127 bytes and more have longer ones, and zeros that are
  trimmed (`string/path.cpp:357-366`). `parent` asks whether the path itself is
  empty, not the copy it removes from (`:268`). `for_each_separated_c_str` drops the
  text behind the last separator (`string/list.cpp:253-265`).
- *Others.* `advance` of a history adds to the oldest value, which the rotation
  made current (`runtime/value_with_history.cpp:302-306`). Spans that only touch
  overlap (`memory/span.cpp:316`). `for_each_chunk` does not end for a length of
  zero, nor `for_each_delimited` for an empty delimiter (`span_algorithm.cpp:816`,
  `:832`). `are_safe_to_add` takes the absolute value of the lowest number
  (`types/limits.cpp:284`). A value assigned to an empty `optionally_valid` is
  stored and does not count (`types/optional_like.cpp:656`).
- *Log server.* An entry of a type without extractor inserts its type into the
  map under a view of the parser's buffer (`json_parser_impl.cpp:515`); the socket
  file is removed in the destructor only (`asio_reader_impl.cpp:243`).

## Not modelled

- *Log server*: a separate application. Its parser is the streaming one of
  `ValueTree`; what it does with an entry is text, PostgreSQL and InfluxDB.
- *Compression*: zlib, an external library.
- *Spinlock*: one atomic flag; the models use locks abstractly.
- *Base64, number parsing, formatting, console*: text put together character by
  character.
- *Reflection, outcomes, C API wrappers*: the compiler computes and checks them.
- *Resources, build, system and user information*: read-only access.
- *URLs, executable modules, processes*: one call of a library or of the
  operating system each.
- *Log viewers and scripts*: tools beside the library.
- Rounding of floating point, and within the modelled parts what their notes in
  `PROJECT.json` name.

## Plan

What is left, in this order:

1. the part of `PuzzleTilesHold` that does not depend on the puzzles (finished
   boards stay, boards obey the rules) as a property of its own, and its proof;
2. `LogServer`, and a composition with `LogStream` as its peer: every entry that
   was sent is reported once, however the text was cut.
