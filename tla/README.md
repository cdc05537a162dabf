# Protocol8 in TLA+

Protocol8 is a client-side telemetry library. Threads of a process write logs,
metrics and trace spans into buffers; one worker thread collects the buffers and
sends them to a sink. This directory holds TLA+ models of its engine
(`src/engine/`), the TLC configurations that check them on small instances, and
proofs checked by TLAPS that hold for every instance.

## The system

| Component | State | Operations |
|---|---|---|
| Memory budget (`p8_memory_budget`) | bytes reserved, cap | `try_reserve`, `release` |
| Buffer pool (`p8_buffer_pool`) | all buffers, free list, FIFO queue of waiters on condition-variable shards, `mu_inflight`, `mb_stopping` | `init`, `acquire_no_lock`, `acquire_wait`, `recycle` (one, list), `stop_waiters`, destructor |
| Core (`p8_core`) | reference count, registry of writers, ready queue, service buffers, descriptor registries, drop accumulators, `mb_wake_pending` | `acquire_buffer`, `release_buffer(s)`, `addref`, `release`, `register_writer`, `unregister_writer`, `push_ready`, `resolve_log_desc`, `resolve_trc_desc`, `register_mtk`, `attr_register`, `register_module`, destructor |
| Worker (`cp8_core::worker_main`) | the batch it holds | wait, collect, write service data, poll the drop counters, clear the debounce, flush, recycle |
| Thread-local writer (`p8_tls_writer`) | tail buffer, finished fragments, buffer number, drop counters, cache of attributes | `pull`, `core_push`, `rotate_fragment_buffer`, `copy_fragmented`, `serialize_attrs`, constructor, destructor |
| Log API (`p8_log`) | cache of resolved call sites | `send`, `parse_format_string` |
| Metric API (`p8_mtk`) | none of its own | `create`, `emit` |
| Trace API (`p8_trc`) | stack of open spans, block of span identifiers | `create`, `begin`, `begin_async`, `end` |
| File sink (`p8_sink_file`) | two files, iov array, bytes written and dropped, errors | `open`, `write_hello`, `write_data`, `write_service` |
| Null sink (`p8_sink_null`) | byte counter | the same |
| Initialisation (`p8_initialize`, `p8_release`) | per DSO: the global core and the segment it created; the core published in shared memory | create, adopt, look up, release |
| Configuration (`p8_config`), size parsing, format string parsing, UTF-8 cutting | none | pure functions |

How they interact. A thread's first use of the API constructs a writer, which
looks up the core, takes a reference to it and enters the registry. A record goes
into the writer's tail buffer under the writer's spin lock. When there is no room,
the writer unlocks, takes a buffer from the pool (waiting in the FIFO queue when
memory is exhausted) and locks again. Meanwhile the worker, woken by an event or
by a timeout of 50 ms, walks the registry, takes every buffer of every writer,
adds the buffers left by threads that have exited, takes the service buffers with
the descriptors, writes descriptors before data, and recycles everything, which
serves the waiters. The last reference to the core refuses the waiters, stops the
worker and waits for it.

What is hard: five kinds of lock and two lock-free counters; a buffer that changes
owner between four parties; waits with locks given up and taken again; a descriptor
that must precede its records though the two travel separately; records that cross
buffers and are rolled back half-way; threads that exit while they are being
collected; shutdown; several copies of the engine in one process that share a core;
16-bit sizes; writes that are short. `PROJECT.json` lists each such place, with its
line, under "hazards".

## Modules

| Module | Models | State and actions |
|---|---|---|
| `BufferPool` | the pool, the budget, and `cp8_core::acquire_buffer` as their client | one variable per member; one action per critical section of `mo_mutex` |
| `FifoAllocator` | nothing: what the pool promises | a stock, a queue, and the outcome of each client |
| `BufferPool_proofs` | | the theorems about `BufferPool` |
| `Pipeline` | writers, log and metric descriptors, worker, stop of the core, on top of `FifoAllocator` | one action per critical section, wait or worker phase |
| `Spans` | the trace API: identifiers, stack of open spans, records, and the batches that carry them | one action per call, one per step of the worker's collection |
| `Spans_proofs` | | the theorems about `Spans` |
| `Pipeline_proofs` | | the theorems about `Pipeline` |
| `SinkFile` | both sinks | one operator per call, with the failures inside it |
| `Service` | attributes, modules and span sites on their way to the sink: `SinkFile` composed with `FifoAllocator` and the worker's loop | one action per critical section, wait or worker phase |
| `Service_proofs` | | the theorems about `Service` and `SinkFile` |
| `FormatString` | `parse_format_string`, and the arguments C passes for a format | functions |
| `Records` | the bytes of a record in data buffers, and the receiver that joins them | one action per call, two when it waits |
| `Records_proofs`, `RecordsArgs_proofs` | | the theorems about `Records`: its bytes; the arguments of its formats |
| `Lifecycle` | `p8_initialize`, `p8_release`, lookup, references, configuration | one action per access to shared memory or to the count |
| `Lifecycle_proofs` | | the theorems about `Lifecycle` |
| `FoldTheorems` | | what `FlattenSeq`, `SumFunctionOnSet` and `FoldLeft` compute, for the proofs |
| `MC...` | | model values, symmetry and instances for TLC |

`Pipeline`, `Service` and `Records` look at the same path at three magnifications.
`Pipeline` has all its interleavings and counts cells; `Service` replaces the data
half by finished buffers and has the descriptors and the sink in full; `Records`
replaces threads and worker by their effect on one writer and has the bytes. Each
uses the pool only through what `FifoAllocator`, which `BufferPool` implements,
promises.

Definitions have the names of the functions and members they model; `PROJECT.json`
maps each one to its lines. A definition whose comment begins with "Mutated form"
is a wrong variant of the one that follows it and is used by no specification; it
is there to show that a property depends on that piece of the code.

### BufferPool

Threads are in `acquire_buffer`: `idle`, in the `gap` between its two critical
sections, `asleep` on a shard, `notified`, `woken` (holding `mo_mutex` again), or
`leaving` (unlocked, `mu_inflight` still to be decremented). A batch recycle holds
the mutex over several steps, because each notification can be observed. Spurious
wake-ups happen; `new(std::nothrow)` fails at any time when `AllocMayFail`.
`mu_cv_next` is kept modulo the number of shards, which divides 2^32. A refused
non-blocking acquire changes nothing and is a stuttering step. The destructor may
run while threads are parked, but not while one is about to enter, which the
reference count of the core guarantees (`CoreOutlivesUsers` of `Lifecycle`).

### Pipeline

A data buffer is a record of its writer, number, used cells, the descriptors of
the records that begin in it, and the fragment flag; a cell stands for a few
bytes, so that the thresholds (`P8_LOG_MIN_BUFFER_SPACE`, the item headers) keep
their order. A service buffer is the sequence of descriptors in it.
`LogSizes` holds sizes that fit and sizes that cross a buffer boundary.

Merged into one action, with the reason:

- `notify_pressure` with the attempt that calls it: nothing is observed between;
- the batch timestamp with the lock of the registry: the set `due` of buffers the
  batch must contain becomes larger, which makes `BatchFloor` stricter;
- the unlock of the registry with the drain of the ready queue;
- taking the service buffers or the batch with writing them: only the worker
  writes;
- `poll_dropped_stats` over all writers, and `accumulate_dropped(pull_dropped())`:
  the counters are read and reset by one atomic exchange each;
- `unregister_writer` with `release`, at the end of the writer's destructor.

Left out: time (a timeout may come whenever no event is set, and the poll of the
drop counters may be due in any cycle); the empty keep-alive batches, which
`Service` has; the capture mode of the test build; records over more than two
buffers, which `Records` has; a repeated or conflicting `register_mtk`, which
changes nothing. A log descriptor always fits a service buffer, a metric descriptor
with its attributes may not (`HugeMtkIds`). A writer is created in one step;
`Lifecycle` takes that step apart.

### Spans

A span identifier is its asynchronous bit and its number; numbers stay below 2^63.
A writer's buffers are the records in them. A call is one action: of its effects
other threads see the `fetch_add` on the core's counter and the record, and no
property depends on what happens between the two. Begin may be dropped half-way
(no buffer for its attributes); end waits for a buffer and is dropped only on
shutdown, when no writer is left, so that is left out, like a descriptor that cannot
be written. Any span the API returned may be ended on any thread, any number of
times. A record takes the current tick and the clock advances with each record, so
the first record after a batch timestamp has exactly that timestamp; the safety
margin the core subtracts from it is taken as 0, the tightest case.

### SinkFile and Service

A file is the sequence of the cells in it, an iov entry the sequence of cells it
points to, and `given_svc` and `given_data` remember all the core handed over, so
that a hole in a file can be seen. `write_entries` cuts the array into chunks of
`MaxIov` entries and each `write_v` may be short; the growth of the array may fail;
`MaxErrors` bounds how often that happens. Opening a file sink may fail, and the
null sink takes its place. The calls of the sink come from one thread at a time and
are therefore operators, conjoined with the steps of `Service`.

`Service` models `attr_register`, `register_module` (with its refresh of the
verbosity), `resolve_trc_desc` and the service buffers. The strings of a site are
sent once per kind of string; `WriteInto` writes the entries that fit in one
critical section of `mo_svc_mutex` and `AcquireSvc` waits for a buffer with that
mutex released and `mo_trc_desc_mutex` held, as `svc_acquire_new` does. An
attribute or a module never waits: its entry is dropped when the pool is exhausted.
A record is emitted by a thread that has resolved its site. `Stop` needs all threads
outside the API, which their references to the core ensure.

### FormatString and Records

`parse_format_string` is a fold over the characters with the scanner's flags as its
state, the skipping of a long prefix and the quirk that the digit of `I64` counts as
a width included. Its reference, `Passed`, is the C rule: an `int` for every star,
then the value, and nothing for `%%`. A directive is one of C17 except `%n`, with any
flags, width, precision and length and any text in front, or one with a length of
Microsoft's (`I64`, `hs`, `hc`). `ArgsAsPassed` compares type by type what `va_arg` in `send` takes
with what the caller passed, for a build of 64 bits that is not Windows. The
character sets of the Windows build (`USTR16`, `CHAR16`) are left out.

`Records` numbers the bytes of a record. A buffer holds runs: so many bytes of
record `rec` from its byte `from`; the run with the header carries `mu_size`.
`RecordOf` computes a record's pieces once per call from its format, strings and
attributes, as `send` and `serialize_attrs` do, with sizes modulo `SizeMod`;
`WriteRecord` puts the pieces into buffers, rotating when one is full, and `discard`
takes them back when `acquire_buffer(false)` finds nothing. The order of bytes
inside a run is not represented, only their number. An attribute is known when
`sync_attr_cache` finds it; which of two syncs found it makes no difference to the
bytes. Both directions of the pool, `Acquired` and `Recycle`, are counted only.
`Read` is the receiver: it knows buffer headers and record sizes and nothing else.

### Lifecycle

Each DSO links its own engine and so has its own `gp_instance`; all find the same
shared memory segment. The segment is a pointer with an exclusive create. A read of
it and the use of what was found are different steps, and so are `get_global_core`
and `addref`. A configuration has a sink value, two sizes with units, and may be
unreadable; the constructor makes a core of it or fails, and may always fail for
want of memory. Sizes are computed modulo `SizeMod`, as `size_t` is.

Three assumptions about the application are constants:

- `QuietRelease`: `p8_release` is called only while no other thread initializes,
  makes its first call or registers an attribute. Between `get_global_core` and
  `addref` the code holds no reference.
- `OneRelease`: of the DSOs that share a core only one calls `p8_release`.
- `NoStaleCalls`: no call begins in a DSO whose `gp_instance` points to a core that
  another DSO has released. Nothing resets that pointer.

The library needs all three: with any one of them `FALSE` in `MCLifecycle.cfg` and the
others `TRUE`, TLC finds `CoreOutlivesUsers` violated. Only what happens without
`OneRelease` is the subject of a run, `lifecycle_shared`, because a comment of the
repository says otherwise.

## Runs

| Run | Checks | Instance |
|---|---|---|
| `pool_safety` | ownership, budget, queue, wake-ups, teardown | 4 threads, 3 buffers, 2 shards, allocation failures |
| `pool_fifo` | `NoIdleStock`, `NoBarging`, refinement of `FifoAllocator` | 3 threads, 2 buffers, no allocation failure |
| `pool_live` | every blocking acquire returns | 3 threads, 1 buffer, fairness |
| `pool_alloc_failure` | `NoBarging`, violated | 2 threads, allocation failures |
| `pipeline_records` | nine invariants of the record path | 1 log and 1 metric writer, 2 metrics, one of them too large, 2 buffers, allocation failures, 2 records, of 4 cells or (metrics) 2, in buffers of 3 |
| `pipeline_live` | a shared call site; sends return, records arrive, shutdown completes | 2 log writers on 1 call site, 1 buffer, 2 records, fairness |
| `pipeline_pressure` | `PressureHeard`, violated | 2 log writers on 1 call site, 2 buffers, 2 records of 1 or 4 cells in buffers of 3 |
| `spans` | unique identifiers, parents, order at the reader | 2 threads, blocks of 2, 3 spans (1 asynchronous), 4 calls |
| `service` | byte accounting, faithful files, order and loss of descriptors | 2 threads, 1 attribute, 1 module, 2 sites with common strings, 2 buffers of 2 entries, 1 failure, `MaxIov` 1, no empty batches |
| `records` | what a receiver recovers, alignment, cutting, arguments | a log and a trace writer, 5 kinds of call, 3 calls each, 3 buffers of 112 bytes, size field modulo 216 |
| `lifecycle` | one core, no leak, no use after deletion, the budget, death after release | 2 DSOs, 2 threads, 3 cores, 5 configurations, sizes modulo 512, fairness |
| `lifecycle_shared` | `AliveWhileReferenced`, violated | as `lifecycle` without `OneRelease`, 1 core |

Why the bounds are enough. In the pool, four threads on two shards put two waiters
on each shard, so a notification reaches a thread it is not meant for; two or three
buffers make batches of more than one buffer and free lists that are empty and not.
In the pipeline, a log and a metric writer compete for service buffers and for the
pool; with two buffers a record that crosses a boundary finds a second one or does
not (rollback), and a descriptor waits or is lost; with one buffer a descriptor and
a record compete for the same memory, which is where a deadlock would be, and two
writers on one call site meet in `resolve_log_desc`. `MaxRecords` bounds what all
writers together send. In `spans`, blocks of two identifiers are used up and reserved again by
both threads; three begins and an end make a span that closes with its parent, and
two begins and two ends make repeated ends and ends on the other thread, before,
during and after a collection. In `service`, the first site has four entries and a buffer
two, so it needs a further buffer between its entries; the second site finds two of
its strings sent; attribute and module meet a
full buffer and an empty pool. One entry per chunk makes every batch with data a
batch of several chunks, so a short write is followed by a good one; batches without
data, which are a packet alone, are bounded to none (`MaxBatches` 0). In `records`,
the calls leave room for exactly nothing, for a few bytes and for part of a number
in a buffer, need up to three buffers, some of which another writer holds, and meet the
size limit inside a three-byte character, with a number after it that is left out;
the formats are all pairs of directives of each class with every width and
precision, or every length behind a width, or with flags behind a text that looks like a
directive, and of `%%`; five arguments at most make the list run full. In `lifecycle`, two
DSOs race to publish while a thread of each looks for the core, and a third core can
follow a release; the sizes lie below, at and beyond the modulus, and the initial
size above the maximum. The passing runs take every action and every disjunct of the
next-state relations.

`CHECK_DEADLOCK FALSE` in `service`, `records` and `lifecycle`: their bounds on
calls, batches and cores bring the system to an end.

Fairness. In `BufferPool`: a thread that waits for `mo_mutex` gets it if it is free
again and again (strong fairness of the steps that lock it); the other steps of a
call are weakly fair; and each buffer that is out comes back, because the worker
collects all buffers at least every 50 ms (this assumption of the pool is what
`pipeline_live` shows of the system). Nothing is assumed of callers, of shutdown or
of spurious wake-ups. In `Pipeline`: the worker's loop and each thread inside a
call or inside its writer's destructor proceed (weak fairness), and
`mo_log_desc_mutex` and `mo_writers_lock` starve nobody (strong fairness).
Nothing obliges a thread to send or to exit, or the owner to release the core. In
`Lifecycle`: a call that has begun returns, and a thread that has a writer ends;
`ReleasedDies` is about what happens once threads end, and nobody is obliged to
start one, to initialize or to release.

### What the violated runs show

- `pool_alloc_failure`: `p8_core.hpp` promises a strict FIFO queue.
  `acquire_no_lock` does not look at the queue, so a thread that waits because an
  allocation failed is passed by a later caller whose allocation succeeds. Without
  allocation failures the promise holds, and is proved.
- `pipeline_pressure`: the comment in `worker_main` says the debounce is cleared
  before the writers are drained, so that no notification is lost. The drain is
  done by `collect_batch`, earlier in the loop; a producer that runs out of memory
  between the two wakes nobody, and waits for the timeout. `SendReturns` shows that
  it costs time and nothing else.
- `lifecycle_shared`: `p8_client_api.h` says of `p8_release` that the core stays
  alive until the last thread-local destructor releases its reference. A DSO that
  adopts the core of another one takes no reference, and `p8_release` drops one in
  each; the second call takes the reference of a live thread. Under the three
  assumptions above the promise holds (`CoreOutlivesUsers`).

Differences between comments and code that were met and have no run of their own,
because the statement is about wording, an unused value or a case outside the
instance:

- `p8_core.hpp:280` describes `mu_outstanding_buffers` as the number of buffers in
  use; it is decremented by every release, incremented by nothing, and never read.
- `p8_core.cpp:99-101` and the message of `create_sink` say that a network sink
  falls back to the null sink; the constructor fails instead.
- `p8_client_api.h:160-161` says that an attribute value whose union member does not
  match the registered type is detected and its record dropped. A value carries no
  type to compare: `serialize_attrs` (`p8_tls_writer.cpp:204`) reads the member of the
  registered type, and the record is sent. The models take the registered type for the
  type of the value.
- `parse_format_string` has no case for `%n`, for which C passes a pointer: the scan
  stays inside the directive up to the next conversion character or percent sign, and
  the arguments of that call are misread.
- A size with a unit that overflows `size_t` wraps, and gives a budget smaller than
  written, possibly smaller than one buffer; a blocking acquire then waits until
  shutdown. `BudgetAsWritten` says when the size is right and that it never exceeds
  what was written.
- String arguments of a log are limited to 65535 bytes each, not together: a record
  whose arguments exceed 16 bits has a wrong `mu_size`. The repository's backlog
  (`src/doc/todo.md`) knows it. Only attributes are limited, which `AttrsCutRight`
  shows to be enough for them. The calls of `records` keep the arguments below the
  limit.

## Proofs

Every theorem is about all values of the constants that satisfy the module's named
assumption; the bounds of the runs (`MaxRecords`, `MaxCalls`, `MaxBatches`, ...) are
constants like the others, any natural number.

| Module | Theorems | Under |
|---|---|---|
| `BufferPool_proofs` | `TypeCorrect`, `OwnershipCorrect`, `BudgetCorrect`, `QueueCorrect`, `WakeupCorrect`, `TeardownCorrect` | nothing more |
| | `StockCorrect`, `NoBargingCorrect`, `FifoCorrect` | allocations succeed |
| `Spans_proofs` | `UniqueSpansCorrect`, `EndHasBeginCorrect`, `SpanOrderCorrect`, `ParentIsInnermostCorrect` | nothing more |
| `Lifecycle_proofs` | `BudgetAsWrittenCorrect` | nothing more |
| | `CoreOutlivesUsersCorrect`, `OneCoreCorrect`, `NoLeakCorrect` | `QuietRelease`, `OneRelease` and `NoStaleCalls` |
| `Pipeline_proofs` | `TypeCorrect`, `StreamContiguousCorrect`, `RecordsWholeCorrect`, `BatchFloorCorrect`, `DropsExactCorrect`, `DescOnceCorrect`, `DescFirstCorrect`, `SharedSiteCorrect`, `PoolExactCorrect`, `AllDeliveredCorrect` | nothing more |
| `Service_proofs` | `SinkAccountsCorrect`, `FilesFaithfulCorrect`, `ReadableInOrderCorrect`, `AnnouncedOrCountedCorrect` | nothing more |
| `Records_proofs` | `RecordsAlignedCorrect` | nothing more |
| | `ReceiverRecoversCorrect`, `AttrsCutRightCorrect` | `ArgsFit`: the arguments of a call alone do not reach the limit of a record |
| `RecordsArgs_proofs` | `FormatsRead`, `ArgsAsPassedCorrect` | nothing more |

A theorem `PCorrect` states the property that a run checks under a similar name;
`PROJECT.json` has the pairs. What these premises exclude is real behaviour:
`pool_alloc_failure` shows what happens when an allocation fails and `lifecycle_shared`
what happens without `OneRelease`. No run shows what happens without the other three:
`QuietRelease` and `NoStaleCalls` are rules of use that the code cannot enforce (see
Lifecycle above), and without `ArgsFit` the 16-bit sizes wrap (`p8_log.cpp:598`).

### The pool

`PoolAssumption`: the threads are finite, sizes are positive, the special values are
distinct. The argument is one inductive invariant, `IInv` (`IInvHolds`). None of the
six invariants is inductive alone. That a hand-off reaches one thread only
(`OneOwner`) needs the queue to hold each unserved thread once (`QueueExact`) and a
node without a result to have no buffer (`NodeInv`). That `mu_inflight` counts the
threads inside (`QueueExact`) needs to know who holds the mutex (`MutexInv`). That
the barrier of the destructor is sufficient (`NoUseAfterDestroy`) needs that nobody
parks once it has begun (`StopInv`). Cardinalities need the finiteness of `mo_all`.
`NoIdleStock` is then shown inductive relative to `IInv`, and `NoBarging` follows
from it step by step.

`FifoCorrect` is the refinement of `FifoAllocator`, on which `Pipeline` and `Service`
build. The stock of the abstract allocator is what the budget allows, less the buffers
that are out, in the batch being recycled or handed to a waiter; each of these is in one
place, so it is a number, and it is positive exactly when the free list has a buffer or
the budget has room for one. Each action is then one abstract step or none: the first
critical section takes or asks, the second takes or enqueues, a hand-off in a recycle
gives one buffer back, `stop_waiters` closes and refuses, and notifications and wake-ups
are stutters. A step that takes must find nobody waiting, which is where
`NoIdleStock`, and with it the success of allocations, comes in.

### Spans

`UniqueSpans`: blocks lie below the core's counter and do not overlap, and what was
issued lies below the counter and in nobody's block (`IdInv`). `EndHasBegin` and
`SpanOrder` need where a record can be (`RecordInv`): a thread's buffers leave it once,
and a collection starts with an empty batch (`MovesInv`); what the API returned are
exactly the spans with a begin record, and only those are open (`HandlesInv`); the
begin of a record's span or parent has an earlier timestamp (`CausesInv`); and what has
not been sent is not older than the last batch, nor, once pulled over, than the
timestamp of the batch under way (`SettledInv`).

`ParentIsInnermost` compares a parent with `OpenIn`, which replays a thread's records
by a recursive function. The lemmas show that this function exists, that it is what
the recursion says and that a record more leaves its earlier values alone
(`OpenGrows`). The invariant (`ParentInv`) is that a thread's stack holds exactly the
spans its records leave open, in the order in which they began: an increasing map
takes the places in the stack to the places of the begin records (`Places`). Then the
top of the stack is the largest open place. No span is on a stack twice, because its
number was not issued before, and no asynchronous span is on one, so `p8_trc_end` of
such a span may leave the stack alone. The worker and exits leave a thread's stream as
it is, which needs `MovesInv` and that a thread that has exited holds nothing.

### The life of a core

`BudgetAsWritten` is an invariant of the construction alone. The other three need to
know, for each core that is alive, who holds its references: the owner until it has
given its own back, and each thread that has a writer (`RefInv`); that the pointer in
shared memory, the `gp_instance` of the DSOs and what a thread has looked up agree with the owner's state (`ShmInv`,
`InstanceInv`, `PublishInv`, `AdoptInv`, `FoundInv`); and what a release under way has
still to do (`ReleaseInv`). `QuietRelease` closes the gap between `get_global_core`
and `addref`, in which no reference is held; `OneRelease` leaves the release to the
reference's owner; `NoStaleCalls` keeps a released core from being looked up again.

### The record path

`PipelineAssumption` fixes the order of the thresholds and says that a record
continues in at most one further buffer, which is a limit of the model (`Records` has
any number). The inductive invariant `IInv` (`InvariantHolds`) is built in
layers.

- Control: what a thread holds of the pool follows from
  where it is (`CallInv`, `QueueInv`); references are the owner's and those of
  registered or leaving writers (`RefInv`); who is in the registry (`RegistryInv`).
- Buffers: a buffer in hand is empty and nowhere else
  (`HeldInv`). The buffers of a writer, followed from the sink back through the batch,
  the ready queue and the writer's list, are numbered without a gap and hold whole
  records, as many as were accepted (`StreamInv`, `AcceptInv`). That the order
  survives the worker's pull needs that a registered writer has nothing in the ready
  queue: only a destructor puts a writer's buffers there, after it left the registry.
  The buffers a batch owes are with writers still to be pulled or in the ready queue
  (`BatchInv`, `PhaseInv`). A drop is in its writer's counter, in the
  accumulators or reported (`DropInv`); here a sum over the writers is moved one
  writer at a time.
- Descriptors: `mo_log_desc_mutex` is held by the thread that
  announces (`MutexInv`), an identifier is announced once, in a service buffer or at
  the sink (`AnnounceInv`), and a record in a buffer has its descriptor among the
  announced ones, at the sink by the time the worker writes its batch (`RecordInv`).
- Shutdown and balance: after the last reference is gone nobody but the worker acts,
  and when it has seen the stop nothing is left to collect (`StopInv`); the buffers
  missing from the pool are those in use, those in hand and those in the worker's
  batch, counted (`PoolInv`).

### Descriptors and sinks

`SvcInv` (`SvcInvHolds`) joins the sink and the service buffers.

- The sink (`SinkInv`): the chunks, flattened, are what was handed over, for any
  number of entries and any `MaxIov`, the last chunk shorter than the others included.
  What a write leaves in a file is a subsequence of what it was given (`SubOf`, an
  increasing map of places), and all of it if no chunk was short. Concatenation keeps
  that, so it holds of the files (`HolesInv`). `FilesFaithful` speaks of places by
  their content, which is the same when no cell occurs twice: entries are
  written once (below), and packets carry the number of their batch (`TagInv`).
- The stream of entries (`StreamInv`) is what the sink was given followed by the
  service buffers. It has no entry twice, `mo_sent` and `mo_trc_descs` are exactly its
  strings and sites, and a site comes after its strings. A thread inside
  `resolve_trc_desc` holds `mo_trc_desc_mutex`, and what it still has to write is new
  (`PendInv`), so a prefix of any length may be written before it waits again. Taking
  the buffers does not change the stream.
- A registered identifier without an entry was counted (`DropInv`), an
  entry has a registered identifier (`RegInv`), and data that the worker holds is of
  sites whose entries it has taken or is about to take (`DataInv`). Once the worker
  has seen the stop nothing is written any more (`PhaseInv`).

### The bytes of a record

`RecordsAssumption` and `CallsAssumption` say what `Records` takes for granted: a buffer
has room for a header and a minimal record, its size is a multiple of 8, and every log
brings a length for each string its format names. Any calls, any number of writers, any
such buffer size and any width of `mu_size` are covered, hence records over any number of
buffers. The argument has three parts.

- What a call writes (`RecordOf`). By induction over the characters, `parse_format_string`
  returns arguments with types of the table; by induction over these, their pieces are
  lengths. By induction over the attributes (`Serialized`), the size of the record is the
  sum of its pieces, stays within `MaxRecord` if it was there before, each attribute that
  is written begins with the room its predecessors left, and a shortened text ends where a
  character ends while its next character would not have fitted (`RightAt`). This is all
  of `AttrsCutRight`, which depends on no variable but which calls were accepted.
- One call on one writer. Inside a record (`Within`) the buffers the writer holds lie
  behind what was pulled, numbered without a gap, all but the last one full, and the
  receiver that reads them is in the middle of this record with as many bytes missing as the
  writer has left (`Reading`), having found the records before. `WithinPut` and
  `WithinRotate` are the two steps of `copy_fragmented`, which takes no more of them than
  its length has chunks; induction over the pieces brings the record to its end, where the
  pad aligns it (`PadFits`: it never needs another buffer), or to a failed rotation,
  from where `discard` restores the writer that began, except for buffers it gives back.
  The flag of the first buffer must be cleared for that, or the receiver would expect a
  continuation.
- The system. Between calls a writer is `Settled`: it holds nothing, or a current buffer
  that begins a record, and the receiver that reads everything pulled and held has found
  exactly the accepted records and misses no byte and no number. With the types and
  the call that waits this is inductive (`Inv`). Only the clauses about
  the receiver need `ArgsFit`; `Inv(FALSE)` leaves them out and gives `RecordsAligned` without it.

`MCRecords` states `ASSUME ArgsFit`, so that TLC confirms the premise of the calls that
`records` makes.

### The arguments of a format

`DirectivesAssumption` says which directives are meant: `d`, `i`, `o`, `u`, `x`, `X`, the
eight floating point conversions, `s`, `c`, `p` and `%%`, with any number of flags, a width,
a precision, the lengths C17 gives them and `I64`, `hs` and `hc`; `MaxArgs` is any positive
number. A width or precision has no digit, one (`5`) or a star. Text is of any characters but the percent
sign (`PlainAssumption`).
`FormatsRead` is about a format of any number of directives with any text before, between
and behind them: what `parse_format_string` finds, taken the way `va_arg` in `send` takes
it, is what C passes, up to the limit of the list. `ArgsAsPassed`, which tries pairs, is
the case of two.

The recursive fold of the scan is unrolled once (`ParseWalked`); then the scan is followed
from one place of the format to the next. `Stands` says where it is: inside a directive or
not, with which prefix and width, how many characters of a prefix are still to be skipped,
and that it has met certain arguments, of which the list holds the first, or has returned
because they were too many. One lemma per kind of character says how this changes
(`StepStar`, `StepLength`, `StepConvert`, ...). That a length is found whole (`PrefixFound`)
is a fact about the order of `gs_prefixes`: every entry that is tried before it begins with
another character or goes on with an `h` or `l`, and a conversion character is neither.
`WalkText` and `WalkFlags` go over a text and over flags, of which only a `0`, being a digit,
counts as a width; that is why the flag is harmless, since C gives it to numbers only.
`WalkDirective` puts the parts of a directive together, `WalkList` the directives, by
induction over their number; `ValueTaken` compares what is found with what C passes, conversion by
conversion.

### Sequences and sums

`FoldTheorems` proves what the library's `FlattenSeq`, `SumFunctionOnSet` and `FoldLeft`
compute: their values on the empty argument and on one element more, types, ranges,
distribution over concatenation. They are recursive functions
chosen by `CHOOSE`; the lemmas show that the function exists and is what the recursion
says. Induction is over the set of numbers (or finite sets) for which the claim
holds, because the library's induction theorems take the claim as an operator, which
the provers cannot instantiate. For the same reason the step of a `FoldLeft` is the
constant `FoldStep` of `FoldTheorems`, of which `Records_proofs` takes an instance for
each of its folds.

### Only model-checked

- Liveness under fairness: `AcquireReturns`, `SendReturns`, `Delivered`,
  `StopCompletes`, `ReleasedDies`. It needs `ENABLED`, which the provers do not have.
- The properties that the code does not have, `NoBarging` with allocation failures,
  `PressureHeard` and `AliveWhileReferenced`: TLC finds the counterexamples.

## Not modelled

- Reading configuration files and JSON: input without state. The values that come
  out of it are in `Lifecycle`.
- The verbosity gate of logs, `attr_get`, `find_module`, the verbosity getters: they
  read, or turn a call away before it touches shared state.
- Names and texts: lengths of service strings (`get_svc_str_len`), hashes, file
  names, the hello header. An entry is its identity, and hashes are taken as
  distinct.
- Time: clocks, margins and intervals are nondeterministic.
- Failure of the worker's event in `start_worker` and the stubs
  (`p8_exceptional_flush`, thread registration), which do nothing.
- Compile-time checks and profiler macros: no run-time behaviour.
- The kit library (lists, spin lock, events, shared memory, files) is a separate
  repository; it appears only through its use: lists as sequences, a lock as an
  atomic step or an explicit owner, the event as two flags, shared memory as a
  pointer with an exclusive create, `write_v` as a write that may be short.

## Plan

Done: the pool, its abstract specification and the proof that it is implemented; the
pipeline, spans, sinks, descriptors and registries, records and format strings, the
life of a core; and proofs of the safety properties of all of them.

What could come next: a premise weaker than `ArgsFit` once the code limits the arguments of
a call, and numbers of several digits as widths.
