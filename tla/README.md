# sensortap in TLA+

This directory holds TLA+ models of sensortap: its registry and the parts it is
made of, the adapters that keep a helper process, a camera or a microphone, and
the command line tool; the TLC configurations that check them on small
instances; and theorems about them that TLAPS checks. Source references are
relative to the root of the repository (`sensortap/...`, `docs/...`).

## 1. The system

sensortap enumerates the sensors of a machine through adapters loaded from
entry points, and lets an application read or stream them. The application's
threads call into one `Registry`; the registry owns a pool of discovery
threads, a consent gate and a status tracker, and hands out `Stream` and
`ConsentGrant` objects. Each stream has a producer thread of its own. On
Windows some adapters talk to the operating system through one-shot queries,
one talks to a helper process over a named pipe.

| Component | State | Operations | Interacts with |
| --- | --- | --- | --- |
| Ring buffer (`registry/streaming.py`, `_RingBuffer`) | slots, head, tail, count, discard counter, one-shot mark, closed flag, sleepers of a condition | `push`, `pop`, `close` | the producer thread and the iterating threads of one stream |
| Stream (`registry/streaming.py`) | ring, stop event, `_released`, `_closed`, finalizer, atexit entry, producer's `next_seq` | `__next__`, `close`, `__exit__`, finalizer, atexit entry, `_produce_loop` | the adapter's `StreamSource`, the garbage collector, the exit of the interpreter, other streams (through `atexit.unregister`) |
| Consent (`registry/consent.py`) | `_grants`, `_active_grants`, per grant its sensors, closers and `_ended` | `grant`, `is_granted`, `register_open_device`, `revoke`, `__exit__`, exit hook | `Registry.read`/`stream`, the audit hook, device closers |
| Discovery (`registry/discovery.py`) | pool, `_abandoned` futures by adapter | `run_discovery`, done-callbacks, `shutdown` | adapters' `discover()`, `Registry.list_sensors` |
| Registry (`registry/routing.py`) | owner map, info map, last availability, per-sensor `seq`/`t_mono` and locks, shutdown flag | `list_sensors`, `read`, `stream`, `consent`, `backend_status`, `shutdown` | all of the above |
| Status (`registry/status.py`) | one record per adapter | `record_*`, `update_*`, `mark_unknown`, `snapshot` | Registry |
| Loading (`registry/loading.py`, `privilege.py`) | the outcome of every entry point | `load_adapters` | Registry's constructor, adapters' `setup()` |
| Pipeline (`registry/dedup.py`, `ids.py`) | none | validation, conflict resolution, collision suffixes, order, filters | `list_sensors` |
| Schema (`schema/`) | none | `validate_sensor_info`, `validate_reading`, `nearest_supported_rate` | pipeline, conformance suite, adapters |
| Conformance suite (`adapters/conformance.py`) | none | five checks of one adapter | `doctor`, adapters |
| Helper client and hardware monitor (`adapters/windows/helper/`, `hwmon_bridge.py`, `helper_src/`) | pipe, child process, framer, state; map of sensor ids | `setup`, `send_*`, `shutdown`; `discover`, `read` | helper process |
| Camera (`winrt_camera.py`, `_common.py`) | open capture, idle timer, remembered denial; a pool of four threads shared by all Windows adapters | `discover`, `read`, idle close | operating system |
| Microphone (`winrt_audio.py`) | audio graph, remembered denial | `open_stream`, `next_block`, `close` | operating system, `Stream` |
| Other Windows adapters | ids of the last `discover()` | `discover`, `read` | operating system |
| Command line (`cli/main.py`) | output buffer, exit code | `list`, `read`, `stream`, `inspect`, `doctor` | all of the above |
| Errors, package entry points | none | exception classes, forwarders | everything |

What is hard, and what makes each component right:

* **Ring buffer.** Three counters moved by separate branches must describe one
  window of the array; `notify()` wakes one sleeper, and a woken consumer may
  find that another one took its block. Right means: a bounded FIFO queue that
  drops its oldest block, counts it and marks the next one delivered; nobody
  sleeps while there is work.
* **Stream.** Up to four parties release it: `close()` in any thread, the
  finalizer in whichever thread the collector runs, weakref's exit hook, the
  atexit entry. Right means: the source is closed exactly once, every numbered
  block is accounted for, and no thread stays blocked.
* **Consent.** The gate has no lock; grants of one sensor overlap. Right means:
  `is_granted` answers by exactly the grants that are not over, and an ending
  grant calls every closer once.
* **Discovery.** A call that hangs cannot be cancelled; it may end at any moment
  around its timeout. Right means: one deadline for all adapters, no adapter
  ineligible for ever, no pile-up of calls.
* **Pipeline.** Conflicts between adapters, collisions within one and suffixes
  the adapters wrote themselves meet in one pass. Right means: no sensor is lost
  or listed twice, ids are distinct, and a read reaches an adapter that has the
  sensor.
* **Registry.** Caches published in two assignments, enumerations that overtake
  each other, `seq` and `t_mono` under a lock per sensor, a `shutdown()` called
  by the application and by the exit hook at once. Right means: readings of a
  sensor are distinct and in order, what is listed can be read, teardown happens
  once and before any `shutdown()` returns.
* **Loading.** A bad adapter is met at every stage from import to `setup()`.
  Right means: it keeps no other adapter out, and what is recorded is what
  happened.
* **Helper.** Requests carry no number, no lock keeps the threads that send them
  apart, a read of the pipe that timed out is not cancelled, and the process at
  the other end may hang or die at any step of the start. Right means: an answer
  goes to its own request, no wait is for ever, nothing is left running by a
  start that failed or by a shutdown.
* **Camera.** A read that timed out runs on in the pool; timers are cancelled in
  vain when they have fired, and close whatever capture they find. Right means:
  an open device always has something that will close it, and reads that hang
  cost their own threads only.
* **Command line.** Threads of executors outlive the call that gave them up, and
  hold up the exit of the process. Right means: the process ends, with the exit
  code of what happened and no half-made output, and lets its device go.

`PROJECT.json` lists the hazards one by one with their lines.

## 2. Modules

| Module | Models | Uses |
| --- | --- | --- |
| `Blocks` | the `seq` and `status` of a `Reading`, and `pop()`'s rewrite of a block behind a gap | |
| `BlockQueue` | what the ring buffer promises: a lossy bounded FIFO queue | `Blocks` |
| `RingBuffer` | `_RingBuffer`: array, positions, condition variable | `Blocks`; `BlockQueue` as the abstract specification |
| `RingBufferProofs` | theorems about `RingBuffer` | `RingBuffer` |
| `BlockFeed` | specification only: what a stream promises the threads that iterate over it | `Blocks` |
| `Stream` | one `Stream` with producer, consumers, closers, finalizer, atexit | `BlockQueue` as its ring; `BlockFeed` as the abstract specification |
| `StreamProofs` | theorems about `Stream` | `Stream` |
| `Consent` | `ConsentGate`, its grants, and the reads that ask it | |
| `ConsentProofs` | theorems about `Consent` | `Consent` |
| `Discovery` | `DiscoveryCoordinator` with its pool | |
| `DiscoveryProofs` | theorems about `Discovery` | `Discovery` |
| `Validation` | `validate_sensor_info`, `validate_reading`, `nearest_supported_rate`: pure operators | |
| `Pipeline` | `run_pipeline`, `resolve_collisions`, the owner of a sensor: pure operators | `Validation` |
| `PipelineInputs` | the inputs of the pipeline, and what must hold of its results | `Pipeline` |
| `Registry` | `Registry` with its `StatusTracker`, used by several threads | `Pipeline` |
| `RegistryProofs` | theorems about the pipeline and about `Registry` | `PipelineInputs`, `Registry` |
| `HelperPipe` | the named pipe, overlapped reads, the `LineFramer` | |
| `Helper` | `HelperClient`, the hardware monitor adapter, the helper process | `HelperPipe` |
| `HelperProofs` | theorems about `Helper` | `Helper` |
| `Camera` | camera reads, the pool of `bounded_read`, idle timers | |
| `CameraProofs` | theorems about `Camera` | `Camera` |
| `Conformance` | the five checks of the conformance suite: pure operators | |
| `Loading` | `load_adapters` | `Conformance` |
| `Microphone` | a microphone stream and its producer thread | |
| `Cli` | one run of the command line tool, from its arguments to the end of the process | `Loading`, `Microphone` |
| `CliProofs` | theorems about `Cli` | `Cli` |
| `MCRingBuffer`, `MCStream`, `MCConsent`, `MCDiscovery`, `MCPipeline`, `MCRegistry`, `MCHelper`, `MCCamera`, `MCCli` | instances for TLC | |

Definitions marked `Mutant:` are changed copies of the definition that follows
them. They belong to no specification: each property of a run is checked to
fail when such a copy stands in for the original.

### RingBuffer and BlockQueue

The variables are the attributes of `_RingBuffer` under their own names, plus
the condition's sleepers: `waiting` are the threads in `_not_empty.wait()`,
`notified` those that were woken and have not got the lock back. A body under
the lock is one action. `push` is `PushRoom`, `PushFull` or `PushClosed`; `pop`
is `PopWait` (it goes to sleep), `PopNone` or `PopBlock`. A woken consumer has
to compete with one that has just called `pop()`, as with Python's `Condition`.
The wait is never woken without a notification, which is what
`threading.Condition.wait()` without a timeout does.

`BlockQueue` has a sequence in place of the array and no sleepers.
`ImplementsQueue` is the refinement: `Contents`, the blocks of the window from
`head` on, stands for the queue.

### Stream

The ring is an instance of `BlockQueue` (the refinement above says that it may
stand for the array; the sleepers are left to `RingBuffer`, and a blocked
`pop()` here is an action that is not enabled). `ppc` is the place of the
producer in `_produce_loop`, `pc` that of every thread that is in a method, of
the finalizer (`"gc"`) and of the atexit entry (`"exit"`). A step is what a
thread does between two points where another can come in: a body under a lock,
a call that blocks, one access to the stop event. `Join` may end before the
producer does, for `join(timeout=1.0)` does not tell.

`Collect(h)` is the finalizer starting in a thread of kind `h`: `"app"` for an
application thread or the main thread at exit, `"producer"` for the producer,
which is then interrupted until the finalizer is over, as is the atexit entry in
the main thread. `OtherStreamCloses` is
the one effect another stream has: `atexit.unregister` is given the function
all streams register, so it drops the entries of all of them.

`BlockFeed` translates no code, it is only what `Stream` is shown to implement.
It has no ring, no thread and no lock: blocks are numbered, given up
from the old end, delivered in order, and marked when others are missing before
them; the feed ends once, and a thread is told so only then. `ImplementsFeed` is
the refinement: `numbered` is the producer's `next_seq`, `lost` is
`discarded_blocks`, and the feed has ended when the ring is closed and empty,
which may be the producer's last step, or the delivery of the last block after
it.

The source may raise at any `next_block()`, return a block late (after it was
closed), or return nothing for ever. Its blocks carry any status but
`degraded` (`StatusAssumption`): a source that degrades blocks itself would
make the mark of a gap indistinguishable from its own.

### Consent

No lock is taken in the gate. An action is what CPython runs without switching
threads: calls end an action, plain tests and assignments between two calls
belong to one. `_grants` maps a sensor to a mutable set that a thread may hold
on to after the map has moved on, so `heap[s]` is the sequence of all sets ever
made for `s` and `slot[s]` the one the map has. `task[a]` is the frame of actor
`a`: the step, the grant, the sensor and set it works on, the sensors its loop
has left. The loops over a `frozenset` and over the closers' dict take the
sensors in any order.

`device` are the handles opened by `read()` and `stream()` after a successful
check. The application may register the closer of an open handle with a grant
(`RegisterOpenDevice`), as the tests do; the registry never does. The
application registers a closer with one grant only. The exit hook runs when all
application threads have finished: daemon threads that run on during the exit
are left out, and the gate is alive then, because the registry's own atexit
entry holds it.

### Discovery

A future is named by caller, round and adapter. `queue`, `state` and
`callbacks` are the pool's side: a worker is busy until it has run the
callbacks of its future. `pc`, `rest`, `eligible`, `late` and `outcome` are the
frame of a caller in `run_discovery`; `abandoned` is the dict of sets. The
clock is one bit per round: `late[c]`, which may become true at any time after
the deadline was computed. `discover()` ends with a value, with an exception,
with `TimeoutError` (which the loop cannot tell from a missed deadline), or
never. A future that nobody will ask for again becomes `"gone"`; this only
folds states that the program cannot tell apart.

### Validation, Pipeline and PipelineInputs

`raw` is the dict `raw_results` of `list_sensors`: for every adapter the
sequence of records its `discover()` returned. Adapters are numbered in load
order. An entry is the place of a record in it; the steps of `run_pipeline` are
sets of entries: `Validated`, `Group` (by id), `Representatives` and `Winner` of
a conflict, `Candidates` for a place in the list, each with its `ResolvedId`.
`ListedAs` and `Owner` are the loops of `list_sensors` that fill its two dicts;
of equal ids each keeps the last, the dict of owners the last that has one
(`LastOf`).

A record has an `id`, its `source` and, as `info`, the fields whose rules depend
on each other: `dtype`, `shape` and number of channels, range and resolution,
the rates. What is asked of single fields (lengths, vocabularies) is two flags,
`named` and `tokens`. A field that may be `None` is a set, empty for `None`.
`Accepted` is "no violation found".

An id is a base followed by the numbers of its suffixes, `<<1, 0>>` for `"x-0"`;
so an adapter can write an id that looks like one the registry makes.
`Malformed` are the ids that are not three segments, which validation lets
through: `split()` raises when one of them needs a suffix (`Raises`), and that
`ValueError` leaves `list_sensors()`. `Stem` says for an id whose last segment is
near its longest, and for a suffix, what is left of the id when room is made for
it: longer suffixes may take room where shorter ones do not. The filters of
`list_sensors` only shorten what is returned and are left out.

`PipelineInputs` makes every raw result within its bounds a state: `ReturnRecord`
adds a record to some adapter's list, `ReturnOnly` makes one whose `info` is out
of the many that are tried, `Restart` begins a new round. Such infos come alone,
because the pipeline looks at `info` through `Accepted` only.

The properties say where the code stops promising anything:

* `EverySensorListed`: a malformed id that one adapter repeats loses the
  sensors of all adapters; that is the only such case.
* `NoneOverwritten` is that no two listed sensors have one id. It does not hold
  of every round: an adapter that writes `x-0` beside two `x` collides with the
  suffix, and two ids that are shortened may become one.
  `IdsDistinct` is that it holds of all others: `NoLookalike` are the rounds in
  which no id is, or begins like, a suffixed form of another one.
* `OwnerHasSensor` speaks of records whose `source` names an adapter, or whose
  id one adapter alone returned. The extra record of a conflict with a source
  that names none is sent to the first adapter that has the id, which need not
  be its own. A merged record is sent to the first-loaded adapter that reported
  it, not to the one whose record won. A sensor whose id was shortened for its
  suffix, and whose source names no adapter, has no owner: it is listed and
  cannot be read.
* `AcceptedServable`: supported rates outside of `min` to `max` are accepted and
  then never applied; `min` above `max` is accepted if there is no default.

### Registry

The variables are the attributes of `Registry`, `status` the records of the
tracker, `pc` and `frame` the place and the locals of each calling thread. A
round is one step (`Discovered`) that ends with any outcome for each adapter;
`Discovery` has its inside. After it, `UpdateStatus` is one adapter's call into
the tracker, and `PublishOwner` and `PublishInfo` are the two assignments that
make the new dicts visible, with other threads between them. `StatusRaises` and
`PipelineRaises` are the two exceptions that leave `list_sensors()` before them.

`read` and `stream` look the id up in one dict (`LookUp`) and its adapter in the
other (`Route`), and call the adapter with no lock held. `GetReadLock`,
`TakeSeq` and `Stamp` are the numbering of the reading: `readLocks` counts the
locks ever made for a sensor, so that a second one would be noticed, and `held`
are those that some thread has. The consent check between `LookUp` and `Route`
is in `Consent`, the `Stream` that `OpenStream` makes in `Stream`. A call that
is refused before it did anything is no step.

`_last_availability`, which only goes into an error that is raised, and the
times in the status records are left out; `timeout` says that `last_timeout_ms`
is set. A `long_error` is an exception whose text exceeds the
500 characters a status record takes. The history variables `readings`,
`tornDown`, `returned`, `overlapping` and `mixed` are in no guard
but the bound `MaxReadings`.

### Helper and HelperPipe

`HelperPipe` is the pipe. It is read by bytes, so the unit is a piece: what one
write of the helper puts into it. The answer to `list` is longer than the
helper's write buffer and takes two. `pending` are the overlapped reads that
have not completed; `_read_pipe_chunk` gives up without cancelling, so a read
may stay there with nobody waiting (`AbandonRead`) and take the data of a later
write. Windows cancels it when its thread ends (`ThreadEnds`). `buffer` is
`LineFramer._buffer`, which all threads share; `feed` is cut at its find and its
slice (`Feed`, `TakeLine`), between which another thread may shorten the buffer.
Lines behind the first of a chunk are dropped.

`pc["setup"]` walks through `HelperClient.setup()`; `StartTakenBack` is its
failure at any step behind the spawn. A helper that connects before
`ConnectNamedPipe` is called leaves the event unset, and the start times out
(`AwaitConnection`). Callers are threads that enumerate (`Discover`) and threads
that read (`Read`); `CheckState` and `WriteFile` are two steps, the state may
change between them. `map` is `_helper_id_by_sensor_id`. `DiscoverRefused` is
the early return for an answer that is not ok or has no list; any other answer,
an empty list too, empties the map (`DiscoverResets`), and one `DiscoverFills`
follows for each record. `closer` is the adapter's teardown.

The process connects, says HELLO, serves one request after another, and may end
or hang at any point. `HelperConnects` waits for the token to be delivered, for
the helper reads it first. `Answers` is what `HelperServes` may write: an error;
for a `list`, any of the `Reports`, since `List()` looks at the hardware anew
each time and may find more, less or nothing; for a `read`, the record or, when
it is not there any more, none. The history variables `reported`, `taken` and
`crossed` are the helper's latest list, the list the map was last emptied for,
and whether another thread was filling it then; they are in no guard.

### Camera

Reads are numbered; a MediaCapture and a timer have the number of the read that
made them. `task[i]` is the place of a read: in the queue, then in the camera's
`read()` step by step, or `"working"` for a read of any other adapter, of which
only the occupied thread matters. `ReadTimesOut` frees the caller and leaves the
read where it is. `LookUp` and `StoreCapture` are the two ends of
`_get_or_open_capture`, the opening between them runs without the lock.
`PopCapture` is `_close_idle_capture` under its lock; it takes whatever capture
is in the map. There is one camera.

### Loading, Conformance, Microphone and Cli

An adapter is a record of what its class is and how it behaves: can it be
imported, does its version fit, what does `setup()` do, what do `discover()` and
`read()` do. `Conformance` are the five checks as predicates on such a record.
`Loading` takes one entry point at a time: `Gate` are the refusals before the
adapter is made, in their order; `StartSetup`, `SetupEnds`, `Overrun` and
`Record` the bounded thread, whose `with` block waits for it even after the
timeout. `Microphone` opens the audio graph step by step (`NodeRefused`,
`NodeBreaks` are its failures with the graph made), and has the loop of the
producer thread with a ring reduced to "holds blocks" or not.

`Cli` is the process. `args` are the arguments the handlers look at, `step` is
where the main thread is, `raised` the exception on its way to `main()`, which
makes it a `code`. `Enumerate(late)` is `list_sensors()` with the adapters that
missed the deadline, whose calls stay in the pool; `SubmitRead`, `ReadTimesOut`
and `JoinReader` are `_bounded_read`; `PrintBlock` to `LeaveStream` the loop of
`stream`, its `finally`, and the finalizer of the `Stream`. `JoinPools` is the
interpreter waiting for the threads of all executors, `TearDown` the exit hook
of the registry, which is there only if the constructor got that far. The
buffer is written behind the `try` of `main()` (`Succeed`); `WriteBreaks` is
that write failing or being interrupted with any part of the text out, and
Python's own exit codes for it: 1, 120 when stdout cannot be flushed at the very
end either, 130 for Ctrl-C. One
sensor per adapter; buffer sensors stand for those that need consent.

## 3. Runs

| Run | Bounds | Question |
| --- | --- | --- |
| `RingBuffer` | 3 slots, 2 consumers, blocks that are marked and that are not, at most 3 discards | does the array implement the queue, and is no wake-up lost? |
| `Stream` | 2 slots, 2 threads, 3 blocks, 2 statuses, collector in both kinds of thread | are blocks, release and threads right under every interleaving? |
| `Consent` | 2 threads and the exit hook, 2 sensors, 2 grants, 2 checks | which grants count, how are checks answered, which closers run, what is audited? |
| `ConsentDeviceLeft` | the same, 1 check | does ending a grant close its devices? (no) |
| `Discovery` | 2 callers, 2 adapters, 1 worker, 2 rounds of a caller and 2 in all | is the bookkeeping exact, and does every round end? |
| `Pipeline` | 3 adapters, 4 records in all, 4 ids: one looks like a suffixed one, one is malformed, one is at its longest; several hundred infos | are all sensors listed, under distinct ids, routed to who has them, and usable? |
| `Registry` | 2 threads, 2 adapters, 2 listings, 2 readings of a sensor, clock values 0 and 1 | are readings in order, listed sensors readable, adapters torn down once? |
| `Helper` | 1 enumerating and 1 reading thread, 3 records (one of unknown kind, one asked for by a suffixed id), reports of all records and of none, 3 requests | whose answer does a request get, and does every wait end? |
| `HelperMixup` | the same | is a reading that of its sensor, whatever overlaps? (no) |
| `Camera` | 1 caller, 2 threads in the pool, 3 reads | is every open device closed, does every read start, does the caller get free? |
| `Cli` | 2 entry points of 12 kinds each, 14 command lines | exit code, output, device and end of the process |
| `CliHungRead` | the same | is `read` bounded whatever the adapter does? (no) |

Why the bounds are enough:

* `RingBuffer`: three slots tell the first, a middle and the last position apart
  and let the window wrap in every way; two consumers are a sleeper and the one
  that takes its block. `MaxDiscarded` only stops the counter, which no guard
  reads.
* `Stream`: three blocks in a ring of two give one discard with blocks before
  and behind it; two threads give one that iterates while the other closes, and
  two concurrent closers. `MaxBlocks` bounds what a source yields before it can
  only raise.
* `Consent`: a race in the gate is between two threads over one sensor; the
  second sensor is what a grant still covers when it fails half way. Two grants
  are the least that overlap. `MaxChecks` bounds the checks, and so the handles.
  Threads and sensors are symmetric.
* `Discovery`: one worker makes the second adapter's call wait behind one that
  hangs; two rounds are one caller's retry after a timeout or two callers at
  once: `MaxRounds` bounds the rounds of a caller, `MaxTotal` those of all.
* `Pipeline`: three adapters are a conflict of two with a third that is not in
  it, loaded before, between or after them, with a tie in priority and without;
  four records give a conflict of two adapters together with a second record of
  each. The infos have every dtype with shapes of no to three dimensions, and
  numbers on both sides of each limit; `HighestRate` and `LowestRate` stand for
  the limits of a rate.
* `Registry`: the clock may go forward, stand still or go back with two values.
  Adapter 1 may return nothing, so a sensor can disappear and come back; both
  adapters have the same id, so its suffixed form exists in some rounds only;
  adapter 2 may repeat a malformed id, or one that is shortened for its suffix.
  `MaxListings` and `MaxReadings` bound the calls. Threads are symmetric.
* `Helper`: two threads are the discovery pool's and the application's, and
  what one of them can do to the other. Three requests are one that times out,
  the one that finds its answer, and one that follows; or a full list, an empty
  or refused one, and a read after it. Then `WriteFails` takes over. A list that
  only shrinks, and two threads that enumerate at once, are more than the run
  has room for; the theorem `MapFollowsList` covers both.
* `Camera`: a read that timed out runs on, so one caller has two reads at work,
  each with a device and a timer, beside a third. Two threads in the pool let one
  of them hang while the other works, or both.
* `Cli`: a bad adapter comes before or after a good one; every kind differs from
  a good adapter in one point, so that what it causes can be told. The command
  lines are each command with its valid form and the ways its arguments fail.

The theorems of section 4 remove these bounds for every invariant, action
property and refinement; liveness is checked within them only.

`Consent`, `Registry` and `Discovery` are among the long ones, with about one million,
650 000 and 280 000 states. Deadlock is checked in every passing run but `Cli`,
where the process ends: `Exited` is the step of a process that is over in
`Stream` and `Consent`, and in `RingBuffer` `close()` may always be called again.

### What the properties say

*RingBuffer.* `WindowInv`: head, tail and count describe one window, so that
the assertion in `pop()` cannot fail and no evicted block stays reachable.
`NoLostWakeup`: while somebody sleeps there is a woken consumer for every block.
`ImplementsQueue`: the refinement. `SleeperServed`: a sleeper with a block
waiting, or on a closed ring, does not sleep on.

*Stream.* `NothingLost`: numbered blocks are delivered, waiting or counted as
discarded, and the waiting ones are the newest without a hole. `ImplementsFeed`:
the refinement. No step takes a number back, delivers out of order, or brings a
block after a thread was told that there are no more; and the mark is on the
block behind a gap and on no other, which is also stated as the invariant
`GapsMarked`, proved and in no run. `SourceClosedOnce`;
`FinalizerKept`: a stream nobody began to release can still be released.
Liveness: `ReleaseReachesSource`, `BlockedConsumerFreed`, `ProducerEnds`.

*Consent.* `CoverageExact`: a grant is in the sets of exactly its sensors until
it has ended and in none afterwards, for sensors whose bookkeeping no two
threads were in at once (`clashed`; without that condition it is false, see
below). `AnswersHonest` is an action property, of what a caller sees: a check
lets a read through only under a grant that is not over, denies one only when
none of the sensor is in force, and no step brings an ended grant back into the
sets, a clash of threads included. `AuditBalanced`: grants minus ends is what is in force.
`ClosersCalledOnce`, `ExitEndsAll`.

*Discovery.* `AbandonedExact`: a future is in `_abandoned` exactly while its
round has given it up and it is not over. `NoPileUp`: one unresolved call of an
adapter per thread, however many rounds. `InTimeCounts`: a call that was over
before the deadline is not reported as timed out. `RoundEnds`: a round whose
deadline has passed ends, though no call ever returns.

*Pipeline.* `EverySensorListed`: of every adapter as many sensors are listed as
it returned valid records, and a round raises only for a repeated malformed id.
`IdsDistinct`: none overwrites another one in the registry's dicts.
`OwnerHasSensor`: a read is sent to an adapter that has the sensor.
`AcceptedServable`: what validation accepts fits the rules that readings and
rates are held to later: the values of an accepted reading fall into rows of one
per channel, and the rate applied is the nearest supported one.

*Registry.* `ReadingsOrdered`: `seq` without repetition or gap and `t_mono`
increasing with it, over failed reads, clocks that go back and sensors that
disappear. `Routable`: the two dicts list the same ids, except between the two
assignments and after two publications that overlapped (`mixed`); the latter
state stays until the next enumeration, which alone repairs it. The one sensor
that is listed and cannot be read is one whose id was shortened for its suffix
and whose source names no adapter.
`ShutdownComplete`: no adapter is torn down twice, and no `shutdown()`, the
second one included, returns before all are.

*Helper.* `OwnAnswer`: a request made while no other is under way, and before
any timed out, gets its own answer, though answers come in pieces and the
framer keeps what is left of a chunk; it fails only when helper or pipe are
gone. `HelperMixup` shows that it takes both conditions. `NoOrphan`: neither a
failed start nor a shutdown leaves a process, a pipe or a pending read.
`MapAsListed`: while requests are made in that way and no `discover()` is
between emptying and refilling the map, a `read()` fails with `KeyError` for
exactly the sensors that were missing from the latest list a `discover()` got.
So a list that is empty or shorter does take sensors away until a later one
brings them back, and an error, a timeout or a dead helper does not. Threads
that fill the map at once lose nothing of the latest list, but may leave a
sensor that has gone (`crossed`). `WaitersFreed`: every wait for the helper
ends.

*Camera.* `IdleTimerArmed`: when no read is running, a capture in the map has a
timer that will close it. `NothingForgotten`: no open device is lost, if camera
reads never overlapped; when they do, both open the device, and one capture is
overwritten and stays open. `CallersFreed`, and `EveryReadStarts`: as long as a
thread of the pool comes free again and again, every read is started.

*Cli.* `BadAdaptersContained`: a good adapter that answers in time is listed
whatever the other one does, unless an error text was too long for a status
record. `DeviceLetGo`: at exit no graph runs under a stream. `DoctorVerdict`:
exit code 7 if and only if a loaded adapter breaks the contract, and 0 only if
`read` or `stream` reaches every sensor, by the rules of the registry's routing
and not those of the suite. `FailurePrintsNothing`: a command that fails leaves
stdout empty, unless it is the final write itself that fails. `ProcessEnds`.

The type invariants document the variables and are in no run: those of all
modules with variables are proved. (That of `PipelineInputs` is the first half
of `InputsInv` in `RegistryProofs`.)

### Fairness

* Ring: a woken consumer gets the lock in the end. Nobody has to push or close.
* Stream: threads that can run do run, and a `join` of at most a second ends. A
  source has to end `next_block()` only after it was closed
  (`docs/REFERENCE.md`: "Blocks until one is ready or the stream closes").
  Nobody has to iterate, close, drop the stream or exit.
* Discovery: a caller runs on, the clock does, and a worker whose future is done
  runs its callbacks. `discover()` never has to return, and so no worker has to
  become free.
* Helper: threads that can run do run, and the client's waits are bounded
  (`WaitForSingleObject` with a timeout). Nothing is asked of the helper.
* Camera: callers' timeouts expire, an idle thread of the pool takes a read, a
  timer fires, and what runs between two calls into the device goes on. Nothing
  is asked of the calls into the device or of other adapters' reads.
* Cli: `FairSpec` asks for the tool's own steps only. `CallsReturnSpec` adds
  that calls into adapters and devices return; `ProcessEnds` needs it, for
  `list` with a `discover()` that never returns prints its table and then waits
  for the thread at exit.
* Consent and Registry have no liveness property: whether a closer, a read or a
  teardown returns is up to the adapter.

### Findings

Three statements of the documentation are not what the code does; each has a run
that shows it, and `PROJECT.json` quotes both sides.

1. A device opened by `read()` or `stream()` outlives its grant
   (`routing.py:257`): nobody calls `register_open_device`.
2. A reading of the hardware monitor may carry the value of another sensor
   (`hwmon_bridge.py:460`): an overlapping request or the late answer to one
   that timed out is taken for the own answer, and the record's id is not looked
   at.
3. `sensortap read` is not bounded (`cli/main.py:329`): the exit of the executor
   joins the thread of the read that hangs.

Further disagreements that were met while modelling. The first six are in the
models, where the properties named exclude them:

* A stream collected in its producer thread is never released
  (`streaming.py:169`): `join()` raises in the joined thread, with `_released`
  already set (`ReleaseReachesSource` and `ProducerEnds` exclude it).
* `close()` after the end of the iteration does not release
  (`streaming.py:372`): `StopIteration` has set `_closed`.
* Two threads that end two grants of one sensor (`consent.py:255`): the second
  `del` raises `KeyError` out of `revoke()`, and the grant's other sensors stay
  granted (`CoverageExact` and `AuditBalanced` exclude it).
* Not every sensor is kept (`ids.py:170`; `docs/REFERENCE.md:104` says so): a
  suffixed id is not compared with the other ids, and of two sensors that get one
  id the registry keeps the last. An adapter that returns `x`, `x` and `x-0` is
  enough (`IdsDistinct` excludes it; `NoneOverwritten` alone does not hold).
* An error text of more than 500 characters is refused by the status record
  (`status.py:75`). From `discover()` it makes `list_sensors()` raise
  (`routing.py:151`); from a failed load it makes the constructor raise before
  its exit hook is registered, and adapters that were set up are not torn down.
* A malformed id that an adapter repeats makes `list_sensors()` raise
  (`ids.py:168`; `docs/REFERENCE.md:878` has an adapter's failure contained).
* `discovered_count` keeps the number of an earlier round when the adapter timed
  out in the latest (`routing.py:146`, `docs/REFERENCE.md:641`).
* `validate_sensor_info` "never raises" (`validate.py:3`), but does on a rate
  bound that is not a number and on an unhashable kind. A buffer of shape
  `(256,)` has to have 256 channels.
* `BlockPathRequiredError` and `UnsupportedOperationError` end in exit code 1,
  `docs/REFERENCE.md:153` and `:171` say 4.
* Adapters that were set up, but late or without the read-only declaration, are
  never torn down.
* `stream --duration` looks at the deadline only when a block has come, and
  `doctor` calls `discover()` and `read()` without a bound.
* A `Stream` constructor that refuses its arguments leaves the device open
  (`routing.py:347`), and so does an audio graph whose frame output node or start
  raises. A denied microphone is remembered until the process ends.
* `HelperClient`: a helper that connects early makes `setup()` time out
  (`client.py:269`), `state` stays `running` when the helper dies, and nobody
  calls `update_helper_state` or `send_ping`.

## 4. Proofs

`RingBufferProofs` proves, for every capacity of at least one, every finite set
of consumers and every set of blocks:

* `TypeCorrect`: `Spec => []TypeOK`.
* `WindowCorrect`: `Spec => []WindowInv`. The invariant is inductive only
  together with the types (`RingInv`), from which the arithmetic of the
  positions follows. Positions are compared without the modulus (`SlotAfter`),
  and lemmas relate the two.
* `WakeupCorrect`: `Spec => []NoLostWakeup`. It needs in addition that no thread
  is both asleep and woken (`WakeInv`): a `notify()` then adds one to the number
  of woken consumers, and one that takes a block takes one from both sides.
* `RefinesQueue`: `Spec => ImplementsQueue`. Each action maps to one of
  `BlockQueue` or to a stutter; the steps show what `Store`, the eviction and
  `pop()` do to the window as a sequence, under `RingInv`.

The four rest on the assumptions `CapacityAssumption`, `ConsumersAssumption` and
`PushedAssumption` of `RingBuffer`, which the constructor's range check
justifies, and on the library's theorems about finite sets.

`RegistryProofs` proves, for any threads, sensors, adapters and bounds:

* `ShutdownOnce`: `Spec => []ShutdownComplete`. A thread in the teardown loop
  holds the lock and has torn down exactly the adapters before its position;
  when nobody is in the loop, either nothing was torn down and the flag is not
  set, or everything was (`ShutdownInv`).
* `ReadingsInOrder`: `Spec => []ReadingsOrdered`. A sensor has at most one lock
  (`LockInv`), so one thread at a time is between `TakeSeq` and `Stamp` and the
  `seq` it took is still the next (`CountersInv`: `_next_seq` is the number of
  readings, `_last_t_mono` the time of the last). `Clamp` does the rest.

* `ListedIsRoutable`: `Spec => []Routable`. A publication that no other one
  overlaps is the only one under way, and the dict of owners is still the one it
  assigned (`PublishInv`). What the two assignments make of one round is a lemma
  about the pipeline (`OwnerlessIsShortened`): the fallback of `list_sensors`
  finds the adapter that returned the record, unless the id was shortened.
* `RegistryTypes`: `Spec => []TypeOK`. A sensor is routed to a loaded adapter
  because a last record exists among those of one id (`LastOfIsIn`), although
  records are chosen by a `CHOOSE` over two dicts.

All four need where each thread is and what it works on (`CallersInv`). They rest on
`PriorityAssumption`, `StemAssumption`, `ClockAssumption`, `ResultsAssumption`
(what `discover()` returns are lists of records) and, for the types,
`SensorIdsAssumption` (the set of ids is large enough).

It also proves the pipeline, for any number of adapters, ids and records. The
inductive invariant of `PipelineInputs` is small (`InputsInv`: what was returned
are records, and their `source` names their own adapter or none); the content is
in lemmas about any raw result. None of the provers can use a theorem of
induction, so what goes on over sequences is argued by the least counterexample
(`HasLeast`, from the library's well-foundedness of the numbers), by
cardinalities, and by the one function that is a loop's sequence of values
(`LoopValues`).

* `EverySensorIsListed`: `InputsSpec => []EverySensorListed`. In a conflict one
  record of each adapter goes and the merged one stands for all of them; without
  one nothing goes. That an adapter's group and what is listed for it have the
  same size is then a matter of one element taken out and one put in.
* `ListedIdsDistinct`: `InputsSpec => []IdsDistinct`. Two sensors of one id have
  different numbers of sensors before them (`OccurrenceCounts`: of two sets of
  predecessors one contains the other strictly), hence different suffixes.
* `OwnersHaveSensors`: `InputsSpec => []OwnerHasSensor`. The id, or a suffixed one
  without its last number, is in the list of an adapter that returned it.
* `AcceptedIsServable`: `InputsSpec => []AcceptedServable`. The product over a
  shape is its number of channels times the product of the rest, for the shapes
  that are accepted; and after any number of turns of the loop over the supported
  rates the best so far is preferred to all seen.

They need `PriorityAssumption`, `StemAssumption` (room for a suffix is made by
cutting the id, so what is left does not begin with all of it), `IdsAssumption` and
`InfosAssumption`.

`StreamProofs` proves, for every capacity of at least one, any number of blocks
and any threads:

* `StreamTypes`: `Spec => []TypeOK`, together with what the producer holds at
  each step (`ProducerInv`): a block comes out of the ring with its type because
  it went in with it.
* `CountsAddUp`: `Spec => []NothingLost`; `GapsAreMarked`: `Spec => []GapsMarked`.
  The mark is set exactly while the next block delivered will not follow the last
  one delivered (`MarkInv`), which compares the oldest block in the ring with the
  end of the history.
* `OneSourceClose`: `Spec => []SourceClosedOnce`. Between the look at `_released`
  and `source.close()` there is at most one thread, finalizer or hook, and none
  before the flag is set (`ReleaseInv`).
* `SomeoneReleases`: `Spec => []FinalizerKept`.

* `StreamIsFeed`: `Spec => ImplementsFeed`. The ring's oldest block has the number
  behind the last one delivered or given up (`FeedOldest`, from `NothingLost`), its
  mark and the gap before it agree (`MarkInv`), and a thread that finds the ring
  closed and empty finds the feed ended. The steps of the producer and of the
  iterating threads map to one of `BlockFeed` or to a stutter; those of the
  releasing ones stutter.

The assumptions are those of `Stream` on its constants; `StatusAssumption`
(sources do not degrade blocks themselves) is what `GapsAreMarked` needs.

`ConsentProofs` proves, for any threads, sensors, grants and handles:

* `ConsentTypes`: `Spec => []TypeOK`, with what every actor holds at each step
  (`TaskInv`), that a grant is made or ended by one actor at a time (`OwnerInv`)
  and that a set holds grants of its own sensor (`HeapInv`); the four are one
  induction.
* `EveryGrantEnds`: `Spec => []ExitEndsAll`. A grant that is neither over nor
  being made is in `_active_grants`, and nothing is made behind the beginning of
  the exit.
* `GrantsAnswer`: `Spec => []CoverageExact`. While nobody clashed over a sensor,
  one actor is in its bookkeeping and the set it holds is the stored one
  (`StoreInv`); a grant is in it from its own `add` to its own `discard`
  (`MemberInv`), which the actor that works on it tells.
* `AnswersAreHonest`: `Spec => AnswersHonest`. Of all steps only a check emits "used"
  or "denied" (`OnlyChecksAnswer`), and of a grant nobody is at work on the store
  tells whether it is over. That an ended grant does not come back holds for
  clashing threads too (`EndedStaysOut`): only the thread that makes a grant adds
  it, and a set that comes into `_grants` is new and empty.
* `OneCloserCall`: `Spec => []ClosersCalledOnce`. For every entry of a grant's
  dict the number of calls follows from how far the actor that ends the grant
  has come (`ClosersInv`).
* `AuditAddsUp`: `Spec => []AuditBalanced`. The two counts of a sensor are
  the cardinalities of two sets of grants (`AuditInv`); each call of the audit
  hook adds one grant to one of them.

`DiscoveryProofs` proves, for any callers, adapters and workers:

* `DiscoveryTypes`: `Spec => []TypeOK`, with the local variables of a round
  (`CallInv`), the futures that were submitted (`EnteredInv`) and the callbacks
  (`CallbackInv`).
* `EntriesAreExact`: `Spec => []AbandonedExact`, which is inductive with these.
* `CallsDoNotPileUp`: `Spec => []NoPileUp`. Until the pool is shut down every
  unresolved call is waited for or entered as abandoned, and an adapter that has
  an entry is not selected (`WaitInv`), so two unresolved calls of one caller and
  adapter are the same; that the set has at most one element follows.
* `AnswersInTimeCount`: `Spec => []InTimeCounts`. A future that was over in time
  stays so until the loop has passed it (`InTimeInv`).

`HelperProofs` proves, for any threads, records and number of requests, and
whatever the helper process does:

* `HelperTypes`: `Spec => []TypeOK`, with which thread can be where (`PlaceInv`):
  callers wait for `setup()`, and the closer does.
* `NothingLeftBehind`: `Spec => []NoOrphan`. Child and pipe exist only from the
  step of `setup()` that makes them to the one that takes them back
  (`OrphanInv`).
* `EachItsAnswer`: `Spec => []OwnAnswer`, the longest proof. While requests are
  made one after the other and none timed out (`inStep`), what is on its way from
  the helper's writer through the pipe and a chunk to the framer's buffer is,
  put together, a beginning of the awaited answer, or all of it once it is
  written (`AnswerInv`). With it go: one request at a time (`TurnInv`), the framer
  finds no line but a whole answer and a read that is pending belongs to who
  waits (`ReadInv`), and nothing was said unasked (`QuietInv`). An answer has one
  line end, its last piece, which is what the lemmas about the framer are for.
  When requests are out of step they stay so, and nothing is claimed.
* `MapFollowsList`: `Spec => []MapAsListed`. Every sensor of the list taken last
  is in the map or among what a running `discover()` has still to enter, and
  unless two threads crossed, what is in the map or still to be entered is in
  that list (`MapInv`). It uses `EachItsAnswer`: the line that a `discover()`
  takes is the answer to its own request, and that is the helper's latest list
  (`ListIsLatest`), so an older list never replaces a newer one.

They rest on the assumptions of `Helper`: what is reported are lists of records,
empty ones among them or not, a reader's id is one that was given out or its
suffixed form, and callers are neither `setup` nor the closer.

`CameraProofs` proves, for any callers, size of the pool and number of reads:

* `CameraTypes`: `Spec => []TypeOK`, with which read is in the queue and which
  timers exist (`PoolInv`).
* `CaptureIsTimed`: `Spec => []IdleTimerArmed`. A capture in the map has a timer
  that is armed or has just fired, or a read that has still to arm one
  (`TimedInv`).
* `DeviceIsHeld`: `Spec => []NothingForgotten`. Without overlap the read that
  opens the device found no capture, and none appears before it stores its own
  (`AloneInv`).

`CliProofs` proves, for any number of adapters of any kind and any sensible
command line:

* `CliTypes`: `Spec => []TypeOK`: the exceptions that leave a command and the exit
  codes are the named ones. It is one induction with where an exception can be
  under way (`StepInv`) and how far loading has come (`LoadInv`).
* `BadOnesContained`: `Spec => []BadAdaptersContained`. A good adapter that was
  loaded is asked, and what it answers is listed, until the command is over
  (`ListedInv`).
* `DeviceIsLetGo`: `Spec => []DeviceLetGo`. Each state of the stream goes with
  steps of the main thread and states of the graph (`HoldInv`).
* `DoctorIsRight`: `Spec => []DoctorVerdict`. The suite has looked at every loaded
  adapter when the verdict is made (`DoctorInv`); that an adapter which passes
  can be reached by `read` or `stream` follows from its five checks.
* `FailureIsSilent`: `Spec => []FailurePrintsNothing`. Only what is under way
  behind a command that returned can be the error of the final write.

`BehavioursAssumption` and `CommandLinesAssumption` say that adapters and
arguments are records of the right form, and that the arguments are ones the
parser lets through.

Every property was model-checked before it was proved, and so were the longer
inductive invariants, on the states of the runs.

Model-checked only:

* liveness, for fairness and `ENABLED` are beyond the proof system:
  `SleeperServed`, `ReleaseReachesSource`, `BlockedConsumerFreed`, `ProducerEnds`,
  `RoundEnds`, `WaitersFreed`, `CallersFreed`, `EveryReadStarts`, `ProcessEnds`;
* the three runs that show a violation.

## 5. Not modelled

* Time: `achieved_rate_hz`, the length of timeouts, `t_wall`.
* What `validate_sensor_info` asks of single fields, beyond holding or not;
  values of a wrong Python type; the filters of `list_sensors`.
* The parser's own errors, the formatters, the facts and the issue text of
  `doctor`; exception messages.
* `mark_unknown`, `record_not_loaded` and `helper_state` of the status tracker:
  one assignment each.
* A second `setup()` of the hardware monitor, `ping`, the mapping of its sensor
  types to kinds and units.
* The reference adapter, whose push thread moves a timestamp.
* The records the other Windows adapters build (battery, radio, touchpad,
  light, motion, orientation): mostly constant texts around one query.
* What the operating system and native code do.
* Daemon threads of the application that run on while the interpreter exits.

Steps that are coarser than the code, or leave an outcome of it out:

* Consent: the audit hook is called for one sensor after another; `Activate` and
  `Forget` emit for all of a grant's sensors at once, in the step that changes
  `_active_grants`. What comes between in the code is seen by no property:
  `AuditBalanced` speaks of moments when every grant is settled, that is when
  all calls of the loop are over, and its counts do not depend on their order.
  The exit hook, the only other reader of `_active_grants`, runs when no thread
  is in the gate.
* Registry and Cli: a `teardown()` that raises is swallowed. The code catches
  `Exception` only (`routing.py:385`); a `KeyboardInterrupt` or `SystemExit` out
  of a `teardown()` leaves the loop with `_shutdown_done` set, and the adapters
  behind it are never torn down. `ShutdownComplete` does not speak of that case.
* Stream: a collection may start the finalizer inside the main thread's own
  atexit entry, which then waits (`Interrupted`), but not in the two statements
  under `_lock`, which are one step: there it would wait for a lock that its own
  thread holds.

## 6. Plan

Proofs: every invariant, action property and refinement that a run checks is
proved. What is left are abstract specifications of `Helper` (a call that is
answered or fails) and of `Discovery` (a set of hanging calls), and their
refinement.

Models: `setup()` of the hardware monitor tried again, and more than one camera.
