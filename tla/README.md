# Native Audio Pipe in TLA+

This directory is a verification development for the C++ library in `src/src`: TLA+ modules
translated from the code, TLC configurations that check them on small instances, and proofs, checked
by TLAPS, that what matters most holds for every instance. Paths below are relative to `src/src`.

## The system

A library of parts a real-time audio application is built from. There is no main program: threads
come from the application, from `WorkerThread` and from the drivers that own an audio thread.

| Component | State it keeps | Operations | What is hard | Model |
| --- | --- | --- | --- | --- |
| `core/threading/WorkerThread` | three atomics, a task, a mutex, two condition variables, the thread | start, stop, wake, setTask, waitForCompletion | lost wake-ups, stop racing sleep, restart | `WorkerThread` |
| `core/threading/ThreadBarrier` | count, generation, completion function | wait, waitFor, tryWait, reset | timeouts and resets against a generation that completes | `ThreadBarrier` |
| `core/threading/TaskQueue` | bounded queue, mutex, condition variable | push, tryPop, pop, executeAll, executeN, clear | one notification per task, thieves, deadlines | `TaskQueue` |
| `core/threading/SpinLock` | an atomic flag | lock, tryLock, unlock, guards | nothing beyond the flag | not modelled |
| `core/memory/CircularBuffer` | a ring and two atomic indices | write, read, peek, skip, clear | lock-free, wrap-around, `clear()` beside the other thread's call | `CircularBuffer`, `BoundedFifo` |
| `core/memory/PoolAllocator`, `AudioBlockAllocator` | a stack of free blocks | allocate, deallocate, reset, scoped blocks | reset under live owners | `BlockAllocators` |
| `core/graph/AudioGraph`, `ConnectionManager` | nodes, connections, a rebuild flag | add, remove, connect, disconnect, processBlock | stale connections, cycles | `AudioGraph` |
| `core/graph/ExecutionSorter` | none between calls | order, parallel groups, depth | parallel connections, cycles | `ExecutionSorter` |
| `core/graph/FeedbackLoopDetector` | none | hasCycle, wouldCreateCycle | diamonds, shared visited sets | `FeedbackLoopDetector` |
| `core/parameters` | value, range, change callback; a tree of groups with indices by name | set, range, step, options, smoothing, add, remove, resetAll | callbacks that set parameters in the middle of a reset; indices that shift | `Parameters`, `ParameterGroup` |
| `core/serialization/PresetManager` | an index of presets beside files, the current preset | scan, save, load, delete, rename, duplicate | failures between the file and the index, settings that change | `PresetManager`, `PresetStore` |
| `JsonSerializer`, `BinarySerializer` | settings | saveToFile, loadFromFile | a file of the other format, a write that breaks off | in `PresetManager` |
| `StateVector` | named values | set, lerp, distance | pointwise arithmetic | not modelled |
| `drivers/alsa/AlsaDriver`, `drivers/coreaudio/CoreAudioDriver`, `drivers/dummy/NullAudioDriver` | flags, callback, mutex, audio thread | initialize, start, stop, shutdown, setAudioCallback, modes | stop and callback changes racing the thread | `AudioThreadDriver`, `CallbackDriver` |
| `drivers/asio` | flags, two callbacks, two mutexes, a position and a count | load, start, stop, setAudioCallback; the host's buffer switch | two mutexes in two orders; a host nobody waits for | `AsioDriver`, `CallbackDriver` |
| `drivers/jack` | a client in a driver; ports, buffers, connections | connect, activate, resize, ports | two copies of one state | `JackDriver`, `JackClient` |
| `drivers/alsa/AlsaMidiDriver` | ports, created names, connections | create, delete, connect | two lists of one thing | `AlsaMidiPorts` |
| `drivers/coreaudio/CoreAudioDeviceList` | a vector of devices, a mutex | enumerate, find, select | a pointer that outlives the lock | `CoreAudioDevices` |
| `drivers/*.cpp` | state, configuration, buffers | initialize, configure, start, stop, processBlock | buffers that fit the configuration | `DriverStubs` |
| `events` | bytes | build, append, classify, parse | byte order, packed bits, framing, short messages | `MidiMessage`, `SysexMessage` |
| `nodes/effect/BiQuadFilter` | parameters, smoothed values, coefficients | process, change callbacks | two threads write one set of coefficients | `BiQuadFilter` |
| `SimpleDelay`, `Chorus`, `Flanger`, `ReverbConvolution` | a ring, a write index | process, prepare, reset, load | resizing a ring in use | `DelayLines` |
| `MeterNode`, `ScopeNode` | window, peak; trace, trigger | process, prepare, setBufferSize, setTrigger | changes in the middle of a window or sweep | `Meters` |
| `ImpulseGenerator`, `BitCrusher` | counters | process, trigger, setInterval | off by one, changes while counting | `SampleClocks` |
| `SineOscillator`, `Phaser`, `RingModulator` | a phase | process, setFrequency, prepare | wrap-around | `Oscillators` |
| `DCBlocker`, `DCBlockerNode` | a filter memory per channel | process, setCutoffFrequency, setNumChannels | layouts, channel counts | `DCBlockers` |
| `FastFourierTransform` | a table and a work buffer | forward, inverse, resize | reuse of the buffer, padding | `FastFourierTransform` |
| `Resampler` | quality, ratio, phase | resample, processStreaming | bounds of the filter, seams between calls | `Resampler` |
| other `nodes`, `WindowFunctions`, `api` | fields | process one block | numbers rather than control | not modelled |

How they interact: the graph owns the connection manager and hands its connections to the sorter and
the detector on each call; drivers call the application's callback, which is meant to run the graph;
`TaskQueue`, `WorkerThread`, `ThreadBarrier` and `CircularBuffer` are independent pieces an
application combines, each with its own mutex or atomics. Nothing in the library holds two of their
locks at once; the ASIO driver, which holds its own and its buffer switch's, is the exception.

## The modules

**`WorkerThread`** has one action per step between two accesses other threads can see: the three
stores of `start()`, the store, the notification under the mutex and the join of `stop()`, the two
halves of `wake()`. The worker's loop is `Worker`; `held` says that it keeps the mutex, from the end of
`cv.wait` to the end of the task. `dozing` is the moment between a false predicate and the sleep, where a
notification outside the mutex would be lost. Several callers wake, wait and set tasks, one of them
(`Owner`) starts and stops. `owed`, `serving` and `verdict` are history: which `wake()` the loop still
has to serve.

**`ThreadBarrier`** has one action per critical section. The last arriver's section is split because it
calls the completion function with the mutex held. `timedOut` tells why a sleep ended; spurious wake-ups
are actions. `ending` is history: how each generation ended.

**`TaskQueue`** represents the queue by its length, since nothing depends on which task is which. A task
runs outside the mutex, may push, pop and clear, and may throw, which leaves the draining loop.

**`CircularBuffer`** has one action per access to shared memory: each load of an index (a call loads its own twice), copy of
one sample, store of an index. `clear()` is two stores in either thread, at any moment, because nothing in the code or its
documentation keeps it from a call of the other thread. **`BoundedFifo`** is its abstract specification: a queue whose
producer appends a batch at once, whose consumer takes, looks at or drops a prefix at once, and which either may clear. While a `clear()` has
`crossed` a call of the other thread the queue may hold anything up to its bound; from when both threads are out of
their calls (`crossed`, a history, ends) it is a queue again.

**`AudioGraph`** is nodes and connections; every method is one action. **`ExecutionSorter`** extends it
with `computeExecutionOrder()` as a machine (one step per node taken from the queue; nodes that become
ready together come in any order, because the code iterates unordered maps) and with the parallel
groups and the depth as functions. **`FeedbackLoopDetector`** extends the graph too, with its two
searches as machines: a step of `hasCycle()` looks at one node or one connection, and the calls of the recursive `dfsHasCycle()`
are the sequence `calls`, each with the connections it has left; a step of `wouldCreateCycle()` takes one node off its stack.
Nodes come in any order and so do the connections of a node. `MCAudioGraph` puts the three together: one method at a time is at work on the graph.

**`AudioThreadDriver`** is the thread of the ALSA and Core Audio drivers (the same code, mode `native`)
and of the null driver (`realtime`, `fast`, `manual`). `stop()` is three steps, and `callbackMutex` is
explicit because the native loop keeps it over the callback and its sleep, the null driver's loops over
the callback only.
**`CallbackDriver`** is the abstract specification of a driver that calls the application, shared with ASIO: four stages of a life cycle, the
installed callback and who is in which; no thread, mutex or loop flag. One call at a time, of the installed callback; a driver that
waits (`Waits`) has none under way when `stop()` returns, another may begin one afterwards and no second. `IsCallbackDriver` says that the three drivers
with an audio thread implement it with `Waits`, `AsioIsCallbackDriver` that the ASIO driver does without.

**`BlockAllocators`** has both allocators: a stack of free blocks per allocator (top last), the
application's scoped blocks and its raw pointers. `misused` is history: `reset()` found a live
`ScopedAudioBlock`, whose destructor will put its block on the new stack a second time; the next reset that finds none ends it.
A pool whose memory was refused has no blocks. The application gives a raw pointer back once, to the allocator it is from,
and forgets its pointers into what it resets. `MCMemory` is the run of the ring and of the allocators, which share nothing: a behaviour
is of one of the two.

**`ParameterGroup`** is the tree of groups: the two vectors of a group with their indices by name.
**`Parameters`** extends it with the five classes of parameters, whose common fields are one record and whose
`kind` decides which operation applies. Setters call the change callback before they return and a callback may
call setters again, so `calls` is the stack of calls in progress. A `resetAll()` is a frame with the parameters it has left
to reset and the groups it has still to descend into, each in a frame of its own above it, and `touched` is what callbacks have changed since; callbacks do not change groups or
callbacks, which would change a vector or a function while it is used. `heard` is what each callback was told last,
`lapsed` is history: what was lost when a range or options changed the value without a set.

**`PresetManager`** has the disk as a function from paths (directory, name, extension), the index as
names with paths. Every file operation may fail: the calls that fail before anything happened change nothing
and are no actions, a write that breaks off is `SaveBreaksOff` and a copy that does `CopyBreaksOff`. What either leaves is the whole
file, one that no serializer reads, or a part that loads (`Cut`): a binary file needs no more than its header
(`BinarySerializer.cpp:36`), a JSON text a brace at both ends (`JsonSerializer.cpp:65`). Another program may change files.
**`PresetStore`** is its abstract specification: presets with a content each, no paths; a save that breaks off may leave
any content in the preset it was for, and in no other.

### Drivers that somebody else calls

**`AsioDriver`** has one action per section between two accesses the other thread can see. `app` is the application
inside `start()`, `stop()` or `setAudioCallback()`; `host` is the ASIO host inside `bufferSwitch()`, from its test of
`running` over the switch's mutex and the driver's to the end of the callback. Each mutex is a variable that names its
holder. What no mutex guards is taken apart: `ASIOBufferSwitch::start()` lets the host in before it resets the count
(`StartSwitch`, `ZeroCount`), the statistics may be reset by any thread at any moment, and the position, which is no atomic, is read and written by
the host in two steps that `start()` can come between. `late`, `admitted` and `resetCrossed` are history: calls of the
callback begun since `stop()` returned, switches let in since `start()` was called (with one still under way then), and whether `start()` reset the position between
the host's reading and writing of it.

**`JackClient`** is the client's connection, port names, one buffer per name, and connections. **`JackDriver`** extends
it with the driver's own flags and buffer size; `torn` and `resized` are history and name the calls after which the
code lets the two disagree. **`AlsaMidiPorts`** is the list of ports beside the names of the created ones.
**`CoreAudioDevices`** splits the enumeration into its steps and the selection into the lookup under the mutex
and the read through the pointer after it. **`DriverStubs`** is the life cycle of the five `IAudioDriver`
classes: what differs (where one can be initialized, when it may be configured) is a record. `MCHostedDrivers`
instantiates the five; a behaviour is of one of them (`which`). `MCDrivers` puts them beside `AudioThreadDriver` for the run: whose thread
calls the application is `owner`, and the drivers of the other keep their first state.

### Nodes, signal utilities and messages

These have no callbacks and, but for the filter, no threads; what can go wrong is in sequences of calls: a size that
changes while something is half full, a block cut elsewhere, a byte that arrives later. Sample values are abstracted to
what the property tells apart: a sample is the number of the input it came from (`DelayLines`, `Meters`,
`Resampler`), a tick of a phase (`Oscillators`), an integer where the code is linear (`DCBlockers`), an integer modulo
17 where it is a transform (`FastFourierTransform`: 17 has a root of unity of order 16, so that every step of the
algorithm is exact).

**`BiQuadFilter`** keeps the coefficients in two halves, b and a, each with the design it belongs to: the change callback
writes them in two steps while `process()` writes and then reads them, which is the data race of the code as a choice of orders.
**`DelayLines`** has the four rings; **`Meters`** the two taps; **`SampleClocks`** and **`Oscillators`** the counters and
phases; **`DCBlockers`** the bank and the node. **`MidiMessage`** and **`SysexMessage`** build messages by the factories
and read them back by the accessors and parsers: the bytes of an identity reply are those of `identityReply()` for a family, a model and a
version given high byte first, and the numbers are packed from them as `parseIdentityReply()` does. **`Resampler`** keeps of a streaming call
which place in the input each output stands for, the last frame of the call included, which has no neighbour to be interpolated with. `MCNodes` instantiates the ten; again a behaviour is of one of them.

**Faulty variants.** Each module has a short section of definitions no action uses. Each is one of the
module's definitions with a plausible bug (a dropped lock, an off-by-one, a missing reset). Put in the
place of the correct one, it must make a named property fail: this is how each property is shown to be
able to fail. `PROJECT.json` names one for every property. In the runs that put several modules together a property is a
conjunction over the modules, and those of the allocators, the order, the detector, the transform and the refinements have several parts; the variants of the others were tried in the same way:

| Property | Variants that violate it |
| --- | --- |
| `BlocksAccounted` | `RefilledOnTop` for `Refill`, `OwnsEverything` for `Owns` |
| `IsCallbackDriver` | `JoinAtOnce` for `CanJoin`, `SetWithoutLock` for `CanSetCallback` |
| `AsioIsCallbackDriver` | `SwitchUntested` for `Accepts`, `ReplaceUnlocked` for `CanReplace` |
| `AsioCallsBounded` | `SwitchUntested` for `Accepts`, `ReplaceUnlocked` for `CanReplace`, `CountKept` for `CountAtStart` |
| `StreamsFit` | `SizeKept` for `SizeFromServer`, `ConfigureAnyTime` for `MayConfigure` |
| `PortsAgree` | `PortLeft` for `PortsWithout`, `BufferLeft` for `BuffersWithout`, `BuffersKept` for `ResizeAll` |
| `PastIsExact` | `NoWrap` for `Advance`, `FullSwing` for `ChorusSwing`, `IndexKept` for `IndexAtTrigger`, `StrictWrap` and `WrapToZero` for `Wrapped` |
| `SamplesInPlace` | `PastTheEnd` for `Sampled`, `PhaseRestarted` for `Carried`, `CentredTaps` for `Taps`, `WindowLeftOpen` for `WindowClosed`, `LateReached` for `Reached`, `KeptOnTrigger` for `CounterOnTrigger` |
| `DetectorExact` | `StillGray` for `Finished`, `NeverVisited` for `Visited` |
| `OrderExact` | `OncePerNeighbour` for `Edges`, `SourcesOf` for `InDegree` |
| `ResultsExact` | `MostFirst` for `ReplyBytes`, `TerminatorKept` for `WithoutTerminator`, `UnshiftedBend` for `BendNumber`, `MemoryKept` for `Cleared`, `Planar` for `Index` |
| `SpectrumExact` | `Unscaled` for `Normalized`, `Mirrored` for `Reversed`, `Rest` for `Padded` |

## The runs

| Run | Instance | Shows |
| --- | --- | --- |
| `worker_thread` | an owner and one more caller | `stop()` is final, `waitForCompletion()` is truthful, no lost wake-up, no call hangs |
| `worker_restart` (violated) | the same | `start()` after `stop(false)` ends the process |
| `thread_barrier` | three threads, barrier for two, resets to 0, 1 and 3, three generations | exact count, answers that say whether the generation ended, nobody forgotten, blocked calls return |
| `barrier_reset` (violated) | three threads, barrier for three, reset to 2, two generations | `waitFor()` answers true after a reset, with threads missing |
| `task_queue` | three threads, capacity 2, `executeN` up to 2 | no task beside a sleeping consumer, bounded calls return |
| `memory` | the ring: capacity 3, two sample values, calls of up to 2, `clear()` in either thread at any moment; the allocators: 2 audio allocators, 2 pools, 2 blocks each, 2 scoped blocks, 2 pointers, up to renaming | the ring implements `BoundedFifo`, no two accesses to one slot unless a `clear()` crosses; every block has one place, and comes back to its allocator |
| `clear_beside_write` (violated) | capacity 3, calls of up to 2 | what `clear()` took out, or was never written, is readable after a `write()` it crossed |
| `parameters` | a parameter of each class beside a simple one, 3 calls deep; trees of 3 groups and 3 parameters | values in range and on the grid, callbacks up to date, lookups exact, `resetAll()` complete |
| `presets` | 2 names, 2 directories, 2 formats, 2 files, one change from outside, up to renaming | implements `PresetStore`; a preset's file is its own |
| `audio_graph` | 4 nodes, 5 connections (4 when the detector is asked), 2 input channels, up to renaming of nodes | no dangling connection; order, groups and both answers of the detector are exact, its recursion and stack bounded |
| `drivers` | audio threads: two callbacks, every mode; ASIO: two callbacks, three buffer switches; JACK: two ports, two sizes, three entries; ALSA MIDI: a built-in name and another, three created; three devices; blocks of 1 and 2 frames, 0 and 2 channels | the drivers with a thread implement `CallbackDriver`, so that a replaced callback never runs; `stop()` is final, the callback is served; ASIO implements `CallbackDriver` too, calls of the host are bounded and return but for one embrace; driver and client, ports and buffers, list and names, pointer and device, buffers and configuration agree |
| `nodes` | see below | the filter's halves and its settling; rings, traces and phases keep the past; windows, counters and resampled blocks have every sample in place (a stream's at its seams as far as the code does); messages read back, a transform goes back to its signal, a DC blocker's memories are exact |

Why the bounds are enough. The worker and the drivers are finite without a bound. At the barrier, three
threads for two places give a late thread that opens the next generation; three generations let a
thread of the first still be on its way out when the third begins; the count and generation arguments are
all that a later generation could depend on. In the queue two sleepers, one of them
about to time out, and a thief are the smallest case where one notification could be misspent, and two
tasks are the smallest capacity at which two notifications are under way. A ring of three slots wraps inside a
batch of two, fills and empties, and a call may ask for more than it holds or has room for; two sample values tell the oldest sample from any other. Four nodes and five
connections hold a diamond, cycles of length one to four, a cycle that feeds other nodes, and two
parallel connections beside a third; the four connections of a graph that is searched (`MaxSearched`) hold each of the first three. Two
allocators of each kind and two scoped blocks let a block be assigned across allocators, two blocks let one be out
while the other is exhausted. Three calls are a `resetAll()`, the reset of a float and the callback that sets another
parameter; beside the trees the parameters are triggers nobody uses, beside the values the tree stays as built, because
neither looks at what the other changes. Two files are one that the index knows and one that it does not. Symmetry is used in
`audio_graph`, `memory` (of allocators, scoped blocks and pointers) and `presets`, where no liveness is checked and nothing that is exchanged is named.

For the hosted drivers, three switches let one outlive a stop and a restart and a second follow; two ports and three entries
hold a port created twice beside another; one name that the driver brings along and one that it does not are
what `deletePort()` tells apart. For the nodes, rates 1 and 2 make a ring grow and shrink under its index, and five samples
wrap every ring at least once; numbers on both sides of a seven-bit boundary (0, 1, 127, 128, 8191, 8192, 16383, 16384) are where a
split can go wrong; transforms of 1, 4 and 8 points have no, two and three stages; steps of a half to
two and a half samples give every rounding of the block's size and every phase at a seam; four samples past two frames tell a DC
blocker's channels apart. `TypeOK` is proved for the modules of the threads, ring, allocators and presets (`PresetTypeOK`) and therefore in no run; for the
parameters it is part of `ValuesLegal`, which is both.

`CHECK_DEADLOCK FALSE` is set for the worker, where the process may have ended in `std::terminate`; for the drivers,
where ASIO's two threads may stop each other for good (the audio threads of the others go on: `StopReturns`, `CallbackServed`); and for the nodes, where a message is built and nothing follows.

### Fairness

Calls are never fair: an application need not call anything. Weak fairness is given to the steps of a
thread that runs (threads are scheduled, tasks and callbacks return). Strong fairness is given to a
thread that waits for a mutex which others take and release again and again, and to deadlines, which are
absolute in the code (`wait_for` computes the end once) so that spurious wake-ups do not postpone them.
`std::mutex` promises no order among the threads that wait, but a thread that finds it free
again and again and never gets it is a matter of the operating system, not of this code. Spurious wake-ups have
no fairness: no property holds thanks to one.

In `drivers` both of ASIO's threads have weak fairness for the call they are in; that is enough because a mutex is
held for one section at a time and nobody takes it again before returning. The host need not call. In `nodes` blocks keep coming
(an audio thread does nothing else) and a change callback that began goes on; the application's calls are bounded by
`MaxWrites`, not fair.

### What the violated runs show

`worker_restart`: `WorkerThread.h:44` says that `start()` returns whether the thread was started. After `stop(false)`
and the end of the loop, `start()` assigns to a `std::thread` that is still joinable
(`WorkerThread.cpp:54`), which calls `std::terminate`.

`barrier_reset`: `ThreadBarrier.h:48` says that `waitFor()` returns true if all threads arrived within the timeout. The code returns
whether the generation changed (`ThreadBarrier.cpp:86`), and `reset()` changes it: one of three threads waits, another resets, and the
first is told true. `ReturnsTellTheTruth`, which is proved, is what the code does keep to: true means that the generation has ended,
in one of the two ways, and false that it is still open.

`clear_beside_write`: `CircularBuffer.h:91` says that `clear()` clears all data. A `write()` of the other thread that is under way has
loaded the index from before and stores it moved on (`CircularBuffer.cpp:46`): the ring then reads as full of samples from before the
`clear()` and of slots never written. A `read()` under way does the same with its index. `NoDataRace` and `IsFifo` say how far it
goes: indices stay in the buffer, and all is well again once both threads are out of their calls.

## The proofs

The proof modules hold, for every value of the constants (any set of threads, any capacity, any
callbacks), what the runs check on one instance. Each follows the same argument: an inductive invariant
`IInv` that the initial states satisfy (`InitEstablishes`), that every action keeps (one lemma or step per
action or group of actions), and that implies the property; a theorem `Invariance` puts the three
together and the properties follow.

* `WorkerThreadProofs`: `TypeOK`, `QuietAfterJoin`, `NoTaskAfterStop`, `CompletionServed`. `IInv` adds what
  ties `running` and `joinable` to the place of the worker and of the owner, and where an unserved
  `wake()` can be: `taskPending` is set as long as somebody is owed an iteration.
* `ThreadBarrierProofs`: `TypeOK`, `CountExact`, `NoForgottenSleeper`, `ReturnsTellTheTruth` and `FullMeansAllInside` (a generation completes
  with exactly `numThreads` distinct threads inside, which no run repeats). `IInv` adds that the generations below the current one
  have ended and those from it on are open, that the mutex is held only by a completing thread, and that
  `waitingCount` is the cardinality of the set of threads inside. The cardinality steps rest on lemmas about adding and
  removing one element.
* `TaskQueueProofs`: `TypeOK` and `NoIdleSleeper`, which is inductive together with the type.
* `DriverProofs`: `TypeOK`, `QuietAfterStop`, `OnlyInstalledCallbackRuns` of `AudioThreadDriver`. `IInv` adds the life
  cycle of the thread (alive implies joinable, outside `stop()` joinable implies running, manual mode has
  none) and that whoever is in a callback is in the installed one. The refinements `IsCallbackDriver` and `AsioIsCallbackDriver` match every step to one
  of `CallbackDriver` or to a stutter: a call begins, and a callback is installed, with a mutex that says that nobody is in one; a join finds the thread
  gone; and ASIO's count of late calls is zero while the driver runs. Of the hosted drivers, `AsioCallsBounded` from `AsioInv` (the
  switch runs only while the driver does, a late call is past both mutexes and none can follow it, and count, position and what the host has read of it are of switches admitted
  since `start()`, but where it crossed a reset) and
  `SelectedDeviceAgrees` from `ListInv` (the list is always a beginning of the catalogue, so that a place in it means one device for
  good), for any number of calls of the host and of refills of the list; the steps of the other drivers leave their variables alone.
  `StreamsFit` comes from `JackInv` (until a call tears them apart the driver's connection is the client's, a client that is active is
  connected and runs, and the sizes are equal from the connection to the next resize) and `StubInv` (types and the property: `start()`
  makes room for the configuration, which cannot change while the dummy runs). `PortsAgree` comes from `PortsInv`, which adds that a
  name that stands twice in JACK's list of ports was created while it existed, and from `MidiInv`, which counts the ports of each name in the
  ALSA MIDI list; the lemmas `RemoveFirstDrops` and `NamesRemain` say what `std::find` with `erase`, and `std::remove_if`, leave of a list.
* `MemoryProofs`, of the ring: `TypeOK`, `NoDataRace` and the refinement `IsFifo`. `IInv` says, for each side and unless a `clear()` has crossed, that
  what it has seen of the other's index is at most behind, so that the slots it copies are inside what is
  free (or filled) now; that the indices stay in the buffer holds whatever crosses; the lemmas before it are the modular arithmetic of a ring of any capacity. Every step
  is then matched to a step of `BoundedFifo` or to a stutter.
* `GraphProofs`, of the graph and the order: `TypeOK`, `NoDanglingConnection` and `OrderExact` (`OrderRespectsConnections` and
  `OrderCompleteIffAcyclic`, each also a theorem of its own). `IInv` says that `inDegree[n]` counts the connections into `n` from nodes not yet in
  the order, that the queue holds exactly the nodes outside the order for which it is zero, without
  repetition, and that no set of nodes in the order is fed from within. An empty queue then leaves either nothing,
  or a set of nodes that is fed from within. `GroupsByDepth` is a property of a graph rather than of a step: `LoopOK` holds after every turn
  of the loop of `computeParallelGroups()` (each group is what the groups before it leave fed, and a turn adds a node or nothing is ready), so
  that after as many turns as there are nodes only what a cycle feeds is left; without a cycle every node's feeders are in groups before its own and one
  is in the group just before, which gives the depth that `getNodeDepth()` computes.
* `GraphProofs`, of the detector: `DetectorExact`. `DetectorInv` says of `hasCycle()` that the calls in progress are a path of the graph
  whose nodes are the gray ones, that what a call has looked at is black or the call it waits for, and that black nodes lead to black
  nodes only and hold no cycle: a node that turns black is fed by no black one. A connection to a gray node then closes the path from it on, and
  when no node is left all are black. Of `wouldCreateCycle()` it says that what is visited or stacked is what a path from the target has reached,
  that what visited nodes lead to is visited or stacked, and that the stack has at most one entry more than connections were followed.
* `MemoryProofs`, of the allocators: `AllocatorsTypeOK` and `BlocksAccounted` (`OnePlace` and `ComesHome`, each also a theorem of its own). `AllocatorsInv` adds that a raw pointer points into
  memory its allocator got. The places of a block are counted (times on the stack, scoped blocks that hold it, pointers to it): each
  action takes one where it adds one.
* `ParametersProofs`: `ValuesLegal`, `HeardIsCurrent`, `LookupsExact`, `ResetReaches`, from three invariants. `ValuesInv`: each
  parameter is `Legal` for its class with what it has lost, which the arithmetic of clamping and rounding to a grid carries through
  every setter; beside the property it says which bounds a class has and that an enum that never had options has index 0, so that its
  first option is inside. `GroupInv`: both indices are `Exact`, every group has one place in one group, and none is below itself; a
  tree is the smallest set that holds a group and what its members own, so that adding a group nobody owns outside of its tree closes no
  circle. `ResetInv`: for each `resetAll()` in progress, whatever is in a group's tree is at its default, was changed by a callback, or
  is still to be done by this frame or the one above it, and a frame knows of all changes the frames it called know of. Any
  tree, any depth of callbacks: `MaxCalls` and `MaxOptions` are any natural numbers.
* `ParametersProofs`, of the presets: `PresetTypeOK`, `OwnFile`, `CurrentListed` and the refinement `IsPresetStore`. Since the name in a path is the
  preset's own, two presets never share a file, so that each file operation, also one that breaks off, changes at most one entry of the store.
* `NodeProofs`, of the nodes: `HalvesMatch`, `PastIsExact`, `SamplesInPlace`, from one invariant per node, each kept by its own node's steps
  (`OneSteps`: no step moves another's variables). `FilterInv` follows the two writers: while neither overlapped the other, what `process()` has
  written is its design, what a callback has begun is the callback's. `DelayInv` has the ring empty before the first sample, and as long as
  its reader needs; a sample takes the place of the oldest and leaves every other one step older (`SampleKeeps`, on the arithmetic of
  `PlaceBack`). `ScopeInv` says the same of a trace without a trigger, and of a sweep that has begun that it fills the buffer up to the write index. `MeterInv`
  has the sum between as many squares of the quietest and of the loudest level as were counted. `ResamplerInv` is the balance of the
  stream, the place of each output of its last call and the size of a block; `SeamReached` says which place the code takes at a seam, `StepsReach` says what a rounded-up quotient of any two numbers is.
* `NodeProofs`, of messages and DC blockers: `ResultsExact`. `MidiInv` says that a message is what one of the factories makes of its
  arguments, so that the accessors find the kind, the channel and both halves of a 14-bit number whatever was passed. `SysexInv` says by the
  message's purpose what its bytes are: a message that is streamed is F0, the content and perhaps F7 after any order of appending, prepending and
  stripping; an id is one byte or zero and two; a Roland message ends in a checksum, and changing a byte of its data by any other
  of seven bits changes the sum by less than 128 and not by 0, so that the checksum no longer fits; an identity reply holds the
  low bytes of its numbers before the high ones, and parses to the numbers they were taken from (`version3` as the highest byte of the revision), whole or cut short. `BankInv` says that each blocker follows its own channel: it has the bank's
  radius, the channel's last sample and, while the radius stays, the response to all samples of the channel. The code's one-sample
  recurrence computes the closed form, a sum of steps that have decayed, for any input and any radius (`ResponseGrows`).

Assumptions are those named in the modules: finite sets of threads, natural numbers for counts, a
capacity of at least one for the ring (one slot stays empty, so that a ring of capacity 1 holds nothing), sizes, rates, windows and steps of at least one for the nodes (0 divides by zero in
the code), integers for samples, channels and the arguments of messages, data bytes of seven bits in SysEx content (what the format allows
between F0 and F7), values that stand for "none" outside the sets they extend.

What a loop or a recursion computes is proved by the least exception: a non-empty set of natural numbers has a least element
(`LeastNatural`, from the library's theorem on well-founded relations), so what holds of 0 and passes from k to k + 1 has none
(`NoLeastException`). The sums and powers of a DC blocker's response are computed so too. The same argument shows that a recursive function of the model exists, and so is what its equation says.

Only model-checked: liveness (`CallsReturn`, `WakeServed`, `BlockedCallsReturn`, `BoundedCallsReturn`,
`StopReturns`, `CallbackServed`, `ReturnsUnlessEmbraced`, `FilterSettles`), and of the safety properties `SpectrumExact`: that a transform goes back to its signal
rests on sums over the powers of a root of unity modulo 17, written with `^` and the folds of the community modules, of which the provers know
nothing and for which the installed libraries state no facts. `CurrentListed` of `PresetManager` is proved and in no run, and so is
`OnlyInstalledCallbackRuns`, which `IsCallbackDriver` contains.

## What is assumed or left out

* Completion functions, tasks and callbacks return, and do not call the object they run under (each
  would lock its own mutex). Tasks of the queue may throw; completion functions, tasks of the worker and callbacks do not.
* Objects are not moved while they are in use, and live as long as the calls on them.
* `new` and thread creation succeed.
* One thread starts and stops a worker or a driver; nothing in the code makes two safe.
* Parameters and groups are used by one thread, except that a trigger is consumed by any; the numbers of an `IntParameter` are far from overflow.
* Both serializers write a placeholder instead of the graph and the parameters (`JsonSerializer.cpp:35`, `BinarySerializer.cpp:77`), although
  `docs/architecture.md:123` says that they capture both. The model has only which format and settings a file was written with.
* Categories, times and texts of errors of presets are left out. A `PresetManager` keeps no other files open.
* An `EnumParameter` whose options are all removed keeps its index (`EnumParameter.cpp:84`); with fewer options added later
  `getSelectedValue()` reads outside the vector. `InRange` excepts this case by its history.
* What is in an audio block, double frees and the moving of an allocator under live scoped blocks are left out.
* `setPriority`, `setAffinity`, statistics, formats, devices, latencies and buffer sizes are left out.
* `InRange` excepts the smoothed value after a `setRange()`, which the next block brings back.
* The hosts of ASIO and JACK, the ALSA sequencer and Core Audio are what their drivers see of them: the repository's code
  simulates the devices and calls no platform library.

### Known disagreements

What the models record and the properties except by name, beside the violated runs:

* `ThreadBarrier.cpp:64`: `tryWait()` compares with `numThreads - 1`, so it is true with one thread missing; `ThreadBarrier.h:41` says
  "if all threads have arrived".
* `AudioGraph.cpp:153`: `isValid()` returns true whatever the connections are; `AudioGraph.h:113` and `docs/architecture.md:65`
  say that cycles are looked for.
* `CircularBuffer.h:19` calls the constructor's argument the maximum number of samples the buffer can hold. One slot stays free
  (`CircularBuffer.cpp:106`), so that it is one less, and none for a capacity of 1: `BoundedFifo` is a queue of `Capacity - 1` samples.
* `docs/architecture.md:125` speaks of scanning a directory for `.nap` preset files. `scanPresets()` takes every regular
  file (`PresetManager.cpp:64`) under its name without the extension, so that of two files with one stem one is listed; the serializers
  themselves save `.json` and `.napb`. `ScanPresets` does what the code does.
* `docs/architecture.md:112` against the stubs, whose `initialize()` leaves the running state; `docs/architecture.md:133` calls
  `TaskQueue` lock-free, which has a mutex.
* ASIO: `setAudioCallback()` (`ASIODriver.cpp:201`) and `bufferSwitch()` take the same two mutexes in opposite orders; `stop()` does not wait
  for the host, so that one late call may begin. `ASIOBufferSwitch.cpp:36` lets the host in before the count is reset, so that switches may be
  lost from the count; the sample position (`ASIODriver.cpp:99`, `:224`) is shared with the host's thread without an atomic or a mutex
  that both use, and a late call can write that of the last run over the reset (`resetCrossed`).
* A preset whose save or copy broke off may load all the same: neither serializer checks more than the beginning of a file, and for JSON its last
  character (`BinarySerializer.cpp:36`, `JsonSerializer.cpp:65`). A copy that broke off leaves a file that the index does not know before a scan or a save of that name.
* JACK: `disconnectFromServer()` or a second `initialize()` while running leaves the driver's `running` set, and `start()` then answers
  without activating; `setBufferSize()` after connecting resizes the client only; the first `unregisterPort()` of a name that
  was created twice takes the buffer of both.
* ALSA MIDI: `deletePort()` removes every port of the name, built-in ones too, and ids are given again; `sendPitchBend()`
  (`AlsaMidiDriver.cpp:327`) splits the signed value without the offset of 8192.
* Core Audio: `getDeviceById()` returns a pointer into the list and `selectDevice()` reads it after the lock is gone.
* `BiQuadFilter.cpp:122`: change callbacks and `process()` write the same coefficients; `BiQuadFilter.cpp:364` says that there is no ramp
  after `reset()`, but the next block starts from the smoothed parameters.
* Rings keep their write index when they are resized (`SimpleDelay.cpp:66`, `ReverbConvolution.cpp:96`); the flanger's ring is
  as long as its unswung delay (`Flanger.cpp:88`).
* `MeterNode.cpp:70` changes a window that is half full; `ScopeNode.cpp:87` leaves a sweep triggered whose head is not the trigger;
  `ImpulseGenerator` has no more data while a trigger waits.
* `Resampler.cpp:119`: when the output size is rounded up the default quality reads one sample past the padded copy; the other
  qualities are one sample later than it; streaming drops input when the output is full, and makes an output that is due between two calls
  of the last frame of the first (`Resampler.cpp:188`): at a ratio of a half the last two outputs of every call are the same. Places are therefore exact
  (`StreamInPlace`) up to the last frame of a call, and that frame's beyond it; how the stream is cut shows in the output.
* `SineOscillator` started before `prepare()` stands still; a frequency above the sample rate or below zero makes a phase grow.
* SysEx: id 0 reads back as an extended id, appending nothing drops the terminator.
* `WindowFunctions.cpp:258`: `generateCOLA()` does not end for a hop size of 0.

## Not modelled

`SpinLock` is one atomic flag; `StateVector`, the remaining nodes (gain, pan, mixer, splitter, inverter, clippers, noise, file reader) and
`WindowFunctions` are one formula a sample or a value, with nothing for a model checker to interleave; the interfaces have no
state. The encodings of the serializers are placeholders in the code. Buffers of the audio-thread drivers, which `setBufferSize()`
resizes under a running callback, are undefined behaviour rather than a state and are listed as a hazard without a property; so are a completion
function that throws and a worker's task that calls its own worker.

## Order and what is left

Done, in this order: the threading primitives with their proofs, the ring, the graph, the drivers' audio thread, the block allocators,
parameters and groups, presets, the hosted drivers and the nodes, all with their proofs. What would come next: that a transform
goes back to its signal, for every power of two; the buffers of the audio-thread drivers.
