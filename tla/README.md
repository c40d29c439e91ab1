# Voxory in TLA+

Voxory captures what the machine plays (WASAPI loopback), collects it into
windows of mono samples at 16 kHz and transcribes each window with whisper.cpp.
It brings its own containers: a lock-free chunk ring, a ring buffer, a dynamic
array, a linked list, and, in debug builds, iterators that register with their
container. These modules model the program and its containers, TLC checks them
on small instances, and TLAPS proves the most important facts for every value
of the constants.

Paths below are relative to the repository's root. `chunk_buffer.h`,
`ring_buffer.h`, `heap_array.h`, `list.h` and `static_array.h` are in
`include/containers/impl/`, `main.cpp` and `containers/containers_dbg.cpp` in
`src/`.

    tlc   -config ChunkRing.cfg ChunkRing.tla
    tlapm ChunkRingProofs.tla

## 1. The system

| part | state | operations | what is hard about it | what makes it correct |
|---|---|---|---|---|
| `ChunkRing` (`chunk_buffer.h`) | two atomic counters, slots of samples | `push_chunk`, `try_pop_chunk`, constructor, destructor | one capture and one inference thread; `read_index` is stored by both, each from a stale value; `memcpy` excludes nobody; the stop flag is read once per push | counters in order, nothing lost there was room for, the returned pointer is usable until lapped, the ring drains |
| `WasapiLoopback` (`main.cpp:74-282`) | COM objects, mix format, `running`, the static `acc` | `init`, `start`, `stop`, `get`, `append_sample_resample`, destructor | the engine posts packets of any size meanwhile; a window ends inside a packet; `acc` survives calls; each COM call may fail | exact windows, no drift, packets released on every path |
| main loop (`main.cpp:284-383`) | `pcmf32`, `pcmf32_old`, `n_iter`, the model context, COM | `main` | overlap arithmetic over several windows; any failure ends the program; the endpoint fills up during inference | windows join, everything is transcribed, what was acquired is released |
| `ring_buffer` | `_data`, `_first`, `_last`, `_size`, `_capacity`, overwrite policy | push, pop, clear, bulk read and write, reserve, shrink, move, destroy | full and empty look alike by pointers; `_last` has two spellings of "start"; reallocation goes through `_cleanup`; a move takes four of five fields; elements throw | the constructed cells are the queue, first in first out, elements survive a reallocation |
| `heap_array` | `_data`, `_first`, `_last`, `_capacity` | constructors, `assign`, `reserve`, `resize`, `shrink_to_fit`, moves | elements that throw half way; guards that undo; move-or-copy decided at compile time | constructed cells are `[_first, _last)`, nothing leaks, strong guarantees of growth |
| `list` | two ends, `_size`, nodes | `emplace_back`, `pop_at`, `clear`, stealing | raw nodes | well-formed in both directions |
| debug iterators (`containers_dbg.cpp`) | per container: lock, version, list; per iterator: `_container`, `_proxy` | register, release, invalidate, `_release_proxy`, `_move_proxies` | `_proxy` is read before the lock is held; nodes freed by others | registrations exact, no freed node followed, mutual exclusion |
| `spin_lock` | one atomic flag | `lock`, `unlock` | | one holder |
| uninitialized-memory helpers (`containers_internal.h`) | none | `uninitialized_*`, `*_assign_n`, guards | an element throws half way | what was made is undone, once |
| `static_array` | cells in the object, two pointers to them | construct, assign from any size, index, the compiler's copies | pointers into another object after a copy; sizes that differ; elements that throw | each array owns its elements, copies are apart |
| `TryVirtualLock` (`VirtualAlloc.h`) | pages, their lock, a token handle | lock pages, up to three attempts | eight calls that may each fail, and what the constructor gives back | nothing is left behind |
| audio interfaces (`include/audio`, `include/interfaces`) | | declarations and data layouts, no behaviour | | not modelled |
| `spsc_ring_buffer` (`ring_buffer.h:1034-1058`) | | declared only | | not modelled |
| test framework (`tests/test_framework`) | a registry of suites | run the tests | | not modelled: test support |
| whisper.cpp (`dependencies/whisper`) | | vendored | | external: `whisper_full` is one step that may fail |

How the parts interact. `main` constructs `WasapiLoopback`, calls `get` in a
loop and hands the windows to whisper on the same thread; the audio engine is
the only concurrent party and is met through the endpoint's packet queue.
`ChunkRing` is the channel intended between a capture and an inference thread;
`main` does not use it yet, so its callers are modelled from its own contract.
`heap_array` derives from `container_base_dbg` and keeps its iterators in a
`list`; `ring_buffer` and `heap_array` construct their elements through the
uninitialized-memory helpers. The hazards, each at its line and with the
properties that watch it, are listed in `PROJECT.json`.

## 2. The modules

| module | models | uses |
|---|---|---|
| `LossyLog` | abstract: what a lossy channel promises | |
| `ChunkRing` | `push_chunk`, `try_pop_chunk` and the two threads | refines `LossyLog` |
| `ChunkRingProofs` | its theorems | `ChunkRing` |
| `RingLife` | the ring's constructor with `TryVirtualLock`, its use, its destructor | extends `ChunkRing` |
| `RingLifeProofs` | its theorems | `RingLife`, `ChunkRingProofs` |
| `Loopback` | `WasapiLoopback::get` and the audio engine | |
| `LoopbackProofs` | its theorems | `Loopback` |
| `Voxory` | `main`, `init`, `start`, `stop`, the destructor | extends `Loopback` |
| `VoxoryProofs` | its theorems | `Voxory`, `LoopbackProofs` |
| `BoundedFifo` | abstract: the queue `ring_buffer` documents | |
| `RingBuffer` | several `ring_buffer`s down to their cells | refines `BoundedFifo` |
| `MCRingBuffer` | its symmetry set for TLC | extends `RingBuffer` |
| `RingBufferProofs` | its theorems | `RingBuffer` |
| `StaticArray` | `static_array` and the compiler's copies of it | |
| `StaticArrayProofs` | its theorems | `StaticArray` |
| `ElementSequences` | abstract: the sequences of elements that `heap_array`'s callers see | |
| `HeapArray` | `heap_array` with elements that throw | refines `ElementSequences` |
| `HeapArrayProofs` | its theorems | `HeapArray` |
| `LinkedList` | `list`, as operators on a heap of nodes | |
| `DebugIterators` | registration by several threads | extends `LinkedList` |
| `MCDebugIterators` | its symmetry sets for TLC | extends `DebugIterators` |
| `DebugIteratorsProofs` | its theorems | `DebugIterators` |

Operators whose name has an underscore and a lower-case idea after it
(`OldestKept_TooFar`, `Acquire_NoTest`) are not part of any specification: each
stands before the definition it deviates from and is the slip that a property
is there to catch. `PROJECT.json`, "mutants", pairs each with its property.

### ChunkRing

An action is one access to a shared location. `PushBegin` reads the stop flag
and `write_index`, `PushLoadRead` loads `read_index`, `PushDropOldest` is the
producer's store to it, `PushCopySample` is one sample of the `memcpy`,
`PushPublish` the store to `write_index`. `PopBegin`, `PopLoadWrite` and
`PopClaim` are the consumer's two loads and its store; `ReadSample` and
`ReadDone` are the caller reading through the pointer. `write_index` is loaded
once by its only writer, so its load is joined to the flag's. A sample's value is
the number of the push it belongs to: enough to tell torn, stale and newer
samples apart. Accesses are interleaved; what a store buffer or a weaker memory
order may add is not modelled (the code's `memcpy` is a data race in C++ terms, of
which this gives the outcomes sample by sample).

`LossyLog` numbers the items; the reader may take item `n` only when each earlier
one was taken or is `Room` behind the newest. `published` is `write_index` and
`taken` is the history variable `delivered`. A chunk handed out twice, which the
race on `read_index` allows, is a stutter.

`RingLife` puts the use of the ring between its constructor and its destructor:
`Allocate` is `VirtualAlloc`, `Lock` each of the three tries of `VirtualLock`,
`OpenToken`, `LookUp`, `Adjust`, `GetSize` and `SetSize` the calls made between
them, each of which may fail, `GiveBack` the constructor's way out by an exception,
`Unlock` and `Free` the destructor. `AfterAttempt` is what a failed try leads to.
`Produce`, `Consume` and `AskToStop` are `ChunkRing`'s steps. When the ring is
destroyed is its owner's business (`OwnerIsDone`: the producer was stopped and the
consumer has drained it and reads no more); the destructor itself waits for nobody.

### Loopback and Voxory

`endpoint` is the engine's packet queue, `TakePacket` is `GetNextPacketSize` and
`GetBuffer`, `ZeroFrames` the silent branch and the two branches for formats
that are not decoded, `ConvertFrame` one turn of the loop over a packet's frames
with the call of `append_sample_resample`, `ReleasePacket` is `ReleaseBuffer`
and the loop's condition. `GetFails` is any of the three calls failing. `acc` is
kept in units of one over the device rate, so it is an integer: the rounding of
the double is left out, and so are the values of the samples (`surplus`,
`fed`, `emitted`, `zeroed`, `calls` are history).

Packets the engine cannot place are no step: what `get` is never given, it cannot
tell from silence between two packets.

`Voxory` runs `get` under `main`. `InitCom` is the constructor's `CoInitializeEx`, whose
result is dropped: when it fails because COM already runs in another mode, the
calls of `init` may still succeed. `InitDevice` is one of init's six calls and its
early return; `Assemble` is the three statements that build the window and save
it as the next overlap; `Transcribe` the inference and the cut every
`n_new_line` windows; `StopCapture`, `FreeModel`, `Destroy` the way out.
`DeviceFails` and `Play` are the environment: a failure in `get`, and the engine,
which delivers to a started client only. Captured samples are numbered, so a
window is a sequence of numbers and a seam is visible. The `use_vad` branch needs
a step of zero and is not reachable with the program's constants.

### RingBuffer

A buffer is a record of its five fields, pointers as offsets, and `store` tells
which cells hold a constructed element. The class is for one thread, so an action
is one call with all the helpers it makes. `Construct`, `MoveConstruct`,
`MoveAssign` and `Destruct` make, move and end whole buffers; the others are calls
on one. A call that would touch a cell without an element, or one outside, sets
`wild`, and nothing is said afterwards.

`Throws` and `Assignable` say what the elements may throw from and whether they
can be assigned to; a type that permits less only loses steps, so the run takes the
one that permits most. (`PushOverwriteThrows` also stands for types that copy, cannot be
assigned to and throw: for some of them the `noexcept` of `ring_buffer.h:434-437` ends the
program, where the model leaves a hole.) An exception that leaves everything as it was is no step;
the four that do not are `PushOverwriteThrows` (the fallback has destroyed the
oldest), `PopThrows`, `ReallocateThrows`, and a push that throws after the growth,
which is a `Reserve`. `lost` is what the last call left with nobody to destroy it,
`spoiled` the buffers whose fields do not fit together any more: those that had
their storage replaced while holding elements, both sides of a move, and those with
a hole; constructing a buffer anew takes it off this list. `BoundedFifo` is the
documented queue, refined by each buffer until then.

### StaticArray

An object has its own cells and `pair`, the object whose cells it shows: its own,
until the compiler's copy makes it another's. `trivial` is fixed at the start:
elements are copied as bytes, as an int is, or one by one. `ConstructFrom` and
`Assign` are the class's constructors and assignments from a base, which any number
of cells may be behind; `CompilerCopy` and `CompilerAssign` are the implicit ones,
which leave images of elements in the target's cells, and `Swap` is `std::swap` made
of them. `HoldsFirst` says when a call reads elements only; otherwise it is `wild`.

### HeapArray

An array is its storage cell by cell, `last` and `capacity`. `throws` is fixed at
the start: any subset of copying, default construction, moving and assigning, so
every type's `noexcept` profile is one of the sixteen. A call that may throw
chooses how many elements it got done. An exception out of a `noexcept` function
ends the model with `terminate`. `did` is the last call, for the action
properties. Only non-empty arrays are constructed by count; self-assignment and
unequal allocators are left out.

`ElementSequences` knows an array by its elements only, and of a call which it was and
whether it threw. Its actions are what a caller may rely on: a call changes the arrays
it was given and no other, and one that throws leaves one of the few things its action
lists. `Shown` (the elements of each array) and `LastCall` are the mapping: `reserve`
and `shrink_to_fit` become the same stutter on `items`, whatever storage they use, and
an assignment may have moved its source's elements away, which is what the code does
(section 6).

### LinkedList and DebugIterators

The heap is a function from allocated nodes to their fields: a dangling pointer is
one outside its domain. A call on an iterator or a container is a `job` with a
program counter: `Version`, `Acquire`, `CheckVersion` are the three statements of
`_lock`; `Register`, `Release`, `Invalidate`, `MoveProxies` what is done under
it, one turn of a loop per step; `MoveProxies` and `RaiseVersions` are the two halves of
`_move_proxies`; `CleanupLock`, `Detach`, `ClearList`, `CleanupUnlock` are
`_release_proxy`. What callers must keep apart themselves is in the guards of `Begin`,
`Change` and `MoveAssign`: no two mutators of a container at once, no `begin()` during
one; an iterator may be destroyed at any time, also one of the target of a move
assignment. The code's own re-check of `_proxy` under the lock says that this is meant
to work. `Asserts` tells whether the build has the assertion of `_lock`, which stops the
program; `FreeMoves` whether the source of a move assignment may have live iterators,
which the code does not survive (section 6).

## 3. The runs

| run | question | bounds | answer |
|---|---|---|---|
| `chunk_ring` | do the races on the two counters lose, tear or reorder chunks; is everything settled and drained; do failures around it leave anything behind? | 2 slots, 2 samples, 5 pushes, each call of the system fails or not | no; yes; no |
| `chunk_ring_pointer` | is the pointer valid when it is returned? | 2 slots, 1 sample, 4 pushes | **no** |
| `loopback` | is a window exact, does the resampler lose or hold back a sample? | target 2; devices at 1, 2, 3, 6; window of 3; packets of 1 to 4; 2 in the endpoint; 2 calls | exact; no, unless the device is slower |
| `loopback_silent` | does output track time? | device at 6, else as above | **no**, in silence |
| `voxory` | from start to exit, with every failure: seams, losses, leaks, progress? | target 1, device 2, step 2, length 6, keep 1, packets of 1 or 2, 2 in the endpoint, 5 windows | all hold |
| `ring_buffer` | which cells live, is it the queue, is it moved in order, what may be done with a moved-from buffer? | 2 buffers, capacity 0 or 2, growth to 4, 3 pushes, elements that throw from everything | all hold |
| `ring_buffer_reserve` | are elements kept by a reallocation? | capacity 2, growth to 4 | **no** |
| `static_array` | who owns which elements, what changes what an array shows? | 3 objects of 1 or 2 cells, 1 value | all hold |
| `debug_iterators` | are registrations exact, is a freed node touched, is the lock exclusive, is a list that is replaced empty, which call may a move overtake? | 3 threads, 3 iterators, 2 containers, 3 nodes, 2 moves from containers without iterators, no assertion | all hold; only one with nothing left to do |
| `debug_iterators_version` | does the version assertion hold while containers are moved? | 2 threads, 2 iterators, 1 move, with the assertion | **no** |
| `heap_array` | what is alive, leaked, preserved after every call, thrown out of or not; is an array a sequence to its callers? | 2 arrays, capacity 3, all 16 kinds of element | all hold |
| `heap_array_copy` | does copying leave its source alone? | as above | **no** |

Why the bounds are enough to meet the interesting cases:

- Two slots is the constructor's minimum, and the case where the drop's
  arithmetic (`slots - 1`) leaves the least; five pushes lap a stalled
  reader twice. Two samples make a torn chunk possible.
- Devices slower than, equal to, a non-integral and an integral multiple of the
  target; a packet longer than a window, and windows that end inside a packet.
- Length 6 and step 2 give `n_new_line = 2`, so five windows include uncut
  overlaps, the cut, and windows after a cut; keep 1 leaves a non-empty tail. With
  the program's own values (step = length, keep = 0) the overlap is always empty:
  this is the instance that shows something, and the theorems cover the rest.
- A buffer of two cells that may overwrite or be popped goes round its end with the
  second element, is full with `_first` at either cell, and is reallocated across the
  turn; three pushes overwrite once past the turn. Capacity 0 is the default
  constructor's. Two buffers are both sides of a move, and a buffer that ended can be
  constructed again from the other, spoiled or not.
- Three static arrays are a source, a copy and a copy of the copy, or a pair that
  shares cells and one that does not; one and two cells are a smaller and a larger
  array in both directions.
- The life of a ring has every path through the three tries of `VirtualLock` before
  the ring is used.
- Three nodes make an unlinking in the middle; three threads are a mutator, and
  two others that wait for the same lock. The target of a move may have iterators that
  the others are destroying, so the lock changes hands between its `_release_proxy` and
  `_move_proxies`; after two moves the source of one has been the target of another.
- Three cells let an element throw first, in the middle and last, and leave
  spare capacity beyond `_last`.

`chunk_ring_pointer` and the runs of `DebugIterators` are checked for deadlock: the
consumer polls for ever, and a thread can always enter or finish a call. In the
others the system ends, or the bounds do: a ring is destroyed or was never made,
`get` has failed or all its calls were made, `main` has returned, a wild access or a
`terminate` stops the model.

The symmetries of `MCDebugIterators` and `MCRingBuffer` are sound: nothing
distinguishes the members of their sets, and the runs that use them check no
liveness.

### Fairness

- `RingLife!LifeFairSpec`, and `ChunkRing!FairSpec` in it: weak fairness of the producer and of the consumer. Both are
  operating-system threads and neither function waits. Nothing is assumed
  about the stop request, so `EveryChunkSettles` holds without one, and nothing about
  the construction, which may fail, or the destruction.
- `Voxory!FairSpec`: weak fairness of `Main`, the one thread of the program, and of
  `Play`: the engine delivers packets as long as it is asked to. Without the second
  `get` polls for ever, as the code does when nothing plays. Failures
  in `get` (`DeviceFails`) are never forced; the other calls of `Main` may succeed
  or fail, and are made in any case.

## 4. What is proved

Constants are assumed only what the code justifies: `RingAssumption` (at least two
slots and one sample, which the constructor's contract asks for),
`LoopbackAssumption` and `MainAssumption` (naturals; `KeepSamples <= Wanted`, or
`pcmf32.end() - n_samples_keep` would start before the vector),
`StaticArrayAssumption` (sizes are naturals, and what a caller writes is an element),
`ListAssumption` and `IteratorAssumption` (finitely many nodes, none of them the null
pointer), `ArrayAssumption` (no value looks like a cell without an element; the kinds of
element are subsets of the four that may throw), `BufferAssumption` (capacities are
naturals, elements throw from copies or moves). The bounds `MaxChunks`, `MaxPacket`,
`MaxCalls`, `MaxMoves`, `MaxPushes`, `MaxCapacity` are arbitrary in the proofs.

**ChunkRing** (`ChunkRingProofs`). The checked invariants are not inductive: a
thread holds an index that the other has since changed. `IInv` adds what a thread
may still rely on: `ProducerInv` (the producer's `w` is `write_index`; it drops
only when `w >= Slots`), `ConsumerInv` (a claimed `r` is below `write_index`,
and everything below it is settled), `StopInv`, and `ContentInv` (slot `n % Slots`
holds chunk `n` until the push `Slots` later starts on it, and never anything
older). `ControlStep` needs no data; `ContentStep` rests on `SlotsApart`: two
indexes less than `Slots` apart are in different slots, which is the only fact
about the modulus that is needed; `LapStep` follows from `ContentInv`. Theorems:
`TypeCorrect`, `IndexesInOrder`, `NoChunkLostWithRoom`, `PointerContract`,
`StopIsPrompt`, and `ImplementsLog`, the refinement of `LossyLog`: `PopClaim` is
`Take` because of `ConsumerInv`, `PushPublish` is `Publish`, all else stutters.

**RingLife** (`RingLifeProofs`). `LifeStep` shows which calls may come next and what
is held at each of them. Theorems: `RingLeavesNothing` (`NothingLeftBehind`, for every
failure), `LifeHasARing` (a life is a behaviour of `ChunkRing`, so all of the above
holds between construction and destruction) and from it `LifeImplementsLog`.

**Loopback** (`LoopbackProofs`). `LoopIInv` is types, `PacketHeld` (the packet in
hand is the head of the endpoint, and `todo` is part of it) and `RoomInv` (a
surplus exists only once the window is full, and is part of that last packet).
Theorems: `LoopTypeCorrect`, `WindowsAreExact`, `ResamplerNeverDrifts`. The latter
is inductive by itself; the lemmas `OneMore` and `FrameIsKept` have its nonlinear steps,
a frame fed and a frame that makes no sample.

**Voxory** (`VoxoryProofs`). `MainUsesGet` shows that each behaviour of the program
is a behaviour of `Loopback`, so the theorems above hold inside it. `WindowInv`
(the saved overlap is always the newest stretch of samples) is kept by
`WindowJoins` and `TailIsRecent`; `TranscribedInv` (what was transcribed reaches
up to the next window) gives completeness. `BoundInv` (the overlap has grown by
one step per window since the last cut) bounds the windows by what the cut alone
allows; it rests on `NextRemainder`, on counting modulo `n_new_line`. Theorems: `WindowsAreSeamless`,
`WindowsAreBounded`, `AllIsTranscribed`, `KeepIsInside`. `HeldInv` says what main holds
by where it is (the model from its loading on, nothing of the device before `init` and
after the destructor, an exit code only on the way out), `ComInv` how often COM was
started and ended; `MainReleases` (`ReleasedAtExit`) follows, and with the other
invariants `MainTypeCorrect`.

**StaticArray** (`StaticArrayProofs`). An array that nobody shares can be written to
through another one only if that one's pointers lead to it: `AliasInv` says that
pointers that lead elsewhere lead to what took part in a copy by the compiler.
With `CellInv` (the cells of an array nobody shares are elements) and `WildInv` it is
inductive; `NewStep`, `DataStep` and `WildStep` carry the calls that construct, that
change cells, and that go wild, `TakenIsWhole` that moving out leaves elements.
Theorems: `ArraysTypeCorrect`, `ArraysOwnTheirElements` (`OwnsItsElements`), for any
number of arrays of any sizes, and `ArraysAreApart` (`KeptApart`): nobody else's
pointers lead to an array that is not shared (`OthersPointElsewhere`), so only a move
out of it takes its elements (`TakenElsewhere`); `CompilerShown` has the case of
`std::swap`, where cells and pointers change places and nothing shows.

**RingBuffer** (`RingBufferProofs`). That each constructed cell is where the fields say
is not inductive by itself, since a spoiled buffer may have any fields, be moved into
another, or be constructed anew. The invariant has two parts. `BuffersInv`: every buffer
is `Typed`, spoiled or not (its fields are of their kinds, and without cells it holds
nothing and points to the start); every other is `Tidy`; one that ran wild without being
spoiled has no capacity. `HistoryInv` types the rest. `Tidy` says where the
elements are by comparisons (`In`) instead of a remainder, and `Closed` lists the three
places where `_last` may stand; `CellsMet` shows once that these are the cells `_append`
meets. Per operation, one lemma says what it keeps of any buffer (`EmplaceTyped`,
`PopTyped`, ...) and one what it makes of a tidy one (`EmplaceUnusedOne`, `PopOne`,
`ReallocOne`, ...); the lemmas of the calls (`PushOverwriteStep`, `MoveAssignStep`, ...)
put these together for all buffers. Theorems: `BuffersInductive`, `BufferTypeCorrect`,
`ElementsWhereTheyAre` (`LiveExactly`), `StorageReplacedInOrder` (`ReplacedInOrder`),
`MovedFromHoldsNothing` (`MovedFromIsInert`), and `BufferIsAQueue`
(`FifoUntilSpoiled`), step by step the refinement of `BoundedFifo` by each buffer that
is not spoiled and has not run wild.

**HeapArray** (`HeapArrayProofs`). `IsArray` gives an array its shape over storage of its
capacity, `IsSound` says that its constructed cells are those before `_last`. Sound
arrays, the kind of element and the last call are inductive together with
`LiveExactly`, which names the calls after which an array is not sound. One lemma per
call (`ReserveIsFine`, `ResizeBeyondIsFine`, `AssignInPlaceIsFine`, ...) proves for all
sixteen kinds of element what the invariant and the action properties need of it.
Theorems: `ArraysInductive`, `HeapArraysTypeCorrect`, `LiveCellsExact`,
`LeaksNowhereElse` (`LeaksOnlyThere`), `ThrowLeavesOldIntact` (`OldLeftIntact`),
`ElementsAlwaysArrive` (`ElementsArrive`), and `ArraysAreSequences` (`IsASequence`), the
refinement of `ElementSequences`. Each lemma of a call names the abstract action its
step is (`ShownStep`); `OneShown` and `TwoShown` say that a call that writes one or two
arrays changes what these show and nothing else, and `ConstructShown`, `MoveShown`,
`PutShown`, `ResizeShown`, ... what storage made or changed in that way shows.

**DebugIterators** (`DebugIteratorsProofs`). `LockHasOneHolder`: mutual exclusion
and that the flag is set exactly while somebody holds the lock, for any number of
threads, with moves of containers that have iterators included. `MutexInv` adds
that a thread's job fits its place (`CallsAreTyped`): without it the lock a thread
gives back need not be the one it took, since a move assignment changes from the
lock of its target to that of its source. Three lemmas, `HolderKept`,
`HolderAdded` and `HolderGone`, carry all the steps.

The other theorems assume `~FreeMoves`: what a move assignment from a container with
live iterators breaks is no theorem (section 6); its target may have any.
`RegistrationInv` is the invariant:

- `Lists(S, K)`: there are sequences of nodes `S`, one per container, such that each list
  is the `Chain` of its sequence and no node is in two of them; from position `K[c]` on,
  the nodes are those of exactly the iterators that believe they are registered
  (`Registered`), and `K[c]` is 1 unless a thread is detaching `c`'s list, whose walk
  stands there; the walk of `_invalidate_range` stands at some node (`Cursors`).
- `CallsInv`: what a call may rely on (its iterator is alive and its own; nobody
  registers with a container while somebody changes it; what is moved from has no
  iterators).
- `Versions` and `Seen`: a version counts moves, and one that a call has looked at is
  still the container's, or the call is `Detached`: it destroys an iterator that was
  taken off already. This is what a release of the target's old iterators becomes when
  `_release_proxy` overtakes it.
- `ClearedEmpty`: the list of a container that a thread has cleared stays empty until the
  move assignment, if it is one, replaces it. `MoveProxies` holds the lock of its source
  only, and needs this to drop no node.

Quantifying over the sequences makes every step an operation on sequences: `EmplaceChain`
appends a node, `PopChain` takes one out of the middle and mends its neighbours,
`DetachLists` advances `K`. The code's own notion, a walk along `_next`, enters only at
the end: `ChainIsWellFormed` derives `WellFormed` and `Members` from a chain, through
`WalkIsUnique`, which needs induction and gets it as the least position where two walks
differ (`LeastNumber`). Mutual exclusion is what keeps two calls from changing one list at
a time (`HolderIsAlone`), and the look at `_proxy` under the lock is what makes
`ReleaseLists` true. Theorems: `RegistrationInductive`, `RegistrationTypeCorrect` (`TypeOK`,
with the size of a list within the nodes there are, `ChainFits`), `ListsRegisterExactly`
(`RegisteredExactly`), `NothingFreedIsUsed` (`NoUseAfterFree`), `AlarmIsFalse`
(`StaleVersionIsHarmless`): what the assertion reports has nothing left to do, which a
build without it relies on; and `ClearedContainersUnused` (`ClearedIsUnused`). For
`ClearedEmpty` the thread that cleared the list adds nothing (`OwnCleared`), and nobody
else changes that container meanwhile, a release included, which finds nobody registered
there (`OthersCleared`, from `ClearedIsApart` and `EmptyIsUnused`).

**Model-checked only.** Liveness (`EveryChunkSettles`, `DrainsAfterStop`,
`FailureEndsRun`, `CollectEnds`): fairness and ENABLED are out of the prover's
reach, and so is what a recursive definition computes for every input. The violated
properties of section 6 are shown by counterexamples. Every invariant and action property
of the passing runs is stated by a theorem.

## 5. What is not modelled

- whisper.cpp and its ggml (`dependencies/whisper`) are a vendored library of some
  200 000 lines that this repository calls through three functions; it is most of
  the repository by size and not part of the program's own logic, so only what `main`
  sees of it is modelled. The program's own code is modelled as listed in section 2.
- `ChunkRing`: memory orders weaker than interleaving. `TryVirtualLock` leaves the
  privilege and the larger working set in place; the process's state is not modelled.
- `Loopback`: sample values, channels mixing, the double's rounding,
  overflow of 32-bit counts (a window is 240 000 samples); frames the engine drops
  because nobody reads, as in an inference of more than a second.
- `ring_buffer`: its copy constructor, copy assignment and the move assignment between
  unequal allocators cannot be instantiated: `_fill_uninitialized_from_ring` is given
  two arguments where it takes three (`:63`), `_assign` is given a type (`:93`),
  `_assign_move` is not defined (`:128`). With them lines 573-897 are unreachable.
  `swap` has an empty body (`:403`); the span functions are only declared.
- `list`: copying and element-wise assignment, which the program does not use.
- Debug iterators: `_swap_proxies`, `_copy_proxy` and the move constructor of
  `container_base_dbg`, which no container calls; the destruction of a container, which
  runs `_cleanup` too (`heap_array.h:243-245`) while an iterator that is being destroyed
  may wait for the lock that dies with it: containers live for ever here. `spin_lock`:
  copying.
- `heap_array` and `ring_buffer`: an allocation that fails. Calls allocate before they
  change anything, except the assignment from an empty `heap_array` of another capacity,
  which gives the target's storage back first (`:642-643`); a failure then leaves it
  without storage.
- `static_array`'s iterators, which only read; the test framework and the audio
  interfaces: see section 1.

## 6. Where the code and its words disagree

Each of these has a run that shows it (`PROJECT.json`, "findings"):

1. `chunk_buffer.h:86` says the popped pointer is valid until `write_index` has
   advanced enough. The producer may have decided to drop that slot, and be copying
   into it, before the consumer's claim. What does hold is `LapCheck`: samples
   read before `write_index` reaches `cr + Slots` are those of chunk `cr`, so a
   caller that compares afterwards can tell.
2. `main.cpp:193`: a silent packet becomes one zero per device frame, unresampled.
   At 48 kHz silence runs three times too long.
3. `ring_buffer.h:527`: `_reallocate` leaves `_size` at zero.
4. `containers_dbg.cpp:28-31`: the version is read before the lock is waited for,
   so a concurrent move assignment aborts the program. It is enough that a thread
   destroys an iterator of the target. `StaleVersionIsHarmless` says that nothing is wrong
   then: `_release_proxy` has taken the iterator off, and the look at `_proxy` under the
   lock (`:73`) finds it.
5. `heap_array.h:527`: the tag is compared with its reference type, so a copy
   assignment that allocates moves its source's elements.

Noticed while modelling, without a run of their own:

- `read_index` is not monotonic: the consumer's store may undo a drop
  (`chunk_buffer.h:98`), after which a chunk is handed out again.
- Whenever a step fits into the window length, the overlap is taken whole: the
  cut every `n_new_line` windows (`main.cpp:375`) keeps a window within
  `n_samples_keep` and `n_new_line` steps (`WindowBounded`), so the clamp to the
  window length (`:336`) never takes effect.
- One sample at most is made of each frame (`main.cpp:274`), so of a device slower than
  16 kHz `get` makes as many samples as frames, the output falls behind and `acc` grows
  without end, by the whole shortfall: `ResamplerExact` accounts for it. `OutputTracksTime`
  fails there without any silence, too (the cfg of `loopback_silent` with
  `DeviceRates = {1}` and `Silence = {FALSE}`).
- `main.cpp:118` calls one second of endpoint buffer safe; nothing reads it during
  `whisper_full`, and `get` does not look at the discontinuity flag.
- The model is not freed when the device cannot be opened or started
  (`main.cpp:313-320`), and `CoUninitialize` is called although `CoInitializeEx` may have
  failed (`:77, :87`): `ReleasedAtExit` says when, and that nothing else is kept.
- `VirtualAlloc.h:63, 106-107` speaks of best effort and of memory that "will NOT be
  locked"; the constructor throws then (`chunk_buffer.h:34-38`), with an error code
  read after the logging.
- Pushing to a `ring_buffer` of capacity 0 that may overwrite writes through null, and
  so does filling one that was moved from: it keeps its `_capacity`
  (`ring_buffer.h:70-71`, `998-1009`). The target of a move assignment does not get the
  source's. If a copy throws after the turn of a buffer that goes round its end, the
  copies made before the turn are not destroyed (`:566-568`). `try_pop_front` loses the
  element when the move into the result throws (`:242-256`).
- `static_array`: an assignment from a smaller array reads past its end, and the branch
  for that case does what the other does (`:276-302`); the implicit copies share cells
  and destroy them twice; the test of `std::swap` (`static_array_test.cpp:142-143`) asserts
  that the values did not change places, and the shared pointers make it pass; the
  const `operator[]` asserts the opposite of its range check (`:313`).
- `list`: the copy and move constructors count the elements twice (`list.h:210-220`),
  the assignment of a shorter list leaves stale pointers (`:432`), and `ListIterator::unwrap` calls itself
  (`:167`).
- `heap_array`'s copy constructor is `noexcept` whatever its elements do. Assigning
  an empty array leaves the target's elements or frees them undestroyed
  (`:635-645`). A `resize` that throws out of new storage leaks what it had put
  there (`:447-478`). `assign_helper` destroys elements the container destroys again
  (`containers_internal.h:99`): `LiveExactly` and `LeaksOnlyThere` name these cases
  and say there are no others.
- After a move assignment an iterator still points to its old container: its
  destruction unlinks its node under the wrong lock and from the wrong list
  (`containers_dbg.cpp:19-25, 69-79`), which leaves a freed node in the new owner's
  list. `NoUseAfterFree` therefore holds only as long as nothing is move-assigned from a
  container with live iterators (`FreeMoves = FALSE`); nothing in the repository says
  what should become of them.

## 7. Plan

Done: all modules of section 2 with their runs, and a theorem for every invariant and
action property that the runs check.

There is no abstract set of registrations for `DebugIterators`: while a container is
being detached, an iterator whose node is still in its list may already have been
registered elsewhere, so the lists are not disjoint sets of iterators at every step,
and moves that keep the invariant carry none. What such a specification would promise
is said by `RegisteredExactly`, whenever a lock is free, and by `ClearedIsUnused`.

Left to prove: that what `Voxory` transcribes, with its overlaps cut off, is the
captured stream, as one statement about the whole run; `WindowsAreSeamless` and
`AllIsTranscribed` say it window by window.
