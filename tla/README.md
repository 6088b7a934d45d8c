# A TLA+ model of file-signature

file-signature reads a file in chunks, hashes the chunks on several threads and
writes the list of hashes ("the signature") in file order.  This directory models
the program and its library from the arguments to the checker of signatures, checks
the models with TLC on small instances, and proves with TLAPS, for any number of threads
and any file, their safety: that of the monitor, of the pipeline, of both readers, of
pipeline and stream reader together, of the program from its arguments to its exit, of the
owning handles, of the task pool and of the checker.

Paths below are relative to the repository.  All line numbers refer to the sources
as they stand beside this directory.

## The system

```
 main.cpp  --setRecordsCallback / wait / cancel / ~-->  SigPipeline
                                                         |  N hasherThreads
              FileStreamChunkReader  <--getNextChunk/free-+--pushRecord--> SigRecords
              FileMappingChunkReader     (ChunkReader)                       |
                     |                                                       |
                 the file            callback(record) or wait(timeout, record)
```

| component | state | operations | what is hard | what makes it correct |
|---|---|---|---|---|
| `SigRecords` (`file_sig_lib/SigRecords.hpp`) | records by offset, next offset, stored exception, callback, cleaned, freezed; one mutex, one condition variable | `pushRecord`, `tryPopRecord`, `waitForResult`, `setOnRecordCallback`, `setException`, `setCleanup`, `setFreez`, `checkException` | records come in any order; the callback runs under the mutex and may throw; two kinds of waiters share one condition variable and one `notify_one`; timed waits | file order without gap or repetition; nothing after a cancellation or after "finished"; every wait is woken by what answers it |
| `SigPipeline` (`SigPipeline.cpp`) | `m_activeThreads`, the futures of the threads; each thread has a chunk and a record | `hasherThread`, `setRecordsCallback`, both `wait`, `cancel`, the destructor | the last thread to leave, and only it, freezes the records, also after failures and cancellations; a failure of one thread while the others go on | "finished" only for a complete signature; no chunk lost between reader and user; nothing runs after a join; it always ends |
| `ChunkReader` and its `Chunk` handle (`ChunkReader.cpp`) | the handle: reader, data, size, offset | `getNextChunk`, `free`, move assignment, destructor | the old chunk is freed only when the next one is assigned | each chunk is handed out once and given back once |
| `FileStreamChunkReader` (`FileStreamChunkReader.cpp`) | a fixed set of buffers in three lists (ready, busy, free), eof, stopped, exception; a reader thread; two condition variables | `readerThread`, `getChunk`, `freeChunk`, `stop`, the destructor | read-ahead with few buffers; the end of the file at a chunk boundary; the exception that one caller takes; `stop` against callers that sleep | no buffer lost, doubled or overwritten while looked at; every `getChunk` returns; it implements `ChunkReader` |
| `FileMappingChunkReader` (POSIX and Windows) | file position under a mutex | `getChunk`, `freeChunk` | `mmap` fails after the position was advanced; mapping an empty file | as `ChunkReader` |
| the program (`file_signature/main.cpp`) | the output file, count and offset of the callback | argument parsing, choice of reader, hasher and number of threads, two output loops | cancellation by a key; unwinding when `wait` throws while hashers still run the callback | the file holds a prefix of the signature, all of it when the program says so |
| `TaskPool` (`utils/TaskPool.cpp`; the program does not use it) | queue, stopped, threads | `push`, `stop`, the destructor | notifies after the unlock; stops that overlap | an accepted task runs once, unless the queue is canceled; the destructor waits for the threads |
| `toUnsigned`, `ScopedHandle` (`utils/`) | - / a handle | conversion / reset, release, move | `stoull` accepts a minus sign and wraps / assignment over a live object or onto itself | a chunk size in range and not 0 / closed once |
| `check-sigfile.py` | the header's fields, the file | `getHeader`, `checkFile` | an empty file, a truncated or torn signature, a changed file | accepts what has not changed, and refuses only with a cause |
| hash functions, `Conio.hpp`, `Exceptions.hpp`, project files | - | - | - | - |

The threads meet at two monitors.  The hashers pull chunks from the reader's monitor
and push records into that of `SigRecords`; a user's thread waits on the latter.  No
thread holds both mutexes at once.  The one callback, which the user installs, runs on
whichever hasher thread delivers, or on the user's own thread inside
`setOnRecordCallback`, always under the mutex of `SigRecords`.

The hazards that follow from this - the orders, races, failures and boundaries at
which this code could go wrong and a test would hardly look - are listed with their
lines and with the properties that cover them in `PROJECT.json`.

## Modules

| module | what it is |
|---|---|
| `Chunks` | how a file is cut: `SizeAt` (the `std::min` of the readers), `ChunkAt`, `Region`. A chunk, and the record made of it, is the region `[offset, size]` it stands for; bytes and hash values are not modelled |
| `SigRecords` | the monitor, one action per critical section; also usable alone (`RecordsSpec`) |
| `ChunkReader` | abstract: what `getNextChunk` and `free` promise to hashers, for all readers |
| `SigPipeline` | extends `SigRecords`, uses `ChunkReader` through `INSTANCE`, and adds the hasher threads, `cancel` and the destructor |
| `Signature` | abstract: what the program promises - the list of records grows by the next chunk until it is finished, canceled or failed |
| `FileStreamChunkReader` | the stream reader with its buffers, its thread, its callers and its owners; implements `ChunkReader` |
| `StreamPipeline` | `SigPipeline` composed with `FileStreamChunkReader`: each step of a hasher on a chunk is a step of both; down to the destruction of both |
| `FileMappingChunkReader` | the mapping reader, both builds, with and without mapall, from the constructor to the destructor; implements `ChunkReader` |
| `FileSignature` | extends `SigPipeline` with `main` from the opening of the output file on: both loops, the key, the output stream, the order in which the scope is left |
| `Arguments` | `main` up to its loops: the arguments one at a time, the defaults, hasher, reader, number of threads and buffers, the output file and its header |
| `Handles` | `ChunkReader::Chunk` and `ScopedHandle`: every operation that moves or gives up what they own |
| `TaskPool` | the task pool |
| `CheckSigFile` | `check-sigfile.py` on what `main`, of either build, wrote of a file |
| `SigPipelineProofs` | the theorems about `SigRecords` and `SigPipeline` |
| `FileSignatureProofs`, `FileStreamProofs`, `StreamPipelineProofs`, `FileMappingProofs`, `HandlesProofs`, `TaskPoolProofs` | the theorems about each |
| `ProgramProofs` | the theorems about the two ends, `Arguments` and `CheckSigFile` |
| `MC*` | instances for TLC, with their symmetry sets |

`SigPipeline` is the middle: `FileSignature` puts the program on top of it,
`StreamPipeline` a concrete reader under it, and the two readers are shown to implement
the `ChunkReader` it uses.

How state and actions correspond to the code, beyond "a variable has the name of the
member it models":

- **Mutexes.**  A critical section without a wait inside is one action.  In
  `SigRecords` the loop `while (tryPopNextRecord(...)) m_onHashRecord(...)` runs user
  code under the mutex, so it is several steps and the mutex is the variable
  `m_mutex`; every other action asks for `Unlocked`.  In `FileStreamChunkReader` no
  critical section spans two steps, so there is no such variable.
- **Condition variables.**  `wait`/`wait_until` is split where it releases the mutex.
  A waiter is `"blocked"`, then `"woken"` by a notify or by nothing at all (a spurious
  wakeup is an action), and tests again.  `notify_one` wakes any one waiter.  In a
  timed wait the deadline may pass before the mutex is taken again
  (`Expire`): the waiter is then `"expired"` and its call returns `timeout`, as
  `SigRecords.hpp:165-170` and `223-233` do, without another look.
- **`m_activeThreads--`** is atomic and yields the value before: `Exit` decides,
  `Freeze` is a later step.
- **Exceptions.**  `ReadFaults` and `HashFaults` say which of the reader's thread, a
  reader's call, the hash function and the callback may throw; each then may throw at
  any of its calls.  `pc = "catch"` is the time between the throw and
  `setException`.
- **Histories**, variables that the code does not have and no guard reads: `emitted`
  (what has been handed out, through callback or pop; `FileSignature` takes from it the
  record that `wait` has just returned), `canceled`, `thrown` and `closeFailed` in `FileSignature`,
  `ended` in `FileMappingChunkReader`, `executed` and `dropped` in `TaskPool`, `closed`
  in `Handles`.
- **The reader in `SigPipeline`** is one atomic step per `getNextChunk`, with the
  outcomes of `ChunkReader`: a chunk, the end, an exception of the reader's thread
  (one caller gets it, the others see the end), or an exception that loses the chunk
  already claimed (a failing `mmap`).  That the real readers do no more than this is
  what `ImplementsReader` says of each.  Of the stream reader it allows two steps beyond
  `ChunkReader`, which does not know `stop` (the program calls it only from the
  destructor): the critical section of an owner's `stop` or destructor, after which callers
  are told of the end (`OwnerStops`), and a failure of the reader thread that it stores
  once the reader is stopped (`LateFailure`).
- **`StreamPipeline`** has the variables of both components; those of the abstract
  reader are set by `View` to what the concrete one looks like and are read by no step,
  so that every step can be compared with `SigPipeline!Next`.  A hasher is at `"hash"` as soon as
  `getChunk` has taken its buffer.  The guard "nobody uses the reader" is dropped
  there: that it is true when `main` destroys the reader is `ReaderUnused`.
- **Owners.**  The user destroys a pipeline when no call of it is running, and a
  reader when no chunk is out; the code requires both, and both are guards of the
  components taken alone.
- **`FileSignature`**: `mpc` is where `main` is, and every step that delivers a record
  to the callback is also the line written to `out`.  `buffer` is what the `ofstream` has accepted and
  not yet written: a step may write it out or keep it, and a failing write leaves the
  stream bad.  The last write, in `~ofstream`, may also fail: then any number of the
  buffer's lines is in the file, and nobody is told.  What a write to a destroyed stream does is undefined; in the model it
  writes nothing, with or without an exception.
- **`Arguments`**: one step per argument; integers have the widths `Max32` and `Max64`,
  and `Wrapped` is what `stoull` does with a minus sign.  `cores` is
  `hardware_concurrency()`, 0 included; the products of `getWorkerThreads` and
  `createReader` wrap in 32 bits.  After `Start` the threads run; the output file and its
  header may still fail.
- **`FileMappingChunkReader`**: what the constructor has opened is `resources`; the
  destructor, and the unwinding of a constructor that throws, walk over the `Members` of
  `Impl` that own something, in the order in which the build destroys them; a resource
  without a member would stay open.  `views` are the regions mapped one by one.
  Whether the system will refuse a mapping is chosen when the chunk is claimed.
- **`TaskPool`**: one action per critical section, and one per notify, as both notifies
  come after the unlock.  Each task has a thread of its own that pushes it; a
  stopper may call `stop` again and again.  Two stops that move `m_threads` at the same
  time race for the futures (`Race`); what happens to them then is undefined.
- **`Handles`**: `held` is what an object owns, `closed` how often `freeChunk` or the
  handle's `FreeFn` was called for a resource.
- **`CheckSigFile`**: the signature is that of `original`, cut after `kept` lines, the
  last possibly torn; the checker reads it beside the file as it is `now`.  A `"\r\n"` of
  `main` is one line end in the POSIX build; in the Windows build, where the stream is in
  text mode, it is two, so that an empty line follows each line.  The hash of
  a region is the region's content.
- **Mutants.**  An operator named `X_Something` just before `X` is `X` with a plausible
  mistake.  No specification uses it; it is there to be put in the place of `X`, which
  makes the property that `PROJECT.json` names beside it fail.

## What TLC checks

| run | instance | shows |
|---|---|---|
| `sig_records` | 5 bytes in chunks of 2, one pusher, two clients | The monitor under every use its interface allows, pops mixed with a callback included: `InOrder`; `QuietAfterCleanup`; `FinishedIsFinal`; every call returns (`CallsReturn`), also when a callback throws inside the loop that holds the mutex |
| `sig_pipeline` | 5 bytes in chunks of 2, two hashers, one client, all faults | `NothingLost`: what is read and not yet handed out always tiles the file; `FinishedMeansComplete`; `FailureStays`: no failure of a hasher, a callback that throws included, is forgotten; `FreezeIsLast`; `NoMissedWakeup`; `QuietAfterJoin`; `ImplementsSignature`, the refinement of `Signature`; and under fairness `EventuallyFrozen`, `EventuallyDelivered`, `JoinsReturn` |
| `file_stream` | 6 bytes in chunks of 2, three buffers, two callers that may hold a chunk while they ask for the next, an owner that calls `stop` in both forms and destroys | `BuffersKept` (the "must never throw" of `freeChunk`); `BusyStable`; `ImplementsReader`; `GetReturns`, `DestroyReturns` |
| `stream_pipeline` | 3 bytes in chunks of 2, one buffer, two hashers, one client, all faults | `ImplementsPipeline`: with the stream reader in it the pipeline takes no step that it does not take with the abstract reader; `ReaderUnused`; `EverythingEnds`: no deadlock across the two monitors |
| `file_signature` | 5 bytes in chunks of 2, two hashers, both modes, all faults, output that fails to open or to write | `FileIsPrefix`; `ExitZeroIsRight`: an exit code of 0 swallows no exception, and without a key it means the complete signature in the file, unless the write of `~ofstream` has failed; `Terminates` |
| `file_mapping` | 10 bytes in chunks of 3, granularity 2, three callers, both builds, mapall or not, any call refused | `ChunksMapped`; `NothingLeftOpen`: whatever step the constructor fails at, and after the destructor, no resource is open; `ImplementsReader` |
| `handles` | four objects, four resources, both classes | `ClosedOnce` |
| `task_pool` | two workers, three tasks, two stoppers | `TasksKept`; `ThreadsJoined`; `TasksRun`; `StopsReturn` |
| `arguments` | up to six arguments, integers of 4 and 6 bits, 0, 1, 2, 6 and 8 cores | `StartedSound` |
| `check_sigfile` | every pair of files of up to 5 bytes (two values), every beginning of the signature, the line ends of both builds | `AcceptsUnchanged`; `RefusesForCause`: none of the POSIX build is refused without a cause, none of the Windows build is accepted |

Two runs end in a counterexample; each shows that the code does not do what one of
its own comments says:

| run | comment | what the code does |
|---|---|---|
| `signature_unwind` | "it is just a sample how to use SigPipeline::wait funstion without a record parameter and the records callback" (`main.cpp:303-305`) | `count`, `offset` and `out`, which the callback refers to, are declared after the pipeline and destroyed before it.  When `wait` throws, or the callback does inside `setRecordsCallback`, hashers that are still running deliver records to the callback after that |
| `stream_no_buffer` | "each worker thread has one cached value and one current value" (`main.cpp:187`) | where `hardware_concurrency()` is 0 the reader gets no buffer but the pipeline one thread, and both wait for ever |

Other places where the code does not do what a comment or a reader may expect, seen
while modelling.  The models contain the behaviour; no run is about it, because the program does not
depend on it, or because nothing in the repository says otherwise:

- `tryPopRecord` returns `timeout` - "timeout, a record is not ready"
  (`SigRecords.hpp:57`) - although a record may have come between the deadline and the return of
  `wait_until` (`:167`).  The loops of `main` call again.
- With one client in `waitForResult` and one in `tryPopRecord`, `notify_one`
  (`SigRecords.hpp:120`) may wake the one that cannot use the record; the other sleeps
  until its timeout, against "wait for a new ready record or timeout" (`:27`).
  `NoMissedWakeup` is therefore about one client.
- `stop` is to "notify all threads that wait for a new data that it is finished"
  (`FileStreamChunkReader.cpp:61`) but notifies `m_freeCv` only: a caller asleep in
  `getChunk` may sleep for ever.  `GetReturns` leaves out a `stop` meanwhile.
- A second `stop(true)`, or the destructor after one, uses a future whose state
  `get()` has taken (`FileStreamChunkReader.cpp:70-74`), which is undefined.  The
  model ends there; `DestroyReturns` is about a destructor that finds the state.
- `~ofstream` swallows a failure of its last write (`main.cpp:341`), as `main` neither
  flushes nor closes the stream: lines may be missing with an exit code of 0.
  `ExitZeroIsRight` says that this is the only way in which they can be.
- `main` ends its lines with `"\r\n"` (`main.cpp:254-256`, `292`, `312`) in a stream that is
  not opened with `ios::binary` (`:252`).  The Windows library writes `"\r\r\n"`, of which
  Python makes two line ends; `getHeader` ends at the empty line after the first one
  (`check-sigfile.py:25`, `40-42`), so that `check-sigfile.py` refuses every signature that the
  Windows build has written.  `RefusesForCause` says so.
- A start that fails before `main.cpp:252` leaves an old signature alone; one that fails in
  the lines of the header, after it, has truncated it.
- `3 * hardware_concurrency()` and `getWorkerThreads() * 2` are computed in `uint32_t`
  (`main.cpp:160`, `189`) and wrap for absurd numbers of cores; `StartedSound` asks for all
  cores and for two buffers a thread only where they do not.
- The warning about an unaligned chunk size speaks of the page size
  (`main.cpp:128-130`); on Windows offsets must be multiples of 64 KB
  (`FileMappingChunkReaderWindows.cpp:94`).
- Of two synchronous `TaskPool` stops at once one finds no threads to wait for and
  returns early, or the two race for them, as no mutex is held (`TaskPool.cpp:124-127`);
  `ThreadsJoined` says what is left.
- `toUnsigned` accepts a negative number that wraps into range (`Utils.hpp:26-30`).
- `check-sigfile.py:73` says "File is ok" of a signature that misses lines at its end.
  `AcceptsUnchanged` is about the bytes that it covers.

### Bounds, and why they are enough

- **Two hashers and three chunks** (2 + 2 + 1 bytes): two records can be out of order
  with a third behind them, one hasher can fail, sleep or be last while the other goes
  on, and the odd chunk at the end makes `size` differ from `ChunkSize`.  What more
  hashers or chunks could do to the safety properties is covered by the proofs.
- **One client for `SigPipeline`, two for `SigRecords`**: the program has one.  Two
  are needed for what clients do to each other, which happens inside the monitor.
- **Three buffers, two callers** of the stream reader: at every moment each of the
  three lists, the reader thread and a handle that is being assigned can hold one, and
  the reader still has to wait when both callers hold a chunk and ask for another.  Six
  bytes end on a chunk boundary, so the last read is empty.  Again the proofs cover the
  rest.
- **One buffer, two hashers, 2 + 1 bytes** in the composition: one hasher always waits
  for the buffer that the other one or the reader thread has, the hardest case for a
  deadlock, and the short last chunk is the other end of a file.
- **Three callers, granularity 2, chunk size 3** of the mapping reader: every second
  chunk is not aligned; two callers map while a third claims.
- **Two workers, three tasks, two stoppers** of the pool: one worker can run while the
  other sleeps with a task left over, and one stop can overtake another.
- **Six arguments**: each option, and one of them twice.  The numbers are those around
  the ends of both widths; 6 and 8 cores are those whose triple and double wrap.
- **Five bytes** for the checker: two full records and a short one; the two byte values
  tell a changed byte from an unchanged one.
- No other bound: the specifications have no counter that grows (a client may call
  for ever, the file ends), but for `executed` and `closed`, which the properties keep at 1.
- Symmetry is used where no liveness is checked (`file_mapping`, `handles`,
  `check_sigfile`) and nowhere else.

### Fairness

Every thread that is inside the code is scheduled: weak fairness of each hasher's
step, of each call in progress, of the reader thread, of each join.  Weak fairness is
enough because a notify turns a sleeper into one that can go on for good, and a mutex
held during a callback is released in the end.  `Expire` is fair because every
`wait_until` has a deadline.  Not assumed: that a user ever calls anything, that a
fault or a spurious wakeup happens.  In `FileStreamChunkReader` a caller gives its chunk
back in the end (`chunk.free()`, `SigPipeline.cpp:78`) unless it is one that
keeps it (`KeepsChunk`).  `std::mutex` is not a fair lock, so no strong fairness for a
thread that waits for it is assumed; what is checked does not need it.  In
`StreamPipeline` a client that has destroyed the pipeline destroys the reader; in
`FileSignature` `main` is one fair thread, since all of its choices are answers to what
it is given, and nobody has to press a key; in `TaskPool` workers, notifies and the
steps of a `stop` in progress are fair, and tasks end.

`EventuallyDelivered` leaves out a client that has been told of an exception: one
thrown inside its own `setOnRecordCallback` is not stored in `m_exception`, and the
records behind it stay until another push (`SigRecords.hpp:257-259`).  `Terminates` shows
that the program ends all the same.

## What is proved

`SigPipelineProofs` proves of `SigRecords` used alone, by any number of pushers and clients
that call it in any order:

| theorem | says |
|---|---|
| `InOrderAlone` | `InOrder` |
| `QuietAlone` | `QuietAfterCleanup` |
| `FinishedIsFinalAlone` | `FinishedIsFinal` |

and of `SigPipeline`, for every `FileSize`, `ChunkSize`, finite non-empty set of
`Hashers`, set of `Clients` and choice of faults:

| theorem | says |
|---|---|
| `InductiveInvariant` | `Spec => []IInv` |
| `TypeCorrect` | `TypeOK`; so the unsigned `m_activeThreads` never wraps |
| `RecordsInOrder` | `InOrder` |
| `NoChunkLost` | `NothingLost` |
| `FinishedIsComplete` | `FinishedMeansComplete` |
| `FailuresStay` | `FailureStays` |
| `LastHasherFreezes` | `FreezeIsLast` |
| `NothingAfterCancel` | `QuietAfterCleanup` |
| `NothingAfterJoin` | `QuietAfterJoin` |
| `Refinement` | `Spec => ImplementsSignature`: the refinement of `Signature` |
| `OneClientIsWoken` | `NoMissedWakeup`, for one client |

`FileSignatureProofs` proves of `FileSignature`, in both modes, for every file, set of
hashers, and choice of faults and of failing output:

| theorem | says |
|---|---|
| `OutputIsPrefix` | `FileIsPrefix` |
| `ExitCodeIsRight` | `ExitZeroIsRight` |
| `MainIsWoken` | `NoMissedWakeup` |

`FileStreamProofs` proves of `FileStreamChunkReader`, for every `FileSize`, `ChunkSize`, set of `Buffers`
(also none), `Callers` and `Owners`, whether callers keep chunks or not, however often
and however `stop` is called:

| theorem | says |
|---|---|
| `StreamTypeCorrect` | `TypeOK` |
| `StreamBuffersKept` | `BuffersKept`: `freeChunk` finds what it is given |
| `StreamBusyStable` | `BusyStable`: what a hasher reads does not change |
| `StreamImplementsReader` | `ImplementsReader`: the refinement of `ChunkReader` |

`StreamPipelineProofs` proves of `StreamPipeline`, for every file, set of hashers, clients
and buffers, and choice of faults:

| theorem | says |
|---|---|
| `StreamImplementsPipeline` | `ImplementsPipeline`: the refinement of `SigPipeline` with the abstract reader |
| `StreamPipelineComplete` | so `NothingLost`, `FinishedMeansComplete`, `InOrder`, `FreezeIsLast` |
| `ReaderIsUnused` | `ReaderUnused`: the reader is destroyed under nobody |
| `StreamPipelineBusyStable` | `BusyStable` of the reader, for the hashers that call it |
| `StreamClientIsWoken` | `NoMissedWakeup`, for one client |

`FileMappingProofs` proves of `FileMappingChunkReader`, for every `FileSize`, `ChunkSize`,
granularity and set of `Callers`, both builds, with mapall or not, whatever the system refuses:

| theorem | says |
|---|---|
| `MappingTypeCorrect` | `TypeOK` |
| `MappingChunksMapped` | `ChunksMapped` |
| `MappingNothingLeftOpen` | `NothingLeftOpen` |
| `MappingImplementsReader` | `ImplementsReader`: the refinement of `ChunkReader` |

`TaskPoolProofs` proves of `TaskPool`, for any finite `Workers` and `Tasks` and any `Stoppers`:

| theorem | says |
|---|---|
| `PoolTypeCorrect` | `TypeOK` |
| `PoolTasksKept` | `TasksKept` |
| `PoolThreadsJoined` | `ThreadsJoined` |

`HandlesProofs` proves `HandlesClosedOnce` of `Handles` for any number of objects and
resources.

`ProgramProofs` proves of `Arguments`, for all names, numbers, widths of the two integer
types and numbers of cores, and of `CheckSigFile`, for any two files and any chunk size but 0:

| theorem | says |
|---|---|
| `ProgramStartsSound` | `StartedSound` |
| `CheckerAccepts` | `AcceptsUnchanged` |
| `CheckerRefuses` | `RefusesForCause` |

The assumptions are the named ones of the modules: `FileAssumption` (sizes are
naturals, chunks not empty: `main.cpp:116` replaces 0, which `StartedSound` checks),
`ThreadAssumption` (threads are distinct), `PipelineAssumption`, `ProgramAssumption`
(`main` is the only client), `StreamAssumption` (the empty handle is no buffer),
`BuffersAssumption` (nor is it one in the composition), `MappingAssumption`,
`HandleAssumption`, `PoolAssumption`, `ArgumentsAssumption` (`uint32_t` is not wider
than `unsigned long long`, the default chunk size fits and is not 0) and
`CheckAssumption` (again, chunks are not empty).  TLC evaluates them in every run.

**The argument for the monitor.**  Every step changes the store in one of four ways
(`StoreChange`): not at all, by one pop, by one insertion, by the cleanup.  A pop takes the
record at `m_offset`, hence `InOrder`; a cleaned store stays empty (`CleanedInv`), so
nothing is popped; and when "finished" has been answered the store is frozen and has
nothing next (`FinishInv`), and a frozen store takes no insertion that could change that.

**The argument for the pipeline.**  None of the properties is inductive alone.  "Finished" is right
because the store is empty *and* nobody is about to push *and* nothing was dropped on
the way; each of these is about another part of the state.  `IInv` joins them:

- `CountInv`: `m_activeThreads` is the number of threads before their decrement, a
  thread in `"freeze"` is the only one left, and the store is frozen exactly when all
  are done.  So whoever reads 1 from `m_activeThreads--` is last.
- `PlaceInv`: the pending chunks - in a hand, or in the store - were each cut
  at their offset, lie between `m_offset` and the read position, do not overlap, and
  are in one place only.  So a push never meets a record of its offset, for which
  `std::set::insert` would do nothing.
- `EndInv`: reading ends at the end of the file or with a failure on its way, and a
  thread leaves only for a reason.
- `CleanInv`, `JoinInv`: a cleaned store stays empty; whoever has joined
  has joined all.
- `FinishedInv`: once somebody has been told "finished", every thread is done and the end of
  the file has been read, so that no later step can fail.
- `NothingLost`: unless something failed or was canceled, the pending chunks tile the
  file from `m_offset` to the read position.  When all threads are done and the store
  is empty, this tiling is empty, so `m_offset` is the read position, which is the end
  of the file by `EndInv`: hence `FinishedMeansComplete`.

For `NoMissedWakeup`, `WakeInv` says of a sleeper that the store holds none of its
answers.  What brings one wakes it, and with one client no other can take the
wakeup of a `notify_one`.  Only a record may be next while the client sleeps: inside
the callback loop, with the mutex held, or after that loop was left by an exception, whose
catch block wakes everybody.

For the refinement, `IInv` gives that a pop appends the chunk at `Covered`, that an
exception is never stored after "finished", and that the freeze finishes exactly a
complete signature.

**The argument for the program.**  Every step of the program is a step of `SigPipeline` or
leaves it alone (`StepsOfPipeline`), so `IInv` holds in it too.  On top of it:

- `ControlInv`: where `main` is goes with its state inside the pipeline and with that of
  the stream, and only without `--verbose` is there a callback.  So never do both modes
  hand out records.
- `LinesInv`: while the stream is good it has accepted all that was handed out, but for
  the record in `main`'s hands.
- `OutcomeInv`: once the stream is bad an exception is stored, about to be stored, or has
  been thrown at `main`.  When all hashers are done and none is stored, as after
  "finished", the stream is therefore good, its lines are all of `emitted`, and that is
  the whole file by `FinishedMeansComplete`.  The stream is then closed once, and only a
  write that fails there, which sets `closeFailed`, keeps lines out of the file.

**The argument for the stream reader.**  Its `IInv` joins `BuffersKept` with

- `ControlInv`: the reader thread has a buffer in its hands exactly while it reads and
  publishes, a caller exactly while it assigns, and nobody gets the buffer it already
  has.  This is what makes `BuffersKept` inductive;
- `EndInv`: a buffer has its full size until a short read, after which the position is
  the end of the file and the thread reads no more.  So a read always asks for a whole chunk, and
  `m_eof` is set only at the end;
- `ChainInv`: the ready buffers are consecutive chunks of the file, the last one ending
  at the `Tip`: the chunk about to be published, or the read position.

Then `getChunk` hands out the chunk at the abstract position, which moves on by its size;
filling and publishing a buffer leave the position where it is; and since the buffer
being filled is in no caller's hands, no caller's chunk changes.

**The argument for the mapping reader.**  `HandsInv`: every chunk in somebody's hands starts
before the read position, where the next one is cut, so no two callers have the same one;
`ViewsInv`: what is mapped is what is in use; `LifeInv`: there are calls only between the
constructor and the destructor, and the whole mapping is open as long; `MembersInv`: what
is open belongs to a member that is not destroyed yet, in either build's order.

**The argument for the task pool.**  `PlaceInv` says of each task where it is: the queue has
no repetitions and no two workers have the same task, so that the cardinalities of
`TasksKept` are 0 or 1.  `JoinInv` follows the futures: in `m_threads`, or with a stopper that
waits for all of them, or the threads have gone; the destructor is alone.

**The argument for pipeline and stream reader.**  Each step of the composition is a step of
the pipeline, or of the reader, or of both at once, so both inductive invariants hold in
it, once these facts say how the halves go together: `ViewInv` (what `SigPipeline`
takes for the reader's position, chunks and failure is what the concrete reader has,
mapped as in `ImplementsReader`), `HandsInv` (a hasher is inside `getChunk` only where it
asks for a chunk, and has a buffer exactly while it has a chunk), `OwnerInv` (who has
destroyed the pipeline is alone, and only this one destroys the reader) and `StopInv` (before
that, the reader stops only at the end of the file or by a failure of its thread).  A
`getChunk` that sleeps is then a stutter of the pipeline, and the step in which it
returns is the atomic `getNextChunk`: that this one hands out the chunk at the abstract position is the
lemma on which `StreamImplementsReader` rests, used here a second time.  `ReaderUnused` follows
because the pipeline's destructor has joined all hashers (`JoinInv`), and a hasher that
is done has no chunk.

**The argument for the start.**  `Checked` lists what `main` has established before each of
its next steps - the size is not 0 and fits after `Defaults`, the hasher exists after
`CreateHasher` - and `StartInv` what it has passed on.  `ToUnsignedFits` is about the wrap: what
`toUnsigned` lets through is in range, also when it was given as a negative number; and
`EnoughThreads` about the products, which wrap for the largest numbers of cores only.

**The argument for the checker.**  `CheckInv` says that the checker has read `r` whole lines:
the header's fields among them are set (`ReadField`), the records among them match.  A record
matches exactly when every byte of its chunk is what it was (`LineMatches`), and each byte
is in one chunk (`ChunkOf`), so that the lines up to the last one speak for all of `Recorded`, and a line
that does not match names a byte that has changed.  Of the Windows build, `WindowsInv`: the
checker is at the first line, or at the empty one after it, or at the end of the file.

**Together.**  `NoChunkLost` and its like are proved of the pipeline, and
`ExitCodeIsRight` of the program, on top of `ChunkReader`; `StreamImplementsReader` and
`MappingImplementsReader` say that both readers are one.  For the stream reader, in which
`getNextChunk` takes time, `StreamImplementsPipeline` says that pipeline and reader fit
step by step.

Only model-checked, not proved: everything temporal under fairness (`EventuallyFrozen`,
`EventuallyDelivered`, `JoinsReturn`, `CallsReturn`, `GetReturns`, `DestroyReturns`,
`EverythingEnds`, `Terminates`, `TasksRun`, `StopsReturn`), which is out of the prover's
reach.  Every invariant and every other action property or refinement that a run checks is proved,
`NoMissedWakeup` for one client, as for two it does not hold.  The two properties whose
runs end in a counterexample have nothing to prove.

## What is not modelled, and why

- **Bytes, hash values, formats**: a record stands for its chunk.  The hash functions
  are wrappers of third-party code without a state of their own; `CheckSigFile` takes
  different contents to have different hashes.
- **A constructor of `SigPipeline` that fails half way** (`std::async` throws,
  `SigPipeline.cpp:28`): `m_records` would be destroyed under running threads, which
  is undefined at once.
- **Exceptions not derived from `std::exception`** (`SigPipeline.cpp:86` does not catch
  them): nothing in the program throws one.
- **The growth of `m_records`** while one chunk is slow: the code sets no limit to
  check.
- **`--out` naming the input file**, and an input file that changes while it is read:
  the reader would see what the program writes.
- **A `freeChunk` that throws** (`munmap` or `UnmapViewOfFile` failing inside a
  destructor ends the program), and a task of `TaskPool` that throws.
- **Console input and output** (`Conio.hpp`), the macros of `Exceptions.hpp`, project
  files: that a key was pressed is a choice in `FileSignature`, the rest has no state.

## Plan

Every part of the system that has a state is modelled, and every safety property and
refinement that a run checks is proved.  What is left, in this order:

1. `FileSignature` on the stream reader: `StreamImplementsPipeline` speaks of `SigPipeline`
   and its user; the program's theorems are proved on the abstract reader.
2. A name for what two clients of one monitor may rely on, where `NoMissedWakeup` fails.
3. The atomicity of `SigPipeline`'s `getNextChunk` for the mapping reader, whose
   `mmap` is a step after the claim, as `StreamPipeline` does it for the stream reader.
