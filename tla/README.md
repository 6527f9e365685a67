# A TLA+ model of libcopper

libcopper is a C99 utility library. This directory models the parts of it that
keep state and are hard to test: the lock-free ring buffer, the atomics, the
arena allocator, the logger with its threads, the rotating log file, mutexes,
condition variables and read-write locks with the threads that use them, thread
creation and thread-local storage, the calls that change directories and whole
files, and the path and random-number functions. The modules are checked with
TLC on small instances. Their safety properties, all that the passing runs check,
are also proved with TLAPS, for all values of the constants.

Paths below are relative to the repository, as in `src/ringbuf.c`.

## 1. Inventory

| Part | State | Operations | What is hard | What makes it correct |
|---|---|---|---|---|
| **Ring buffer** `ringbuf.c` | storage, two atomic counters, each owner's private copy of its own | `write`, `write_all`, `read`, `read_all`, `size`, `free` | two threads without a lock; counters that wrap at 2^32; copies split at the end of the storage | bytes arrive once, in order; nothing unread is overwritten; a decision taken on a stale counter stays valid |
| **Arena** `arena.c` | buffer, capacity, offset, rewind marker, allocator | `init`, `init_buf`, `alloc`, `alloc_aligned`, `reset`, `rewind`, `free` | wrapping `size_t` arithmetic at the end of the buffer; sequences of rewind, refused allocation, reset | blocks lie inside the buffer and apart; refused only if it does not fit; the buffer is given back once |
| **Logger** `log.c` | level, array of sinks, mutex | `add_sink`, `remove_sink`, `set_level`, `log_write`, `flush` | threads in the sink loop, level read without the lock | messages whole, delivered to the right sinks once, in one order; warnings flushed; no lock left held |
| **Console sink** `log.c` | stdio stream | `write`, `flush` | three stdio calls per message | (under Logger) |
| **File sink** `log.c` over `fs.c` | open file and its buffer, size, day and hour; the files on disk | create, `write` with rotation, `flush`, `destroy` | a kill between two renames; renames that fail; limits | the newest messages are kept, in order; size and period limits hold |
| **Callback sink** `log.c` | a function pointer | `write` | it has no flush, and is called under the logger's mutex | (under Logger) |
| **Formatters, default logger** `log.c` | none; a global | | | |
| **Files, directories, paths** `fs.c` | the file system | open/read/write/close, copy, `mkdir_all`, forced removal, iteration, join, normalize | races with other processes, a failure midway, boundaries of path arithmetic | no loss on failure; an existing directory is a success |
| **Mutex, condition variable, rwlock** `sync.c` | the platform's object | init, destroy, lock, try-lock, unlock, wait, signal, broadcast | which of pthreads' answers means busy, which an error; spurious wakeups; an init that fails midway through a program's | exclusion; busy exactly when somebody excludes the caller; no lost wake-up |
| **Threads, TLS** `thread.c` | handle, trampoline; the key and its values | create, join, detach, TLS create, destroy, get and set | three allocations and two system calls, each with its clean-up; the trampoline changes hands; the handle outlives the thread | every block has one owner; each thread runs what it was asked to; joins return |
| **Atomics** `atomic.c` | a word; without compiler atomics also a mutex | load, store, exchange, compare-exchange, five fetch-ops over five types | the mutex version is written out for each type and built on none of the usual compilers, so the tests seldom run it | each call takes effect in one step |
| **Error state** `error.c` | one thread-local record | set, get, clear | a record shared between threads would show only under contention | a thread reads its own last failure |
| **Random numbers** `rand.c` | none | bytes, ranges | rejection loops over a generator that can fail | results in range, uniform |
| **Base64** `base64.c` | none | encode, decode | the last group | decode inverts encode |
| **Time, environment, endian, byte sizes, version** | none | | | |

How they interact: the ring buffer uses two atomics. A logging call formats its
message, takes the logger's mutex and calls each sink through function
pointers; the file sink calls `fs.c` to close, remove, rename and open files,
and `time.c` for the day and hour of the message. The mutex version of the
atomics and the logger lock `sync.c`'s mutex. Every module reports failures
through the thread-local error record.

## 2. Modules

| Module | Models | Relation to others |
|---|---|---|
| `ByteQueue` | what `ringbuf.h` promises: a bounded FIFO of bytes for one writer and one reader | abstract specification |
| `RingBuf` | `ringbuf.c`, the four transfer calls | implements `ByteQueue` |
| `RingBufMetrics` | `ringbuf.c`, `size` and `free` | extends `RingBuf`; TLC runs the ring through it |
| `RingBufProofs` | invariants of `RingBuf` and of `RingBufMetrics`; `RingBuf` implements `ByteQueue` | theorems |
| `Arena`, `MCArena` | `arena.c`; its buffers for TLC | |
| `ArenaProofs` | blocks lie inside and apart, refusals are right | theorems |
| `AtomicWord` | what a native atomic is: one step per call | abstract specification |
| `Atomic` | `atomic.c` over a mutex | implements `AtomicWord` |
| `Logger`, `MCLogger` | the logger, console and callback sinks of `log.c`; its sinks for TLC | |
| `LoggerProofs` | types, flushes, warnings; every message whole, once, in one order | theorems |
| `LogFile`, `MCLogFile` | the file sink of `log.c`; its configurations for TLC | |
| `LogFileProofs` | limits on size and period, what rotation and kills leave | theorems |
| `Sync` | `sync.c` and the error record of `error.c`, used by threads with programs | |
| `Thread` | `thread.c`: creation, join, detach, thread-local storage | |
| `MCThreads` | `Sync` or `Thread`, with the programs of the tests | |
| `ThreadsProofs` | blocks and slots of `Thread`; locks, errors and refusals of `Sync` | theorems |
| `FsTree`, `MCFsTree` | the directory calls of `fs.c`; the trees TLC begins with | |
| `FileIO`, `MCFileIO` | copying, reading and writing whole files in `fs.c`; contents for TLC | |
| `MCFs` | `FsTree` or `FileIO` | |
| `FsProofs` | trees stay trees, nothing stays open, files whole, directories made and removed as promised | theorems |
| `Paths` | the path functions of `fs.c` | |
| `PathsProofs` | results fit and are normal; what normalizing keeps | theorems |
| `Rand` | `rand.c` | |
| `WordProofs` | exclusion and the refinement for `Atomic`; bytes and ranges for `Rand` | theorems |
| `MCFunctions` | `Arena`, `Paths`, `Rand` or `Atomic`; the mask of `rand.c` as it is written | |

The three modules that say "or" explore one component at a time: the components
share nothing, so the variable `subject` says which of them a behaviour is about,
and the others stay where they begin. Since modules that are extended together
may not define a name twice, `Arena`, `Paths`, `Rand`, `Atomic`, `FileIO`, `Sync`
and `Thread` name their specifications `ArenaSpec`, `PathsSpec` and so on.

Definitions whose name begins with `Bug_` are plausible mistakes in the
definition that follows them. They are not part of a specification: put in
place of the correct definition, each makes one property fail, which shows that
the property depends on that piece of the code.

### RingBuf

One thread writes and one reads (`ringbuf.h` 10-12). The variables are the
fields of `CprRingBuffer` plus, for each thread, where it is in its call and
the call's locals. A call's first step is its load of the other thread's
counter with the decision it takes on it (`ringbuf.c` 90-96, 113-118, 136-142,
158-163); `copy_in` and `copy_out` move one byte a step, so the other thread
may run between any two bytes; `publish_head` and `publish_tail` are the store
of the counter. The thread's private counter is advanced in the same step as
the store: no other thread reads it. Atomics are sequentially consistent, as
`atomic.c` makes them with `__ATOMIC_SEQ_CST`.

`Slot` states where byte `i` of a split copy lives; the code's two `memcpy`
calls are the two branches of it. `pos & mask` is `pos % Capacity` because
`cpr_ringbuf_init` refuses sizes that are not powers of two. Counters are
taken modulo `Wrap`, 2^32 in the code. `init` is `Init`; NULL arguments, which
change nothing, are left out.

`DecisionsStayValid` is the heart of it: what a call decided on a counter that
is stale by the time it copies is still true. `NoDataRace` says that the plain
`memcpy`s never touch a byte the other thread may touch. `FIFO` is the
refinement of `ByteQueue`: the queue is the bytes between the two published
counters, a call is accepted at its load, and takes effect at its store.

### RingBufMetrics

`size` is two loads with the other thread running in between. For the two
owners its answer errs on the safe side until their next call
(`OwnersCanRelyOnSize`). A third thread's call of `size` is left out: it
changes nothing, and section 5 says what it may see.

### Arena

The variables are the fields of `CprArena`, the buffers the allocator has
given out, and the blocks the caller may still use: a block stops being usable
at a `reset`, a `free`, or the `rewind` that takes it back. A caller
initializes an arena that holds no buffer (`cap = 0`); `free` may be called at
any time, also twice. Addresses and sizes wrap modulo `SizeMod`. `align_up`'s
mask is written as a remainder: the two agree on the powers of two that
`is_pow2` lets through. `PaddingFits` is the condition on the buffers under which
the arena is correct: each ends on every alignment requested, and the address
space does not end right behind it. `cpr_arena_init` and `cpr_arena_init_buf` do
not check it, and the run `arena_padding` leaves it out.

### AtomicWord and Atomic

`atomic.c` has three implementations. With compiler atomics each operation is one
sequentially consistent builtin, which is `AtomicWord`: between a call and its
return the request takes effect in one step (`TakeEffect`). The one over a mutex
(the last `#else` branch of each function, as at `atomic.c` 128-134) is `Atomic`: `lock`, `read`, `modify` and `unlock` are steps,
so other threads run in between. The five types repeat this code
(`PROJECT.json` names the functions of `I32`); they differ in
the words they hold and the operations they offer, which the records `I32`, `U32`,
`I64`, `U64` and `Ptr` say. `Written` is the arithmetic, over words of `Bits32`
and `Bits64` bits; a signed `+=` that overflows is undefined in C and is taken to
wrap, as the add instruction does and as the builtin promises. `mutex = Raw` is
an atomic not initialized; an init refused by the mutex leaves it so and changes
nothing.

### LogFile

Each file operation of a rotation is a step, so `kill` can come between any
two; `create` starts the process again over the disk it left. The C library's
buffer is `unflushed`; it may be passed on at any time (`spill`) and is lost by
a kill, and then those messages leave `accepted` too, since nobody promised
them. A file is a sequence of whole messages, each with the position at which it
ends, so a file's size is the `end` of its last message; `Current` is the file
being written with the buffer behind it, and `Placed` the message as it is put
there. DAILY and HOURLY are one mode,
`calendar`: both compare a number that comes round again (`yday`, `hour`), and
differ only in the unit. Sending a message (the caller holds the logger's
mutex) is the step `write`, with any of the times enumerated: a message's stamp
is taken before the mutex (`log.c` 553, 560), so stamps may arrive out of
order.

The kill is a process kill: what the system has taken is kept. A power failure
that loses what the system has taken is not modelled.

### Logger

A `log` step is the level check and the formatting, before the mutex
(`log.c` 541-556); then `lock`, one step per turn of the sink loop, one step
per stdio call of a colored console sink (192-194), the flush of warnings, and
`unlock`. `flush` locks and flushes sink by sink. `set_level` is a plain store
at any time. Sinks are added and removed only while no call is in progress:
`log.h` calls these two functions not thread-safe. `done` records each returned
call with the sinks attached to it, and `stream` all that was written; both
exist for the properties only. A callback sink hands a message over in one step
under the mutex, and has no `flush`, so nothing of it is ever buffered; the
callback does not call the logger.

### Sync

A thread runs a program, a sequence of calls of `sync.c`; `at` is the next one.
Main initializes the three objects (an init may fail, and then the program ends,
as the tests' assertions do), creates the workers, joins them and destroys the
objects. A try-lock that is refused sets `CPR_ERR_BUSY` in the record of the
calling thread, and the program skips what it would have done under the lock. The
programs keep the rules of `sync.h`, which `SyncAssumption` states: a thread takes
no lock it has, unlocks what it locked, waits with the mutex held (`Disciplined`),
and looks at data only under the lock that guards it and changes it only where
that lock excludes everybody else (`Respects`). The programs of the run also hold
their locks in one order, without which they could wait for each other. The lock
calls then have no other failure, and `CPR_ERR_SYNC` from them is left out.

`condvar_wait` gives the mutex up and sleeps in one step, which is what pthreads
promises, and `reacquire` is its return; a signal wakes one sleeper or nobody, and
`spurious_wakeup` wakes one nobody asked for. The caller's loop around the wait is
the program's step `wait`, taken again until its counter has arrived. The
read-write lock grants a reader whenever no writer is inside, glibc's default: a
writer may wait behind readers. `look` and `count` are the two halves of an
increment of the data the locks protect; `seen` is what a thread found there.

### Thread

The heap is modelled by block addresses, and `malloc` gives the lowest free one,
so that a block freed too early comes back at once as something else; what a freed
block holds is `Junk`. `thrd_create`, `create_trampoline` and `create_spawn` are
the three steps of `cpr_thrd_create` with the failures of the later two
(`create_no_trampoline`, `create_no_spawn`) and what each gives back (`thread.c`
64-108). `cpr_tls_create` is two: `tls_create`, the allocation, and then
`pthread_key_create` with either outcome, `tls_key` or `tls_no_key`, which frees the
block (`thread.c` 205-229). From `create_spawn` on the trampoline belongs to the
new thread, which copies it, frees it and runs its function (`thread.c` 53-60). A handle is freed by
`thrd_join_end` or `thrd_detach`. `keep_value`, `free_value` and the destructor at
a thread's end are the uses of a thread-local slot in `tests/test_tls.c`; Main
destroys the key when it alone is left, since the values of other threads would be
out of reach afterwards. A thread returns once it has released its handles.

### FsTree

A tree is three sets: directories, files and symbolic links with their targets;
a path is the sequence of its components. The trees and paths given are such
(`FsTreeAssumption`): all but the root lies in a directory, and nothing is two
things (`IsTree`). A link may lead through links, as `stat` and `opendir` follow
them: `Ends` says where each leads when that takes links nested at most `MaxLinks`
deep, and `Resolve` walks along a path with it; a link that leads to itself or needs
more leads nowhere. Linux limits the number of links met in one walk instead (40,
then `ELOOP`), so longer chains are outside the model. `mkdir_all` keeps the number of
components in `tmp` (`at`) and alternates `check` and `make` (`fs.c` 458-471).
`rmdir_force` is a stack of activations (`frames`), each with its iterator's
entries not yet returned: `open_dir`, `next_dir` for one turn of the loop,
`remove_file`, and at the end `end_of_dir` and `remove_empty`; `unwind` is an
error on its way out, one activation a step (543-546). An iterator lists the
directory as it was when it was opened, which is one of the behaviours POSIX
leaves open; entries may be gone when they are used. The type of an entry is
decided as in `next_dir`: what `d_type` says, and for a link what is behind it.
`MaxLen` stands for `CPR_FS_PATH_MAX`, in components.

`start` keeps the tree a call began with for as long as nothing came between
the call and its end; `UndisturbedCallsDoTheirJob` compares the tree with what
the call should have made of it.

### FileIO

One caller runs `copy`, `read_file_all` and `write_file_all`; the steps are the
calls of the C library they make. `write` hands bytes to the stream, which may
take fewer (an error) and passes on as many as it likes to the system; `close`
passes on the rest. A read error may come after some of the bytes, and a later
read may succeed, as with stdio: `copy` goes on after such an error, and rightly
so (`read_chunk`). `cpr_fs_copy` does not look at whether its removal of the part
it copied succeeds (`fs.c` 624-626): `remove` may leave the part where it is, and
`leftover` records that it has. Another process may rewrite any file but the output.

### Paths

A caller keeps one path in a buffer and calls `path_join`, `normalize_path` and
`path_dirname` on it. A path is its components, with a separator in front (an
absolute path) or at the end; lengths in bytes are computed where a call
compares them with `buf_size`. `Normalized` is the loop of
`cpr_normalize_path` after each component: the text written so far, and the
stack `comp_ends` of places to go back to, of at most `MaxDepth` entries (256).
`Meaning` is the reference: how far a path leads up and which names it leads
down.

### Rand

`rand_bytes` is one step per system call: `getrandom` and, where the kernel does
not know it, `open_urandom` and `read_urandom`, each of which may deliver less
than asked for or fail; `fills` counts how often each byte is written. A range
call draws words until one is accepted (`accept`, `reject`); a word that could
not be drawn counts as 0, or as the bytes that did arrive. `lemire_accepts` and
`pow2_mask` are the arithmetic of the 32-bit and of the 64-bit calls over `Modulus`
words, a power of two; the early test `low >= width` is left out, since the
threshold is below the width. The mask is one less than the least power of two that
is not below the width, and masking is a remainder. That `cpr__pow2_mask`'s shifts
(`smeared` in `MCFunctions`) and `&` come to this is `MaskAssumption`, which TLC
evaluates for all widths and words of 8 bits.

## 3. Runs

| Run | Instance | Shows |
|---|---|---|
| `ring` | capacity 2, counters modulo 4, requests up to 3 bytes of 2 values, both threads calling `size` | `TypeOK`, `DecisionsStayValid`, `NoDataRace`, `OwnersCanRelyOnSize`, `FIFO`, `Drain` |
| `log_file` | 5 messages, 2 archives, one kill, rotation by size and by calendar | `TypeOK`, `RetainedIsRecent`, `SizeLimitHolds`, `OnePeriodPerFile`, `EvictsOnlyWhenFull` |
| `log_rename` | a rename may fail | `RetainedIsRecent` fails |
| `logger` | 2 threads, two consoles of different levels and a callback, array of 2, 3 reconfigurations | `TypeOK`, `DeliveredExactly`, `SinksAgreeOnOrder`, `WarningsReachTheStream`, `FlushIsComplete`, `CallsReturn` |
| `threads` | `Sync`: Main and 2 workers running 57 programs, 2 spurious wakeups. `Thread`: Main and 2 more threads, a heap of 5 blocks, 2 tasks | for `Sync`: `NothingChangesUnderALock`, `ErrorsArePrivate`, `BusyIffExcluded`, `EveryoneFinishes`; for `Thread`: `EveryBlockHasOneOwner`, `EachItsOwn`, `JoinsReturn` |
| `fs` | `FsTree`: 2 processes with one call each over 7 trees: an empty one, nested directories, a path too long, a file in the way, links to a file, to nothing and to a directory, a link that leads through another link, links that lead to each other and one that leads back above itself; `opendir` and `readdir` may fail. `FileIO`: 2 files, chunks of 2 bytes, contents of 0, 2 and 3 bytes, buffers of 2 and 4, every fault but that of `fclose`, a failing `unlink` among them | `TypeOK`, `NothingLeftOpen`, `UndisturbedCallsDoTheirJob`, `CopyIsAllOrNothing`, `WholeFilesAreFaithful`, `EveryCallReturns` |
| `fs_link` | one process, a directory that holds a link to another | `ForcedRemovalSucceeds` fails |
| `fs_race` | 2 processes calling `mkdir_all` | `MkdirAllFailsForACause` fails |
| `file_io_close` | `fclose` may fail | `WriteAllIsFaithful` fails |
| `functions` | `Arena`: two kinds of buffer ending on the strictest alignment, sizes from 0 to `SizeMod - 1`, up to 4 live blocks. `Paths`: buffers of 10 bytes, 2 names, 3 places to go back to. `Rand`: 8 words drawn in 2 pieces, every range of them, and buffers of 0, 1 and 3 bytes. `Atomic`: 2 threads, every request of every type over words of 1 and 2 bits | for `Arena`: `ArenaTypeOK`, `BlocksInBounds`, `BlocksDisjoint`, `RefusedIffTooBig`; for `Paths`: `ResultsFitAndAreNormal`, `NormalizeKeepsOrdinaryMeaning`; for `Rand`: `BytesFilledOnce`, `RangesAreFair`; for `Atomic`: `OneInside`, `IsAtomicWord` |
| `arena_padding` | buffers of 6 bytes, alignment 4 | `BlocksInBounds` fails |
| `paths_dotdot` | more places than components | `NormalizeKeepsMeaning` fails |

Why the bounds are enough. In `ring` a capacity of 2 already has the empty, the
full and the half-full ring, requests larger than the capacity, copies that
straddle the end of the storage and, with counters modulo 4 (twice the
capacity, as 2^32 is for the largest ring), data in flight across the wrap; larger rings are covered by the proofs. Payload values 0 and 1
tell positions apart, since every pattern of them is written. For the arena the
sizes include 0, an exact fit, one byte too many and values whose sum with an
offset wraps; 4 blocks suffice for a block under the rewind marker with others
below it. In `log_file` five messages of length 3 rotate four times, which
fills both archives and evicts twice; lengths 1 and 3 reach the limit of 2
bytes from below and beyond. In `logger` two threads with one call each, over
three reconfigurations, reach the full array, a refused `add_sink`, the same
sink attached twice and a removal in the middle; more calls repeat these
states. For `FsTree` a call depends on nothing but the tree it finds, so one
call of each process over several trees covers longer sequences; two calls each
exceed the time of a run. `MaxLinks` 2 is one more than a link through a link needs;
deeper ones are left to the proofs. For `FileIO` contents of exactly one chunk and of one
byte more are the two ways a file can end, and the buffer sizes accept and
refuse them; the caller makes any number of calls, and another process writes at
most once during each, which is enough to come between any two of its steps. For
`Paths` a buffer of 10 bytes holds paths of five components, more than there are
places to go back to, and for `Rand` words of three bits give ranges that are powers of
two, ranges that are not, and the full one. For `Atomic` words of one and two
bits already have every carry, borrow and sign (the proof covers the rest), and
two threads are enough for one to come between the steps of another. In
`threads` the programs of `Sync` are those of `tests/test_mutex.c`,
`test_condvar.c` and `test_rwlock.c` for three threads, and every choice of what
each of the three does with one lock out of three ways; two spurious wakeups let
both sleepers wake unasked. For `Thread` five blocks are one more than two
creations in progress need, and every `malloc` may fail, with room in the heap or
without; with two started threads, one of which may be the other's creator,
handles, trampolines, keys and values are alive together. In `LogFile` and `FsTree`
messages, kills and calls are bounded, so a behaviour ends (`CHECK_DEADLOCK
FALSE` in their runs); all other runs check for deadlock, and in `threads` the end
of all programs is the only state of `Sync` that may stay as it is.

Fairness. `Drain` assumes that the consumer finishes its calls and goes on
calling `read` with a nonempty buffer, as the reading threads of
`tests/test_ringbuf.c` do, and nothing of the producer, which may stop for ever
in the middle of a call. The consumer's `read` needs strong fairness: between
two of its reads the consumer may also choose `read_all`, so `read` is not
continuously enabled. `CallsReturn` and `EveryCallReturns` assume that a thread
inside a call keeps running when it can (weak fairness per thread or process, in
`Logger`, `FsTree` and `FileIO`); a mutex that lets a waiting thread pass for ever
is excluded by the finite number of calls. `EveryoneFinishes` assumes the same of
every thread of `Sync`, and that is all: programs are finite, so no lock can be
taken over a waiting thread's head for ever. `JoinsReturn` assumes that a thread
goes on with the call it is in (weak fairness of `Continue`) and that every
thread's function ends, the condition under which `thread.h` lets a join return:
strong fairness of `Finish`, because a function may go in and out of calls before
it returns. Nothing is assumed of the steps a function takes of its own accord.

## 4. Theorems

Proved by TLAPS for all values of the constants that satisfy `RingAssumption`:
a capacity that divides the number of counter values and is at most half of it
(true of every size `cpr_ringbuf_init` accepts, a power of two up to 2^31), any
request size, any nonempty set of bytes.

* `Invariance`, `TypeCorrect`, `DecisionsValid`, `RaceFreedom`
  (`RingBufProofs`). `DecisionsStayValid` and `NoDataRace` are not inductive
  alone: that a write still fits after the consumer moved needs the relation
  between the published counters and the private ones. The invariant `IInv`
  adds that `head` equals `head_cache` and `tail` equals `tail_cache` between
  calls and during them, and that the call in progress claims no more than the
  distance between the counters allows. The proof rests on lemmas about
  wrapping counters: advancing the leader by `n` widens the distance by `n`
  unless it wraps past the follower (`AdvanceLeader`), advancing the follower
  closes it (`AdvanceFollower`), and slots at distinct distances below the
  capacity are distinct (`SlotInjective`). These need that the capacity divides
  the counters' range, which is why the code may drop the wrap of the counter
  when it masks it.
* `Refinement` (`RingBufProofs`): `Spec => FIFO`. It needs an invariant on
  data as well: the bytes copied so far are in their slots (`copy_in`) or came
  from the unread ones (`copy_out`). Each ring step is then shown to be a step
  of `ByteQueue` or to leave its variables alone.

* `OneThreadInside` and `FallbackIsAtomic` (`WordProofs`), for any number of
  threads and any widths. The invariant `AInv` says who is inside (`OneInside`),
  that what a thread has read is still in the word when it writes
  (`ReadIsCurrent`), that the locals of a thread outside a call are reset
  (`LocalsFresh`), and that nobody is in a call on an atomic that is not
  initialized (`CallsNeedInit`). Given `ReadIsCurrent`, `modify` is `TakeEffect`
  and every other step is `Call`, `Return`, `Initialize`, `Destroy` or a stutter;
  the arithmetic is the same expression on both sides and is never looked into.
* `ArenaTypeCorrect`, `BlocksStayInside`, `BlocksStayApart` and
  `RefusedOnlyIfTooBig` (`ArenaProofs`), for any address space, buffers and
  requests. The first holds over every buffer: `TypesInv` is types, ownership and
  that the allocator's account is right, which no wrapping sum disturbs. The other
  three assume `PaddingFits`, a condition on the buffers that neither initializer
  checks: `arena_padding` shows that it is needed (over other buffers a block can
  be handed out that lies beyond the end, and so a request be accepted that no
  place holds), and TLC evaluates it for the buffers of `functions`. `BlocksDisjoint` is not inductive:
  a rewind moves `offset` back to the marker, so the invariant `ArInv` adds that
  the blocks a rewind keeps lie below the marker (`Stacked`), that the marker is
  not above the offset nor the offset above the capacity (`Offsets`), and what an
  arena without a buffer looks like (`Owning`). `RoundUp` shows that rounding up to
  a multiple cannot pass one; with it `Aligned` shows that no sum or difference of
  `alloc_aligned` wraps, and that it starts at the least aligned address.
* `SizeIsSafe` (`RingBufProofs`): what `size` tells an owner stays true until it
  acts. `SizeInv` adds to `IInv` that the producer is told at least what is in use
  and at most the capacity, the consumer at most what is in use, and what a call
  that has loaded only `head` is going to answer.
* `TypeCorrect`, `FlushesComplete`, `WarningsSafe`, `MessagesDelivered` and
  `OrderIsShared` (`LoggerProofs`), for any number of threads, consoles, callbacks,
  calls and reconfigurations and any size of the array. `LInv` has the shapes, who
  holds the mutex (`Exclusion`), where a thread in the sink loop may be (`Turns`),
  that the message in progress carries its thread's latest number (`Numbered`), and
  that the sinks a flush has passed have nothing buffered (`FlushedBehind`), which
  the mutex keeps true until the flush returns. `WInv` adds for the warnings that
  all that was written has a number its thread has reached (`Old`), so that a
  delivered message is never written again, and that of a warning in progress only
  what is at the sink at hand is buffered (`OneSinkBuffered`). `MInv` adds for whole
  messages that a console's stream is incomplete only for the thread amid writing
  to it, and by how much (`Incomplete`). `DInv` counts: of the message in progress a
  sink has one text for each of the places in the array that the loop has passed,
  that hold this sink and whose level it passes (`WrittenSoFar`); the loop over, that
  is `DeliveredExactly`. `OInv` is about the order of any two messages: the one in
  progress is in no sink before it is its turn (`Unwritten`) and the last one in
  every sink that has it (`LastSoFar`), so writing it cannot reverse a pair
  (`SameOrder`).
* `TypeCorrect`, `FilesStayInSize`, `DaysStayApart`, `LogIsRecent` and
  `GivesUpOnlyWhenFull` (`LogFileProofs`), for any limits, number of archives,
  lengths and times of messages, starts and kills. `FInv` says where the call in
  progress may be and what is on the disk there, and that the numbers of accepted
  messages ascend. `Layout` says that the messages of a file follow each other
  without a gap, from which `Sizes` relates `current_size` to the file being
  written; `Periods` does so for `current_period`. For `LogIsRecent` each step is
  first described by what it does to the files' contents (`Change`: nothing, one
  file emptied, moved or grown, the buffer lost), with the message at hand apart,
  and `Recent` is then kept by each kind of change: no file has a message older
  than an older file's (`Order`), every message held was accepted (`AllAccepted`),
  and between the oldest held and the newest accepted none is missing (`NoGap`).
  `Closed` knows where in the row of archives the hole of the rotation is. All five
  assume `Reliable`, that renaming and opening do not fail; the run `log_rename`
  shows that it is needed. `DaysStayApart` also assumes that `yday` or `hour` does
  not come round among the times that occur: a log silent for a year (or a day)
  goes on in the old file.
* `BlocksAreOwned` and `ThreadsKeepTheirOwn` (`ThreadsProofs`), for any number of
  threads, blocks and tasks. `TInv` says which pointers a thread holds at each of
  its places (`Holdings`), that these are all different and are the allocated
  blocks (`OneOwner`), and what the blocks contain (`Contents`): in particular a
  trampoline still belongs to its creator, or is its new thread's, until that has
  copied it; a `CprTls` without a key is `unkeyed` until it gets one or is freed.
* `LocksProtect`, `ErrorsKept` and `RefusalsHaveAReason` (`ThreadsProofs`), for any
  threads running any programs that satisfy `SyncAssumption`. `LockInv` equates the
  platform's objects with the programs' text: a thread holds a lock exactly if the
  calls it has made say so (`Locking`), and waiters are at a `wait` (`Waiters`).
  From that, data under a lock is as its reader saw it (`DataInv`).
* `CopiesAreWhole` and `WholeFilesAreKept` (`FsProofs`), for any files, contents,
  sizes of buffers and chunks and any faults but that of `fclose`, which
  `file_io_close` shows to be needed. `CopyInv`, `WriteInv` and `ReadInv` say how
  much of the data has come at each place, and that it is in the file, in the C
  library's buffer or in the call's, in this order. Where `unlink` fails after a
  failed copy, the file holds a first part of the source and nothing else.
* `NothingLeaks` (`FsProofs`): `FilesInv` gives the number of files open at each
  place of a call, `TreeInv` the number of iterators of each depth of recursion
  (`Counted`), with an error on its way out as well.
* `TreesStayTrees` (`FsProofs`): type correctness of `FsTree`, that every call maps
  a tree to a tree; what makes it more than bookkeeping is that a path is followed
  through links, which may lead through more links or in a circle, before anything
  is made or removed, and that the result is again a path in the tree. `Resolve`
  folds over a path, over `Ends`, a function by recursion on the depth of links. An
  operator cannot be passed to a library theorem on induction, so the proof takes
  the least prefix for which the fold is not defined (`LeastElement`, from the
  library's well-founded minimum).
* `UndisturbedCallsAreRight` (`FsProofs`): what `mkdir_all`, `remove_dir` and
  `remove_dir_force` do as long as nothing comes between, for any trees and paths.
  The property speaks of calls that have returned; `JobInv` relates the tree a call
  began with, `start`, to the tree at hand at every place of the call. `mkdir_all`
  has made its first `at - 1` components and nothing else, and found nothing in
  their way (`Making`). `remove_dir_force` has removed no more than what lies at or
  below its argument and had a path that fits (`PartlyGone`); its activation `i` is
  at a directory `i - 1` levels below the argument that is still there, has before
  it all of that directory but what it has removed, and is amid removing the entry
  that activation `i + 1` is at (`Activation`); and the innermost one is at an entry,
  or has removed them all, or is on its way out because some path does not fit
  (`Innermost`, `Emptying`). With no link to a directory at the argument or below
  it, a path that goes one name down goes one level down in the tree
  and leads to no other place, so the recursion follows the tree. Links to
  directories elsewhere still lead there while entries are removed: `EndsTheSame`
  takes the least depth at which one would not, and two walks are the same as
  long as each link they pass is (`SameWalk`). Forced removals over
  links to directories are left out of the property: there the code empties the
  directory the link leads to, which is `fs_link`. The proof then
  shows that what is removed of one entry is gone from its directory and nothing
  else is, that a failure is due to a path that does not fit and leaves everything
  outside the argument alone, and that a step of another process which changes the
  tree, or a fault, makes `start` unknown.
* `PathsFit` (`PathsProofs`), for any names, buffers and depths of `comp_ends`. A
  length is what the components weigh: two bytes each with a separator, three for
  a `..`, less one, because the first has none (`LengthIs`). The loop invariant `Good` says that
  the text is resolved and weighs no more than what has been read, and that the
  places to go back to lie in the text, in order, with nothing but `..` in front
  of them all (`Places`): only therefore does a `..` without a place to go back to
  stand behind others of its kind.
* `OrdinaryMeaningKept` (`PathsProofs`), for any names and depths, assumes what
  `Ordinary` says of the path: up by one level at most (`paths_dotdot` shows why)
  and no deeper than `comp_ends`. `Tied` relates the loop of `normalize` to the walk
  that gives a path its meaning: the text spells out where the walk has come, and
  entry `i` of `comp_ends` is the place in front of component `i`, or behind a `..`.
  A second walk, over the text, comes to the same place (`WalkOver`). Both loops
  are recursive functions of which the library proves nothing without an operator
  as parameter; `RunsIs` proves once, for both, that they satisfy their equations.

* `EachByteFilledOnce` (`WordProofs`), for any sizes, short reads and failures.
  `FillInv` says that the bytes before the last `size` have been written once and
  the others not at all (`Filled`), and at which places something is left to fill.
* `EveryRangeIsFair` (`WordProofs`), for any number of words that is a power of two
  and any range. The invariant is that a call keeps a range that is one (`CallInv`);
  the rest is arithmetic, from the library's division alone. A signed range is moved
  among the words and back (`BiasedIs`, `ValueIs`), which is where wrapping sums
  are shown to come out right, for the full range too. For the 32-bit calls the
  words that become the `j`-th value are the multiples of the width in an interval
  whose length is itself a multiple of the width, and an interval of `q * w`
  numbers has `q` multiples of `w` (`LemireHits`). For the 64-bit calls they are
  every `m`-th word, where `m` is the power of two behind the mask and divides the
  number of words (`MaskIs`, `MaskHits`). That equal shares add up to all accepted
  words is `EqualParts`; a width is more than half of `m`, so more than half of all
  words are accepted.

Only model-checked:

* `Drain`, `CallsReturn`, `EveryCallReturns`, `EveryoneFinishes` and
  `JoinsReturn`: liveness under fairness, which the prover does not handle.
* That the shifts of `cpr__pow2_mask` give the mask of `Rand`, for words of 8 bits
  (`MaskAssumption`): the bit operators are defined by recursion.

## 5. Findings

* `alloc_aligned` over a buffer that does not end on the alignment can hand
  out a block beyond the buffer (`arena.c` 106): the difference wraps when the
  padding passes the end. With `malloc`ed buffers of a multiple of the
  alignment this cannot happen, as `BlocksStayInside` proves.
* A rename of the rotation that fails for another reason than a missing file
  loses messages (`log.c` 264-271).
* A link to a directory counts as a directory when a tree is removed by force
  (`fs.c` 994): the directory it leads to is emptied, and then the call fails,
  because `rmdir` removes no link. `fs.h` 104 promises to remove the contents.
* `mkdir_all` fails when another process creates the directory between its
  check and its `mkdir` (`fs.c` 462-463), although `fs.h` 97 and the test at
  `test_fs.c` 411 have an existing directory count as a success.
* Normalizing `../..` gives `..` (`fs.c` 224, 231): a leading `..` is remembered
  like a name, and the next one takes it back. `fs.h` 49 promises to resolve
  `..` components.
* `cpr_close_file` drops the result of `fclose` (`fs.c` 709), so
  `cpr_write_file_all` and `cpr_fs_copy` report success for bytes that were never
  stored. `fs.h` 175 promises that the data is written.

Seen while modelling, without a run of their own: `size` called by a third
thread can return a number near 2^32, and `free` with it, since `tail` may pass
the loaded `head` (`ringbuf.c` 176-178; `ringbuf.h` 60 calls the answer a
snapshot); a name below the 256th level is not remembered, so a `..` after it
goes back too far (`fs.c` 239); the 32-bit range calls never return while the
generator fails, unless the width divides 2^32, because they draw 0 again and
again (`rand.c` 159), where the 64-bit ones return the lower limit; a
sink attached to a second logger is written under two mutexes (`log.c` 572);
`cpr_arena_free` zeroes an
arena over a caller's buffer (`arena.c` 146; `arena.h` 81 says it does
nothing); `max_files` 0 keeps 1000 archives, not all (`log.c` 260; `log.h`
151); a file copied onto itself is emptied
(`fs.c` 603); when `cpr_fs_copy` fails and then cannot remove what it has copied so
far, that part stays, and the error the caller finds is the removal's (`fs.c`
624-626).

## 6. Not modelled, and why

* Weak memory: the atomics are sequentially consistent, and `NoDataRace` shows
  that the plain accesses between them never conflict, so no weaker outcome is
  observable.
* NULL arguments and other calls that return an error and change nothing.
* A logger created without `thread_safe`, which leaves exclusion to its
  callers; loggers that share a sink; `cpr_log_destroy`, which a caller may not
  overlap with other calls.
* A console sink without color writes one piece instead of three, a behaviour
  `Logger` covers; message text, formatters and level names are layout.
* `Logger` has console sinks and `LogFile` has a sequential caller; their
  composition, with stamps taken before the lock, is planned.
* Paths longer than the rotation's 512-byte buffers (`log.c` 253).
* A write of the file sink that fails or falls short, on a full disk say: the sink
  drops `cpr_write_file`'s result and advances `current_size` all the same (`log.c`
  303-304). `LogFile` has no such fault, so its files hold whole messages and
  `RetainedIsRecent` does not speak of a gap the disk left; `log.h` promises
  nothing about it.
* In `cpr_log_writev` the return for `CPR_LOG_OFF` and above (`log.c` 541), which no
  message has as its level, and the check that the formatted text is not empty
  (571), which it never is with the library's formatters.
* The platform's own behaviour: pthreads' objects do what POSIX says of them, and
  a lock call of a correct program does not fail. The mutex version of the atomics
  drops the result of locking (`atomic.c` 152) and would go on without the lock;
  that is outside the model for the same reason. The branches for Windows and for
  MSVC's atomics make the corresponding calls of that system.
* A callback that logs through its own logger would wait for the mutex its thread
  holds (`log.c` 390, 558); `log.h` neither allows nor forbids it.
* The rotation's reopening that fails leaves the sink without a file, and in SIZE
  mode nothing opens it again (`log.c` 271); `LogFile` has the fault, but `log.h`
  promises nothing to check it against.
* `Sync`: unlocking what one does not hold, destroying what is in use, and other
  misuse pthreads leaves undefined. `Thread`: sleep, yield, thread ids; detached
  threads that outlive the process.
* `FsTree`: names cut at 255 characters, permissions, an out-of-memory iterator
  other than as the fault of `opendir`, more links in one path than the system
  follows. `FileIO`: seek, tell and append for
  callers, which are calls of the C library.
* `Paths`: repeated separators, which none of the functions produces from paths
  without them; name extensions and the working directory. `Rand`: `rand_f64`,
  and the platforms other than Linux.
* Base64: `base64.c` is in no `CMakeLists.txt`, so no build contains it. Reading
  it shows two mistakes: the remainder of the last group is computed from
  `data_size - 1` (`base64.c` 94), and the decoder drops the last two sextets of a
  full group (175).
* Time, environment variables, endian and byte-size macros, version: single calls
  of the platform, or stateless one-liners that the tests cover.

## 7. Plan

1. (done) The ring buffer with its proofs, the arena, the logger, the log file.
2. (done) `FsTree` and `FileIO`: directories changed by two processes, and
   whole files over a C library whose calls may fail. `Paths` and `Rand`.
3. (done) `Atomic` and its refinement of `AtomicWord`, with proof; `Sync`; `Thread`;
   callback sinks in `Logger`; proofs for `Arena` and for `Logger`.
4. `Logger` composed with `LogFile`, so that stamps taken before the mutex meet the
   rotation; `Base64` once it is built: decode inverts encode.
5. (done) Proofs of the logger's delivery and order, of the ring's `size`, the log
   file, threads and locks, files and directories, paths, random numbers.
