# Ringbahn in TLA+

Models, model-checking runs and machine-checked proofs about ringbahn, a safe
API over io-uring for Rust futures. Paths below are relative to the repository;
`completion.rs` is `src/ring/completion.rs`.

* [1. The system](#1-the-system)
* [2. The modules and the code](#2-the-modules-and-the-code)
* [3. What is checked](#3-what-is-checked)
* [4. Fairness](#4-fairness)
* [5. What is proved](#5-what-is-proved)
* [6. What the checks show about the code](#6-what-the-checks-show-about-the-code)
* [7. What is not modelled](#7-what-is-not-modelled)
* [8. Plan](#8-plan)

## 1. The system

An *event* (a read, an accept, ...) is written into a submission queue entry
(SQE); the kernel executes it and posts a completion queue entry (CQE) that
carries the same `user_data`. Ringbahn puts futures on top, and its difficulty is
ownership: a future may be dropped while the kernel still works on its buffer,
and a CQE may arrive on another thread at any moment.

| Component | State | Operations | Talks to |
|---|---|---|---|
| **Completion** `completion.rs` | a boxed mutex around `State`: `Submitted(waker)`, `Completed(result)`, `Cancelled(callback)`, `Empty` | `new`, `check`, `cancel`, `complete` | shared by a Ring and, through `user_data`, io-uring; calls the task's waker |
| **Cancellation** `ring/cancellation.rs` | a type-erased owner of what an event shares with the kernel | made by `Event::cancel`, dropped by `Completion` | stored in a completion |
| **Ring** `ring/mod.rs` | `Inert`, `Prepared(c)`, `Submitted(c)`, `Cancelled(addr)`, `Lost`; a driver handle | `poll` (`poll_prepare`, `poll_submit`, `poll_complete`), `cancel` | the driver, its completion |
| **Drive** `drive/mod.rs` | none: a trait | `poll_prepare`, `poll_submit` | implemented by drivers, called by rings |
| **DemoDriver** `drive/demo.rs` | statics: both queues behind mutexes, an `event_listener::Event`, a `Once`; per handle: a listener | the two of `Drive`, `registrar`, the completion thread | the kernel; wakes tasks that wait for room |
| **Submission** `submission.rs` | a Ring and a slot for one event | `new`, `poll`, `replace_event`, drop | Ring, Event |
| **Events** `event/*.rs` | the event's own data | `prepare`, `cancel`, `sqes_needed` | called by Submission |
| **Buffer** `buf.rs` | data, `pos`, `cap` | `fill_buf`, `consume`, `clear`, `cancellation` | File, streams, Stdout |
| **File** `fs.rs` | Ring, Buffer or statx, `pos`, the active `Op`, fd | read, write, flush, seek, close, drop | Ring, Buffer |
| **TcpStream**, **TcpListener** `net/` | Ring, Buffer or address, `Op`, fd | connect, read, write, accept, close, drop | Ring, Buffer |
| **Unix sockets** `unix/` | wrap or repeat the TCP types | the same | the same |
| **Print, Stdout** `io.rs` | Ring, bytes or Buffer | write, flush | Ring |

What is hard in it, and hard to test, is listed line by line under `hazards` in
`PROJECT.json`. In short: the race between the owner of a completion and the
thread that processes its CQE; memory freed by whoever comes last; wakers that
must be refreshed, and kept by someone at every `Pending`; addresses that are
recycled while somebody still knows them; an event's data changing hands between
future, callback and kernel; the completion queue overflowing; and the handful
of operations (`File`, streams) that share one ring and one buffer.

What makes each component correct:

* **Completion**: freed once and never used afterwards, never leaked; a result
  wakes the task of the latest poll; the `unreachable!()` arms are unreachable;
  the event's data is kept until the CQE and disposed of once; all of it
  indivisible to callers.
* **Ring**: it holds exactly the completion of its event; every `Pending` leaves
  its waker with somebody; an event prepared ends in a result or a cancellation.
* **Submission and Events**: what the kernel was lent is alive and out of the
  user's hands; a result is returned with its own event; no event is lost, and
  none is left in a callback for ever.
* **DemoDriver**: no event lost or repeated; the lock is released by whoever
  leaves; the count of announced CQEs is right; tasks sent away are woken.
* **File, streams, listeners, Stdout, Print**: the one ring and the one buffer
  serve whatever is polled: an operation that is given up takes its memory along
  and leaves the next one neither its result nor its contents; bytes are got and
  put once and in order; a count or an address is that of the call that returns
  it; the descriptor is used as long as it is one's own.

## 2. The modules and the code

```
                 File      Stream + Listener = Sockets      Stdio      (EXTEND Handle, Buffer)
                   \              |                            /
                    IoRing: what a Ring promises to its IO object
                                   ^
                                   | KeepsPromise
  CompletionLock  --implements-->  Completion  <--INSTANCE--  Ring  <--INSTANCE--  Submission
                                                                                      |
  DemoDriver  --implements-->  DriverApi                                       Events (what is lent)
  (one driver, in detail)                                                             |
                                                                               Cancellation
```

Proofs, each in a module that extends the one it is about: `CompletionLockProofs`
and `CompletionLockRefinement`, `RingProofs`, `SubmissionProofs`,
`DemoDriverProofs`, `FileProofs`, `SocketsProofs`, `StdioProofs` (section 5).

**Completion** is the API of a completion object: `New`, `CheckPending`,
`CheckReady`, `Cancel`, `Complete` are one step each. `cell[a]` is the `State` at
heap address `a`, `waker[a]` the waker inside it, `kern[a]` whether io-uring
refers to `a` (SQE or execution, then an unprocessed CQE), `notified` the wake-ups
that have not been acted on. Addresses are a small set and are reused, because
the allocator reuses them.

**CompletionLock** is the same file at its real granularity. `check` is
`CheckCall` (the poll enters), `CheckLock` (lock, `mem::replace` with `Empty`),
then `CheckPending`, or `CheckReady` and, after the lock is released, `OwnerFree`;
`cancel` and `complete` are split likewise. `owner[a]` and `rpc[r]` are program
counters, `saw[a]` and `took[r]` the locals that hold a `State` moved out,
`data[a]` follows the event's data into the callback. Any number of threads may
be in `complete`, as `drive::complete` is public. What the *types* guarantee is
not checked but assumed: a `Completion` value has one owner, who makes one call
at a time. `Atomic == Api!Spec` states that it implements Completion: while a
State is moved out, the abstract object is still in the state the call found.

**Ring** models a poll as up to three steps (`PrepareReady`/`CheckPending`, then
`SubmitReady` or `SubmitPending`), with other rings, kernel and CQEs in between.
The driver is *any* that keeps the contract in `drive/mod.rs`: it may say Pending
whenever it likes if it keeps the waker (`waiters`), may submit at `poll_submit`
or later (`Flush`), and may have no room (`Entries`). A cancelled ring prepends a
hard-linked cancel of the address it kept (`link[a]`, `LinkedCancel`). `Renew`
is a ring dropped after its cancel and another one made in its place.
`UsesCompletions == Cells!Spec` states that rings, driver and kernel together do
to completions only what module Completion allows.

**Submission** adds the slot and follows the event values (`place`, `using`);
its steps are Ring's, conjoined with what happens to the event, and
`UsesRing == R!Spec` says so. **Events** is a table, one line per event type: the
objects whose addresses `prepare` writes into the SQE (`lends`) and those in the
`Cancellation` its `cancel` returns (`keeps`).

**Cancellation** is what makes `keeps` true. The type of the value given to
`Cancellation::from` is forgotten: `IntoRaw` leaves two words of it, and `DropRaw`
has to find in them what to free and with which layout. A pair uses the two words
for its two pointers, which is why its halves must be `CancelNarrow`. `From(v)` is
what is freed when the callback runs, and Events gets `keeps` from it.

**DemoDriver** models `drive/demo.rs` with its statics: the lock around the
submission queue, the queues and the kernel's backlog of overflowed CQEs, a
listener per handle with the states of an `EventListener`, and the completion
thread line by line (`WaitForCqe`, `Count`, `Complete`, `PeekSome`, `PeekNone`).
Each task has one event at a time, through a ring; `call[t]` says whether it is in
`poll_prepare` or `poll_submit`.

**DriverApi** is what all of that amounts to for an event: it is prepared, given
to the kernel together with all others that are, executed, and completed, one CQE
at a time and in the order in which the kernel posted them. `KeepsApi == Api!Spec`
states that DemoDriver implements it; the mapping takes the completion queue and
the kernel's backlog for one queue (`cqes <- cq \o backlog`). Locks, listeners,
full queues, flushes, EBUSY and failing submits are steps that change nothing
there.

**IoRing** is what an IO object may rely on, in five actions: one event at a
time, a result once and for that event, nothing new before it was returned or
cancelled. Ring implements it for each of its rings (`KeepsPromise`), which is
what allows the modules below to be built on IoRing, without drivers, completions
and other rings.

**Buffer** is `buf.rs` as operators on a record `[box, pos, cap, src]`. Contents
are not followed byte by byte but by origin: `src` is the file position (or the
stream's byte number) of the first byte if they were read, and the user's slice
if they are to be written. `consume` looks at no operation in the code
(fs.rs:213, net/stream.rs:165), so in File and Stream it is an action of its own
that may come upon a write under way. **Handle** is what `File`, `TcpStream`, `TcpListener`
and `UnixListener` repeat: `active`, `guard_op` (polling another operation cancels
the one in flight with a callback that keeps its memory), the two outcomes of a
poll of the ring, close with `confirm_close`, and `Drop`. `orphans` are cancelled
events the kernel still has: with the memory they keep, no longer with whose bytes
they write (`Kept`), as nobody is told. A handle is polled through `Pin<&mut Self>`, so a
poll is one step; the kernel and the user interleave between polls. A poll that
returns `Pending` may have prepared its event or, if the driver was not ready,
not.

**File** adds the position, the three seeks (`SeekFrom::End` needs a statx, for
which the buffer makes place: `StatxBuf`), the 64-bit arithmetic (`Advance`,
`ValidSeek` over `MaxPos`), the conversion to a standard file and `Drop`. What
the properties need to know of the user is in `next` (the byte to get or put
next), `owed` and `wrote` (which slice was polled with, which was written) and
`strayed`. A change of operation drops bytes read and not consumed and leaves the
position past them: `Skipped` says how many, and `next` moves by exactly these.
**Stream** has no position but a peer that sends numbered bytes and ends; its
`guard_op` takes the allocation and leaves the counters. **Listener**
has the memory for the address instead. **Sockets** lets them follow one another,
so that the memory kept by cancelled events of one meets the next; `UnixStream`
is a Stream (it forwards every poll), `UnixListener` a Listener that only accepts
without an address. **Stdio** has `Print`, whose poll goes on to the rest after a
short write, and `Stdout`; `left` are the writes of dropped ones.

Names of definitions follow the code; `PROJECT.json` (`map`) gives the lines of
each. Definitions whose comment begins with "Faulty" are not part of any
specification: they are deliberate bugs, listed under `mutants`, each of which
must make one property fail.

## 3. What is checked

| Run | Bounds | Shows |
|---|---|---|
| `completion_lock` | 2 addresses, 2 tasks, 2 threads (13 k states) | `NoUseAfterFree`, `UnreachableArms`, `KernelDataAlive`, `ResultWakesLatestTask`, `SomeoneFrees`, `DisposedOnce`, `EventuallyFreed`, and the refinement `Atomic` |
| `ring` | 2 rings, 2 addresses, 3 SQEs (41 k) | `SoleOwner`, `UserDataValid`, `ParkedWillBeWoken`, `AwaitedResolves`, and the refinements `UsesCompletions` and `KeepsPromise` |
| `submission` | 2 submissions, 2 addresses, 3 SQEs, 2 events (72 k) | `ResultIsOfTheSlot`, `NoEventLost`, `CallbacksRun`, and the refinement `UsesRing` |
| `events` | 1 submission, 1 address, all 23 event types (26 k) | `LentDataAlive` for every type (for more submissions by the proof: `LentDataStaysAlive`) |
| `demo_driver` | 3 tasks, queues of one entry (290 k, symmetric tasks) | `LockHeldInside`, `EventInOnePlace`, `ReadyCounts`, `RegistrarClosed`, and the refinement `KeepsApi` |
| `demo_liveness` | 2 tasks, queues of one entry | `SubmittedReturns` |
| `file` | 2 allocations (symmetric), buffer of 2 bytes, positions 0..3, slices of 0 and 3 bytes (1.3 M) | `LentBufferAlive`, `ReadsAreContiguous`, `WriteReportsItsSlice`, `FdIsOwn` |
| `sockets` | 2 allocations (symmetric), buffer of 2 bytes, a peer that sends 2, slices of 0 and 3 bytes, connections numbered 1..3 in a circle (1.3 M) | `LentMemoryAlive`, `StreamIsFaithful`, `AddressIsOfTheConnection` |
| `stdio` | 2 allocations (symmetric), buffer of 2 bytes, texts of 0 to 3 bytes, one borrowed, 4 bytes put out, 1 write left behind (0.9 M) | `OutputIsAccountedFor` |
| `stdio_dropped` | as `stdio` | a violation: section 6 |
| `ring_foreign_cancel` | as `ring` | a violation: section 6 |
| `demo_lost_wakeup` | as `demo_driver` | a violation: section 6 |

Why the bounds are enough for the cases to happen:

* A completion is touched by its owner and by at most one CQE. Two addresses,
  two tasks and two threads give the owner moving between tasks, two threads in
  `complete` at once, and an address freed and reused while a thread is still in
  a call on the other.
* With two rings and two addresses a ring's cancelled address is reused by the
  other ring (`ring_foreign_cancel` needs just that). Three SQEs hold one event
  with its cancel and another event, so both "no room" and "room for one but not
  for two" occur. More addresses than rings would only add room.
* In `submission` there are more places for events (two slots, two callbacks)
  than events, so events are also waited for; one of them lends two objects.
* In the demo driver a queue of one makes the second task find it full; a
  completion queue of one makes the second CQE overflow; the third task is the
  one refused with EBUSY. `Entries` and `CqEntries` are 32 and 64 in the code and
  matter only by being full. EBUSY, the listeners and the panic of a spent
  listener need three tasks, so they occur in `demo_driver` and not in
  `demo_liveness`, whose two tasks reach the full queue and the overflow.

* A buffer of two bytes can be partly consumed; one slice is longer than it, the
  other is the empty one that `poll_flush` writes, so the user can go on with
  another slice, write after a short write and overwrite what was consumed. A file
  of three bytes has an end in the middle of a buffer, and with `MaxPos` at 3 the
  position wraps. With two allocations, one is the handle's and the other a
  cancelled event's, or both are cancelled events'
  and the next operation has to wait for memory: it is then merely not offered.
  `MaxSent`, `MaxConn`, `MaxOut` and `MaxLeft` bound what peers and callers do,
  not the code.

Where the code relies on its user, the property says so. `strayed` (File) holds
the ways in which the user left what a property presupposes, and each is needed:
TLC refutes the property without it.

| Way | The user | Excepted in | Until |
|---|---|---|---|
| "seek" | seeks (`Start` or `Current`) upon a read or write under way, or upon buffered bytes | `ReadsAreContiguous` | another operation is polled, or a seek comes upon neither |
| "slice" | polls a pending or failed write with another slice, as `poll_flush` does | `WriteReportsItsSlice` | another operation is polled |
| "consume" | calls `consume` with bytes in the buffer that are to be written | the contents in `LentBufferAlive` | another operation is polled |
| "close" | goes on with a file whose close was given up or failed, or makes an `fs::File` of one whose close was given up | `FdIsOwn` | the next file is opened |
| "convert" | makes an `fs::File` of a file whose close had succeeded | that `fs::File`, in `FdIsOwn` | the next file is opened |

Not an exception but part of what `ReadsAreContiguous` says: at a change of
operation the bytes that were read and not consumed, and no others, are skipped.

Of a stream, `discarded` is a change of operation with bytes in the buffer or a read
in flight (excepted in `StreamIsFaithful`), and `consumed` a `consume` upon bytes
that are to be written, until that write is done or given up (excepted in what
`LentMemoryAlive` and `StreamIsFaithful` say of a write's contents, never in what
they say of memory, reads or the end of the stream). Of a listener, `mixed` is a
pending accept without an address polled on as one with. Section 6 says what
happens then.

`TypeOK` is each module's one type invariant; in Ring it also says that no poll
leaves the ring `Lost`. In the first six modules nothing is capped: the state spaces are finite as they
are. Deadlock is checked in all runs but those of the demo driver, where the
system may really stop: all tasks may have panicked, or wait for a completion
thread that exited (section 6).

Every property of a passing run has a mutant: a plausible bug in a mapped
definition that makes TLC report that very property.

## 4. Fairness

Safety does not depend on it. Liveness assumes, by name in each `Fairness`:

* *The kernel finishes every event it was given* (`WF(Post)`), a linked cancel
  runs, and CQEs are processed in order (`SF(\E r : Reap(r, a))`: the completion
  queue is first in, first out, so a CQE is not passed over for ever; for the demo
  driver the order is proved, `ImplementsDriverApi`).
* *Threads go on*: a call that was entered continues. Acquiring a lock is
  strongly fair, since `parking_lot` mutexes are eventually fair; weak fairness
  would not do, as the lock is free again and again.
* *The executor polls tasks that were woken*, with the waker's current task
  (`PollWoken`, `PollScheduled`). A task is never assumed to be polled otherwise,
  which is what makes lost wake-ups visible as liveness violations.
* *A driver keeps the contract of `Drive`*: it wakes the tasks it sent away
  (`WF(WakeWaiters)`) and the queue is submitted in the end (`WF(Flush)`). For the
  demo driver the second becomes `SF(SubmitOk)`: a submit that is attempted for
  ever does not fail for ever. Nobody is obliged to start, to cancel or to drop.

## 5. What is proved

By TLAPS, for every value of the constants: any number of addresses, tasks,
threads, rings, events, slices, queues of any size. What the constants are assumed
to be is named in each module (`SentinelAssumption`, `RingAssumption`,
`SubmissionAssumption`, `DemoAssumption`, `FileAssumption`, `StreamAssumption`,
`ListenerAssumption`, `SocketAssumption`, `StdioAssumption`, `NoEventAssumption`):
that the "none" values are none of the others, that sizes are natural numbers, and
that the tasks of the demo driver are finitely many, as its counter counts them.
TLC evaluates the assumptions in the runs.

Every module has an inductive invariant `IInv` (theorem `Invariance`), as no
property is inductive by itself; one lemma per action shows that the action
preserves it, `NextIInv` puts them together, and the properties follow from `IInv`
without further induction.

**CompletionLockProofs**: the safety properties of `completion_lock`.

| Theorem | Property |
|---|---|
| `TypeCorrect` | `TypeOK` |
| `NeverUsedAfterFree` | `NoUseAfterFree` |
| `ArmsUnreachable` | `UnreachableArms` |
| `KernelDataStaysAlive` | `KernelDataAlive` |
| `LatestTaskIsWoken` | `ResultWakesLatestTask` |
| `NeverLeaked` | `SomeoneFrees` |
| `DataDisposedOnce` | `DisposedOnce` |

`IInv` says who may touch an object in each state:

* `RefInv`: a CQE is with one thread, and gone from the queue while it is.
* `LockInv`: whoever is in a critical section holds the lock, alone.
* `OwnerInv`: what the owner finds at each point of its calls. The step that
  matters: an owner outside of the lock may find `Empty`, but only while it
  cannot get the lock.
* `CellInv`: an object is `Submitted` or `Cancelled` (or taken out by an owner
  who will put `Submitted` back) exactly as long as its CQE has yet to come or to
  get the lock; a free object has no CQE and no thread. This equivalence is what
  makes freeing after releasing the lock safe.
* `ReaperInv`: a thread in `complete` has taken `Submitted` and the owner is
  outside, or `Cancelled` and there is no owner.
* `DataInv`, `WakerInv`, `WakeInv`: where the data is; the waker stored is that
  of the latest poll; a result that is there was announced, or is just being.

**CompletionLockRefinement**: `ImplementsApi`, the safety part of `Atomic`:
initial states are initial, and each step is one of Completion's or changes
nothing there. Two more facts are needed, that a box is freed only by an owner
that found a result or a thread that found a callback (`FreeInv`), and that
`AbstractCell` and `AbstractKern` change for the one object a step is about
(`OwnerOthers`, `CompleterOthers`). A call takes effect where it puts a `State`
back, wakes, or frees.

**RingProofs**: the safety properties of `ring`, and its two refinements.

| Theorem | Property |
|---|---|
| `TypeCorrect` | `TypeOK` (no poll leaves a ring `Lost`) |
| `OwnerIsSole` | `SoleOwner` |
| `UserDataIsValid` | `UserDataValid` |
| `ParkedIsWoken` | `ParkedWillBeWoken` |
| `ImplementsCompletion` | the safety part of `UsesCompletions` |
| `PromiseKept` | `KeepsPromise` |

The invariant: `SoleOwner` and `UserDataValid` themselves; the waker in an
awaited completion is that of the ring that holds it (`WakerInv`); a ring has been
woken through the completion it holds if and only if that has a result
(`NotifiedInv`), which is what a stale wake-up from a recycled address would break;
a task that was sent away has an event or the driver has seen to it (`ParkedInv`).
`PromiseKept` is what the models of the IO objects stand on.

**SubmissionProofs**: the safety properties of `submission` and `events`.

| Theorem | Property |
|---|---|
| `TypeCorrect` | `TypeOK` |
| `ResultIsOwn` | `ResultIsOfTheSlot` |
| `EventsAreKept` | `NoEventLost` |
| `LentDataStaysAlive` | `LentDataAlive`, if every event is of one of `EventKinds` |
| `CallbackFreesAll` | (Cancellation) whatever its type, a callback frees what the value owned |
| `ImplementsRing` | the safety part of `UsesRing` |

The invariant contains the ring's, by the lemmas of RingProofs (`RingInvariant`),
and says that an event in a slot is in that one only (`SlotInv`), that the
completion a submission awaits is of the event in its slot (`HoldsInv`), and that
stored callbacks are of different events (`CallbackInv`). That no event lends what
its callback does not keep is proved type by type (`EveryKindKeeps`).

**DemoDriverProofs**: the safety properties of `demo_driver`, and its refinement.

| Theorem | Property |
|---|---|
| `TypeCorrect` | `TypeOK` |
| `LockIsHeldInside` | `LockHeldInside` |
| `CounterIsRight` | `ReadyCounts` |
| `RegistrarIsClosed` | `RegistrarClosed` |
| `NoEventIsLost` | `EventInOnePlace` |
| `ImplementsDriverApi` | `KeepsApi` |

The argument goes by the CQEs the thread has not taken,
`Cqes == cq \o backlog`: flushing the backlog does not change them (`FlushKeeps`),
a post appends one and a take removes the first. `PlaceInv` says that each event
under way is in the queue, with the kernel, among the CQEs, with the thread or
done, and in one of these. As no task is there twice, no more CQEs wait than there
are tasks (`NoRepeatsBound`, by the pigeonhole principle), which bounds the queues
and the counter in `TypeOK`. `Cqes` is also what the refinement maps the two queues
to, and `PlaceInv` why a task that prepares an event is idle in DriverApi.

**FileProofs**: the safety properties of `file`.

| Theorem | Property |
|---|---|
| `TypeCorrect` | `TypeOK` |
| `BufferStaysAlive` | `LentBufferAlive` |
| `ReadsFollowOn` | `ReadsAreContiguous` |
| `CountIsOfTheSlice` | `WriteReportsItsSlice` |
| `DescriptorIsOwn` | `FdIsOwn` |

Here the invariant relates the buffer, the event and the user's view: the event in
flight is of the operation polled last (`EventInv`) and works on the buffer's own
allocation (`BoxInv`); its result is within what was asked for, so that the
position stays in range (`ResultInv`); what is in the buffer was read from where
the position says, or comes from the slice `poll_write` is called with
(`ContentsInv`). `ReadsFollowOn` is of reads and writes in any order, with what a
change of operation skips (`Skipped`) counted. The hard cases are `consume`, which
may come upon anything (`ConsumeStep`), `guard_op`, where all of this has to hold
for the next operation although the last one goes on, and `SeekFrom::End`, which
puts a statx where the buffer was.

**SocketsProofs**: the safety properties of `sockets`.

| Theorem | Property |
|---|---|
| `TypeCorrect` | `TypeOK` |
| `MemoryStaysAlive` | `LentMemoryAlive` |
| `BytesAreFaithful` | `StreamIsFaithful` |
| `AddressIsTrue` | `AddressIsOfTheConnection` |

The three properties are part of the invariant, and three things hold it together.
An event in flight uses the memory of the handle there is (`EventInv`; `Mine` is
the buffer or the address), so that `guard_op` and `Drop`, which give `Mine` to the
cancellation, give what the kernel uses (`OrphansKept`); memory newly allocated is
no orphan's (`OrphansStay`). A write is of the whole of what is in the buffer, as
long as nothing of it was consumed (`ContentsInv`). A read is made only with an exhausted buffer
(`ReadInv`), which is why its result is what comes next; and where nothing was
discarded no read that was given up goes on (`ContentsInv`), or it would take bytes
from the peer that nobody sees. An accept that succeeded wrote its own address
(`AddressInv`). `StreamGives` and `ListenerGives` reduce a step of one kind of
handle to what that kind has; `NewHandleStep` lets the next handle inherit only the
memory that cancelled events keep.

**StdioProofs**: the safety properties of `stdio`.

| Theorem | Property |
|---|---|
| `TypeCorrect` | `TypeOK` |
| `NoByteIsLost` | `OutputIsAccountedFor` |
| `OwnBytesStayAlive` | `OwnBytesAlive`, the half of `LentBytesAlive` that holds |

What a `Print` has under way is the rest of its text, from where the last write
ended (`PrintInv`, and `BytesAdd` for a text put together from its parts); what
`Stdout` has buffered or under way is the text of the `poll_write` that is Pending,
unless the user strayed (`StdoutInv`); and its bytes are in its own allocation
(`BoxInv`).

So each safety property of a passing run is a theorem, type invariants included.
Only model-checked: liveness (`EventuallyFreed`, `AwaitedResolves`,
`CallbacksRun`, `SubmittedReturns`) and everything about fairness, with it the
liveness parts of `Atomic`, `UsesCompletions` and `UsesRing`, all of which are
beyond the prover. No recursive operator is used anywhere.

## 6. What the checks show about the code

Three disagreements between code and documentation, each with a run whose
counterexample shows it:

1. **A cancel may hit another ring's event** (`ring_foreign_cancel`).
   `State::cancel` keeps the address of the completion it gives up, and the next
   `poll_prepare` links a cancel of that address before its event. The completion
   may have been freed and the address reused by then; the kernel then cancels an
   event that another task awaits. `ring/mod.rs:179` says "Cancel any ongoing IO
   with this cancellation." The awaiting task gets `ECANCELED` and nothing worse:
   all other properties of Ring hold in the same model.
2. **EBUSY parks a task without a waker** (`demo_lost_wakeup`).
   `poll_submit_inner` returns `Pending` right after creating a listener it has
   not polled (`drive/demo.rs:48-50`), against `drive/mod.rs:49-51`. If the task
   has no event in flight (it was in `poll_prepare`) nobody will wake it.
3. **Dropping a Print or a Stdout frees memory the kernel reads**
   (`stdio_dropped`). Neither implements `Drop`, which `ring/mod.rs:28-30` makes
   the duty of whoever has a Ring; a `print!` that loses a `select!`, say, leaves
   its write in flight on bytes that are freed. The README promises "100% memory
   safe". Nothing else goes wrong there: by `OwnBytesStayAlive` the bytes of a
   handle that was not dropped are its own.

Seen while modelling, part of the models, and not counted as findings because
nothing in the repository promises otherwise: a listener that has completed stays
in the handle and panics when polled again (`InnerPanics`, demo.rs:41-43); an
error of `wait_for_cqe` ends the completion thread for good (`WaitFails`,
demo.rs:131); errors of `submit` other than EBUSY are dropped, by `poll_prepare`
in a loop that holds the lock (`SubmitError`, demo.rs:83) and by the ring
(ring/mod.rs:138). `SubmittedReturns` excepts the first two.

Of the same kind, in the IO objects, and excepted by name in the properties:

* a seek while a read or write is pending has its target moved by the length of
  that operation (fs.rs:264 with 208 and 230), and one upon buffered bytes leaves
  them to be read first;
* a write that failed, or whose future was dropped while pending, stays in the
  buffer: the next `poll_write` writes the old bytes and returns their count,
  which may exceed the length of its slice; a `poll_flush` takes a pending write's
  result (fs.rs:223-232, and the same in the streams and in Stdout);
* `consume` is a safe method that looks at no operation (fs.rs:213,
  net/stream.rs:165): called with a write pending it moves the counters of the
  buffer the kernel is reading (buf.rs:37), and once it has passed all of it, the
  next `poll_write` copies its slice into that same memory while the kernel may be
  reading it. The memory stays alive and the handle's; what is written is then
  either slice or a mixture, and the count is the first one's. Whether that is
  within "100% memory safe" (src/README.md:8), which says nothing of races with the
  kernel, is for the authors to say;
* bytes read and not consumed are dropped when another operation is polled, and the
  position stays past them, so a file skips them (fs.rs:103-105 with 208); the
  doc of `read_buffered` (fs.rs:88-92) has the user copy them out first;
* a close that is given up or fails leaves a file that may use a descriptor that
  is closed (fs.rs:104, 253), and `From<File>` makes an `fs::File` of whatever
  descriptor there is, also of a file whose close had succeeded (fs.rs:300-308);
* after a stream discarded its buffer with bytes unread, the counters stay, and
  the next read returns no bytes, as at the end of the stream
  (net/stream.rs:68 with buf.rs:26 and 50);
* a pending `accept_no_addr` polled on by `poll_accept` returns an address nobody
  wrote (net/listener.rs:178);
* a handle dropped after any operation leaks its descriptor (fs.rs:315).

## 7. What is not modelled

* System calls before any IO is submitted: `socket()`, `bind`, `listen`,
  `socketpair` (`net/mod.rs`, `unix/mod.rs`). A handle begins where they, or the
  Submission of its open, accept or connect, succeeded. The named futures and
  streams around the polls (`Accept`, `Incoming`, ...) forward to them, and the
  formatting macros are a Print of some text.
* What a user can only do by breaking a type's contract and meets a panic for:
  polling a closed handle, `consume` on a file whose buffer is a statx (after a
  seek from the end).
* More than one SQE for an event on the demo driver: `PrepareSqe` takes one. A ring
  that cancelled asks for one more (ring/mod.rs:114, demo.rs:80), and the cancel it
  links posts a CQE of its own. Such pairs are in module Ring, on any driver; in
  DemoDriver they would make the queue full sooner and add CQEs that wake nobody.
* What `ring/cancellation.rs` takes from the language: that a `Box<T>` is rebuilt
  with the layout of `T`, and that nobody moves the nul of a C string while the
  kernel has its pointer (its length is looked for again).
* The kernel and io-uring are external and modelled from how the code uses them:
  submission takes the whole queue, hard-linked SQEs run in order, a cancel finds
  a running event by `user_data` or does nothing, overflowed CQEs wait in a
  backlog (`NODROP`), submitting with a backlog that does not fit is EBUSY,
  submitting an empty queue does not enter the kernel.
* The memory order of the mutex and of wakers (both are sequentially consistent
  in the models), the contents of results, SQE encodings, `lib.rs`, the tests and
  the examples.
* `State::Lost` after a driver that calls `prepare` and drops the completion, and
  polling a future after it is ready: both panic, and both are outside the
  contracts of `Drive` and `Future`.
* Wakers that poll the future from inside `wake()`: `complete` holds the
  completion's mutex there (completion.rs:93) and would deadlock.

## 8. Plan

Done: Completion, CompletionLock, Ring, Submission, Events, Cancellation,
DemoDriver, DriverApi; IoRing, Buffer, Handle, File, Stream, Listener, Sockets,
Stdio; their runs; the proofs of section 5.

Next, in this order:

1. Descriptors that are the result of events whose future was dropped (an accept
   or open given up while it succeeds), and handles dropped with an operation.
2. What can be proved beyond the properties of the runs: of Cancellation, that a
   callback frees each object once; of DriverApi, that an event prepared again has
   been returned.
