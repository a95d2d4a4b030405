# A TLA+ verification of cynosure

cynosure is a Rust crate of concurrency primitives for thread-per-core async
executors. Its single-threaded half (`src/site_c`) is built on `Cell` and waiter
queues, its cross-thread half (`src/site_d`) on atomics and one shared wakeup
core. This directory models both, model-checks them with TLC on small instances,
and proves the central invariants with TLAPS. Paths and line numbers below are
relative to the crate's `src/`; `PROJECT.json` maps each definition to the lines it
translates.

## Inventory

| part | source | module | state of the model |
|---|---|---|---|
| wakeup core: `AtomicWaker`, `WaiterSlot` | `site_d/notify.rs` | `Notify` (one access per step), `AtomicSlot` and `AtomicFlag` (what it promises), `WaiterSlot` and `FlagSlot` (their operations, for users) | complete, safety and both refinements proved |
| oneshot channel | `site_d/oneshot.rs` | `Oneshot` | complete, safety proved |
| SPSC ring buffer | `site_d/ringbuf.rs` | `RingBuf`, `BoundedFifo` (what it promises) | all calls but the `io` adapters, safety and refinement proved |
| `LocalMutex` | `site_c/mutex.rs` | `Mutex` | complete, safety proved |
| `LocalRwLock` | `site_c/rwlock.rs` | `RwLock` | complete, safety proved |
| `LocalSemaphore` | `site_c/semaphore.rs` | `Semaphore` | complete, safety proved |
| `LocalBufferPool` | `site_c/pool.rs` | `Pool`, which extends `Semaphore` | complete, safety proved |
| waiter queues shared by the three locks and the light channel | `register`, `deregister`, `take_where` in each | `LocalWaiters` | operators |
| `Queue` | `site_c/queue.rs` | `Queue`, `Deque` (what it promises), `Sublists` (their selections) | complete, safety and refinement proved |
| light MPSC channel | `site_d/mpsc_light.rs` | `MpscLight` | complete, safety proved |
| triple buffer | `site_d/triplebuffer.rs` | `TripleBuffer` | complete, safety proved |
| bip buffer | `site_d/bipbuffer.rs` | `BipBuffer` | complete, safety proved |
| aligned buffers, padding, branch hints | `site_d/buffer.rs`, `site_d/padding.rs`, `hints.rs` | - | no protocol to check |
| `block_on` | `blocking.rs` | - | covered by the polling rules below |
| benches, chart generator | `benches/`, `tools/` | - | out of scope |

How the parts interact: every `site_d` primitive parks on one or two
`WaiterSlot`s. The pool is a stack of buffers behind a `LocalSemaphore`. The three
`site_c` locks keep their waiters in a `Queue`; their modules use a plain sequence,
which `Queue` implements (`QueueIsDeque`). They share one design: a queue of
`(token, waker)` entries, a lock
attempt before and after registering, and "pass the turn on" when a future is
dropped.

## How the models are built

**Threads and memory order (`site_d`).** One step is one access to shared state:
an atomic operation, an access to the waker cell, or one unsynchronised copy.
Steps of all threads interleave under sequential consistency. The code justifies
this where it matters: both halves of the arm/re-check and publish/signal
handshake are `SeqCst` (the contract at `notify.rs:119-136`), and the
compare_exchange, fetch_or and swap on `AtomicWaker.state` are ordered by being
read-modify-writes of one location. The accesses that are weaker are the `Relaxed`
store of `TAKEN`, which has no concurrent writer (`PlainStoresLoseNothing` is
that claim), the `Relaxed` store of `disarm`, which the same thread's next `arm`
follows in the flag's modification order, the `Acquire` loads of the oneshot's
sender, for which an older value is the same as an earlier load, and those of
`free_count` and its like, which decide no parking. Reorderings that only these
allow are not modelled. In `mpsc_light` the lock orders the handshake: a push and the
consumer's re-check are both critical sections, so whichever comes second sees what
the other thread did before its own, the armed flag or the item. A `Relaxed` load of
`waiters_len` that returns an old value is the same as an earlier load.

**Layers.** `Notify` has the accesses of `notify.rs`, driven by a caller that
follows the documented contract: the flag `ready` stands for the caller's
published state. It is checked to implement `AtomicSlot`, where `register` and
`wake` are each one step. `Oneshot`, `RingBuf` and `MpscLight` use the operators of
`WaiterSlot` for their slots, so they keep the interleavings of `signal()`
(flag load, swap, wake) without the steps inside `AtomicWaker`. A register in the
atomic slot either stores the waker or fires it at once, nondeterministically;
this is what a racing wake does. `TripleBuffer` uses these operators too.

`Notify` is also checked to implement `AtomicFlag`, which is coarser: `arm`, `disarm`
and `signal` are one step each, because a signaller that has claimed the flag owes the
waiting task its wake and nobody can take that back. `BipBuffer`, with four actors and
signals of several threads under way at once, uses its operators (`FlagSlot`).

**The triple buffer.** The private index of each side is stored together with
`middle_idx` in one step, since only its own side reads it. The `Relaxed` accesses to
the indices and the unsynchronised ones to the slots are ordered by `generation` and
`last_read_gen`: each side touches them only after it has seen the other's release of
that counter. The n-th publication fills its buffer with the stamp n and gives it the
length n, so a mixed-up buffer or length shows. A caller may keep a buffer, once; the
writer then panics on an empty middle slot after its generation is out and before it
wakes the reader, which is why the reader's half of `TripleParkedIsServed` excepts it.

**The bip buffer.** A grant is `Send`, so its holder is an actor of its own. The
producer's loads of `wip`, `write` and `read` are one step: while `wip` is clear only
the producer moves `write`, and `read` is the one load that races. The same holds for
the consumer's loads of `rip` and the first `epoch`. Stores of a flag by the side that
alone tests it are merged with the step before. The epoch counts modulo 4: a second
reset needs a commit and a release, so at most one falls into a `try_read`. Bytes are
named by their position; `unread` is the history the code does not keep.

**The queue.** A call runs to its end without user code, except for predicates and
destructors. These matter when they panic, and then the call ends there, which is an
action of its own. `take_where` with a panicking predicate leaves what `retain` leaves.
The inline size is a field of the state, so one run covers several instances of the
generic type.

**The spin lock of `mpsc_light`.** Taking the lock is a step and the critical section,
with its unlock, another; threads without the lock run in between. A section as one
step hides nothing: what it shares with code outside the lock is `nonempty`,
`waiters_len` and `closed`. The first two are read outside the lock by the consumer
only, one load at a time; `closed` is set by the consumer, which then has to take the
lock. A waiter's id is the sender itself, since a `send` deregisters its old id before
it parks again; the order of the ids is the order of parking. The wakers a section
takes out are fired after it, in steps of their own.

**Callbacks (`site_c`).** These primitives run on one thread, but `Waker::clone`,
the drop of a waker and `wake` are user code, and an executor may poll inside
them. A call that reaches such a callback becomes a frame on `stack`. The top frame
goes on, or a new call starts above it. This gives every nesting of polls, drops
and releases the code can meet. A wake that is the last thing a call does needs no
frame. Tokens are the futures themselves, so the wrap of the `u64` token counter is
not modelled; two futures sharing one waker are distinct, as they are in the code.
"The same waker as before" is a Boolean choice of each poll. When an entry is
replaced, a wake delivered earlier is forgotten, because it may have gone to the
replaced waker.

**Polling and fairness.** A future may be polled at any time, woken or not, and
dropped whenever it is not being polled. Fairness is assumed for three things only:
a call that has started goes on, a task whose waker fired is polled, and (for the
locks) guards are dropped. A thread that runs, an executor that honours its wakers,
and a caller that does not leak guards provide these. Nobody is obliged to call,
send, cancel or poll spuriously. `block_on` fits the same rules: `thread::park` may
return at any time and must return after an unpark.

**Slips.** Definitions commented "A slip" are wrong variants of the definition they
precede. No specification uses them; each shows that some property notices that
mistake.

## Runs

| run | instance | checks |
|---|---|---|
| `notify` | 2 wakers, 2 signallers | `CellExclusive`, `NoLostWakeup`, `ParkedIsServed`, and that the file implements `AtomicSlot` and `AtomicFlag` |
| `oneshot` | oneshot: the full state space, no constants; triple buffer: generations modulo 3 | `ValueMovedOnce`, `PlainStoresLoseNothing`, `NoLostWakeup`, `ParkedResolves`, `TypeOK`; `ThreeBuffers`, `TakesEveryPublication`, `TripleParkedIsServed` |
| `buffers` | queue: 4 elements, inline sizes 0 to 3; bip buffer: capacity 3, requests of 1 and 3 | `RingIsConsistent`, and that `Queue` implements `Deque`; `GrantsAreExclusive`, `BipNoLostWakeup`, `NoStandoff` |
| `ringbuf` | capacity 2, indices modulo 4, slices up to 2 | `CopiesAreExclusive`, `NoLostWakeup`, `CountSurvivesCancel`, `ParkedIsServed`, and that it implements `BoundedFifo` |
| `mpsc_light` | 2 senders that send at most 3 and 1 items, capacity 2, 2 rounds of spinning | `ExactlyOnce`, `GlobalFifo`, `EndMeansDrained`, `NoLostWakeup`, `NoStrandedSender` |
| `mutex` | 4 futures, callbacks to any depth | `GuardIsExclusive`, `EntriesAreLive`, `FreeLockHasHeir`, `FreeLockIsTaken` |
| `rwlock` | 2 readers, 2 writers, up to 3 nested callbacks | `GuardsExclude`, `EntriesAreLive`, `FreeLockHasHeir` |
| `semaphore` | needs 2, 1, 1; at most 3 permits | `PermitsConserved`, `SatisfiableFrontIsWoken`, `FifoFair` |
| `pool` | 4 futures, 2 buffers | `PermitImpliesBuffer`, `BuffersConserved` |
| `ringbuf_count`, `rwlock_starve`, `semaphore_requeue` | as above | expected violations, see Findings |

`MCOneshot` and `MCBuffers` each put two structures that share nothing into one run: the
variable `part` says which of the two a behaviour is about, and the other never moves.

Why the bounds are enough to be interesting:

- `notify`: with two wakers a future can move between tasks. With two signallers
  one can hold the cell while the other finds it taken.
- `oneshot`: three generations are the fewest that tell "one behind" from "two behind";
  the counter wraps in every long behaviour.
- `buffers`, queue: with four elements and up to three inline slots the ring is empty,
  full and rotated to every position, and every way to the heap is taken. Size 0 is the
  ring without a slot.
- `buffers`, bip buffer: with capacity 3, requests of 1 and 3 and commits and releases of
  every length, data wraps, leaves a watermark, drains and strands the cursors.
  `Overlap = FALSE` bounds the calls: only one side at a time is called while its own
  holder is not through with its signals. With `Overlap = TRUE` and requests 1, 2 and 3
  the instance has 6.8 million states and the same properties hold; it is too large to
  keep as a run. The proofs are for both values.
- `ringbuf`: capacity 2 with slices of 2 reaches full, empty, partial batches and
  two-part copies. Indices modulo 4 wrap at twice the capacity, so the wrap of the
  `usize` counters happens in every long behaviour. Items are numbered, because the
  buffer never looks at them.
- `mpsc_light`: capacity 2 with four items fills the queue with both senders parked
  behind it, so a woken sender can be cancelled while another waits, and a steal
  leaves items staged while new ones arrive. `Quota` bounds successful sends; failed
  and cancelled ones are unbounded. `RecvSpin = 2` takes both ways out of a round.
  The run may stop: both sides can be dropped.
- `mutex`, `rwlock`: a holder, a woken heir, a queued waiter and a barging caller
  exist at once. `MaxDepth` bounds nested callbacks in `rwlock`; in `mutex` the
  number of futures does.
- `semaphore`: one request of two permits blocks the head of the line while others
  ask for one. `MaxPermits` bounds `add_permits`; the `checked_add` panic at
  `usize::MAX` lies outside.
- `pool`: more borrowers than buffers, so that a drop, a cascade and a barging
  `try_acquire` meet. Futures and buffers are symmetric.

`semaphore` is run with `WakerChanges = FALSE`, since the property fails otherwise
(see Findings). `pool` is run with `WakerChanges = TRUE`.

## Findings

- **Count of a counted slice transfer** (`ringbuf_count`). `push_slice_counted`
  says it writes the count "on every step", but both `Ready` returns of
  `PushSliceFuture::poll` (`ringbuf.rs:754-756`, `773-776`) come before the write,
  and `PopSliceFuture::poll` is the same. A caller that trusts the count after
  completion sees too small a number. After cancellation the count is right
  (`CountSurvivesCancel`).
- **Writers can be starved** (`rwlock_starve`). `wake_next` pops the writer it
  wakes (`rwlock.rs:254`). Until that writer is polled nobody is queued, so new
  `read().await` calls succeed. With overlapping readers the writer may lose this
  race for ever although every woken task is polled, against "writers are not
  starved by a stream of readers" (`rwlock.rs:43-44`).
- **A satisfiable waiter is left asleep** (`semaphore_requeue`). A queued `Acquire`
  polled with another waker goes to the back of the queue (`semaphore.rs:188-189`)
  and no `wake_next` follows. With one permit free, a front that asks for two and a
  second that asks for one, the second becomes the front and sleeps beside its
  permit. The future that was polled has lost its place in the line, too.

Behaviours met on the way that contradict no documentation:

- If wakers poll inline, the reader loop of `RwLock::wake_next` (`rwlock.rs:259-263`)
  pops readers that re-register behind a queued writer, and does not end. This is why
  `rwlock` states no liveness under callbacks.
- Cancelling the only queued writer while a reader holds the lock wakes nobody
  (`rwlock.rs:249`): readers that deferred to it sleep until that holder releases.
- Dropping one handle of a triple or bip buffer wakes nobody. A peer that is parked then
  stays parked, as it would with an idle peer.
- The fairness of the spin lock of `mpsc_light` is not promised and not assumed.

## Proofs

Eight modules hold proofs; each extends the modules it is about. `WaiterProofs` has lemmas
about the operators that several models share: what the operations of a slot do to its
type, its waker and a wake on its way, and what entering or leaving a call does to the
stack of callbacks and requeueing to a queue.

**`HandoffProofs`**, for the two structures that hand something from side to side.
`Oneshot!Spec` has no constants:

- `TypeCorrect`: `TypeOK` with `RefsInv`, which ties the reference count to the two
  handles still alive. Without it `refs - 1` could leave its range.
- `PositionsPinValue`: `SenderInv` and `ValueInv`, the inductive core. They say what
  each position of the sender and the receiver implies about the state bits and
  about where the value is. Neither property below is inductive without them: `send`
  stores a state it loaded several steps earlier, which is harmless only because
  nothing but `RECEIVER_DROPPED` can be set before the publish, and `take_value`
  does the same after the sender's last write.
- `ValueMovedExactlyOnce`, `PlainStoresAreSafe`: the properties of the same name as
  consequences of it.
- `WakeupNeverLost`: `NoLostWakeup`, by an invariant that strengthens it to the
  receiver's positions between storing its waker and parking.

`TripleBuffer!TSpec`, for every modulus of the generation counter from two on
(`GenerationsAssumption`):

- The inductive invariant `TInv` has four layers. `Turns`: the counters differ by
  at most one and say whose turn it is, so the writer and the reader are never both inside
  their hand-over. `Indices`: the three slot indices are a permutation, and the index a
  side has loaded is still right when it uses it. `OneOwner`, `WriterHas`, `ReaderHas` and `MiddleHas`: which place each
  buffer is in and which slots are empty at each position. `Contents`: the unread
  buffer, wherever it is, has the bytes and the length stamped with its generation.
- `BuffersCirculate` (`ThreeBuffers`) and `NoPublicationLost` (`TakesEveryPublication`)
  follow from it. The second is not inductive: what the reader commits was written
  by another thread several steps before, and only `Turns` rules out a second publication
  in between.

**`WaiterStoreProofs`**, for the two stores that keep waiters. `Notify!Spec`, for all sets
of wakers and signallers (`NotifyAssumption`: `NoWaker` and `Waiter` are none of them):

- `LockIsHeld`: the inductive invariant. `LockInv` reads the holder of the waker cell off
  the two bits of `state`, and says that `WAKING` beside `REGISTERING` is a wake left for
  the registering thread. `HandInv` says where the waker is at each position.
- `CellNeverAliased` follows from it. `WakeupNeverLost` adds `WakeInv`: from `register`
  on the task's waker is stored or owed a wake, and whoever clears the armed flag is on
  the way to the cell.
- `NotifyImplementsAtomicSlot`, `NotifyImplementsAtomicFlag`: `register` takes effect when
  it gets the lock, `wake` when it does; every other step of `AtomicWaker` leaves the
  stored waker and the wakes owed as they are (`SilentSteps`). For the coarser flag,
  `signal` takes effect at its swap.

`Queue!QSpec`, for every set of elements and every set of inline sizes
(`QueueAssumption`: the sizes are natural numbers, and the mark of an uninitialised slot is
no element):

- What the loops compute comes first. A cursor that steps around the ring stops at the slots
  that index arithmetic names (`WalkStops`), so `iter`, the spills and `into_vec` give the
  elements in order (`IterIsElements`); pushing a sequence in a loop appends it, across a
  spill too (`PushAllAppends`); the selections of `retain` and `take_where` keep order,
  select what they should and repeat nothing (`ThoseFacts`, `ThoseUpTo`). These are
  inductions: the set of the indices up to which a claim holds has 0 and is closed under
  successor, and otherwise the numbers missing from it would have a least one (`Induction`,
  from the library's theorem that `<` is well founded).
- `QueueInOrder`, the inductive invariant: `Good` says that the cursors agree and that every
  slot between them is initialised; beside it no element is held twice or both held and
  handed out. It says of the slots that index arithmetic names what `RingIsConsistent` says of
  those a cursor meets, and by `IterIsElements` the two agree (`QueueConsistent`).
- `QueueIsDeque` (`ImplementsDeque`): one lemma per group of calls (`PushSimulates` to
  `SwapSimulates`) shows that the call leaves the queue `Good` and is the call of the deque
  with the same answer. That no element repeats is then a fact about the deque's own steps
  (`DequeStep`), and `retain` with a panicking predicate needs it: which elements are lost is
  told by value in `Deque` and by position in the code.

**`ExclusionProofs`**, for the two components that lend one memory to one party at a time.
`Mutex!Spec`: see the locks below. `BipBuffer!BSpec`, for every capacity, every set of requests
that fit it, and calls that overlap or not (`BipAssumption`):

- `NoByteIsShared` (`GrantsAreExclusive`). The inductive invariant `GInv` says in `Shape` that
  the cursors and the watermark determine what is unread, position by position, except in the
  middle of a reset; in `Resets`, at which value of the epoch the producer is inside one, that
  nothing is then unread, and that at most one falls into a `try_read`, which is why the
  epoch may be counted modulo 4; in `Snapshot`, what cursors loaded one after the other still
  say when the epoch has not moved. `Writing` and `Reading` place the grants relative to the cursors.
- `ParkedSidesAreServed` (`BipNoLostWakeup`), by `WInv`: a side that will park has armed its
  slot (`Arming`); whatever makes bytes fit or readable, and whatever strands the drained
  cursors, is followed by a signal of somebody (`PServed`, `CServed`); and a consumer that
  loaded `write` after arming has either the current one or a signal to come (`Fresh`). The
  last is what the consumer's re-check needs: it may decide on a value several steps old.
- `NeverBothStuck` (`NoStandoff`) follows from the same invariant: with both parked and no
  grant out the buffer is drained and not stranded, so the cursors are at zero, and any
  request fits there.

**`RingBufProofs`**, for every capacity, every index width that is a multiple of it and
every slice length (`SizesAssumption`):

- `InvHolds`: the inductive invariant, in three layers. `IndexInv`: the cached indices are
  behind, so a batch that fits into what its side sees fits into the buffer, and a call
  with items left has seen no more room. `BufferInv`: exactly the slots from `read_index`
  on, the batches under way accounted for, are initialised. `WakeInv`: an armed side is
  signalled unless what it saw last is still true. The index arithmetic rests on lemmas
  about `%`, among them that slots stay in step when the index wraps because the capacity
  divides the modulus (`PlaceAfter`), and that a copy split at the end of the buffer goes
  to consecutive places (`SlotOfPlace`).
- `CopiesNeverMeet`, `WakeupNeverLost`, `CountToldBeforeParking` follow from it.
- `RingBufImplementsFifo`: a batch enters the abstract queue at the store of
  `write_index` and leaves it at the store of `read_index`; a consumer that has moved
  items out and not yet published still has them in the queue, in its hands.

The locks, in **`ExclusionProofs`** (Mutex), **`RwLockProofs`** and **`SemaphoreProofs`**, for
any set of futures (finite, readers and writers apart, in `RwLockAssumption`) and any depth of
callbacks (any `MaxDepth` in `RwLock`). Each invariant ties the queue, the status of the futures and the
frames on the stack together: a future has at most one call in progress, none while it
is a guard, and an entry only while it waits or is being polled.

- Mutex: `OneGuard`, `NoDeadEntries`, `HeirNeverMissing`.
- RwLock: `WriterIsAlone`, `NoDeadEntries`, `HeirNeverMissing`. `FreeLockHasHeir` is not
  inductive here: `HeirInv` names which call in progress is the heir, since a reader's
  poll is none for a queued writer.
- Semaphore: `ServedInOrder`, `FrontNeverLeft`, for every `Need` (`SemaphoreAssumption`),
  under the hypothesis `WakerChanges = FALSE`; without it the second fails (see Findings).
  The key is that the queue's order is then the order of arrival.
- Semaphore: `PermitsAddUp` (`PermitsConserved`), for any wakers. The permits handed out
  are counted as a set of pairs of a future and a number, since a sum over the futures
  would need an induction over sets; the invariant `Books` is that count and `Core`, by which a future
  that holds permits has no call in progress that could grant it more.
- Pool, in `SemaphoreProofs` too: `PermitsAreBuffers` and `EachBufferInOnePlace`, for any finite
  set of buffers and any futures (`PoolAssumption`). `AcquireSteps` reduces every step of
  the semaphore to one that grants a future its permit or moves none. `PoolBooks` then counts:
  the stack is as long as the permits that are free or granted and not yet
  turned into a buffer, whatever runs between the grant and the pop.

**`MpscProofs`**, for any set of senders, any capacity above zero, any spin window and any
quotas (`ChannelAssumption`). `ChannelInv` is the inductive invariant; the five properties of
the run follow from it or, for `GlobalFifo`, from it and the step:

- `ChannelExactlyOnce`, `ChannelFifo`. `DataInv` numbers the items: what the channel holds of a
  sender are the numbers after its last delivered one up to its last accepted one, in order,
  over the three places an item can be in (`Contents`). `HandInv` says what a call has in hand
  at each position, so that a retried push cannot exceed what was asked for, and `FlowInv` when
  the consumer has an item or an empty staging buffer.
- `ChannelDrained` (`EndMeansDrained`). `CountInv` says that `senders` is the number of live
  handles, as the length of a list of them without repetition, so that no induction over sets is
  needed; when it is 0 no sender can still push. `EndInv` carries this over the consumer's last look.
- `ChannelNoLostWakeup`. `WakeInv` follows the consumer from the arming of its slot: a signal
  from then on reaches it, and once it has found the queue empty every push and the last drop owes
  one. `QuietInv` keeps a thread's own signal from being overtaken by its next call.
- `ChannelNoStrandedSender`. `WaitInv` ties the wait-list, the selected ids and the wakers
  under way to the positions of the senders. `HeirInv` weakens the property's first half:
  an empty queue beside parked senders has one that is on its way or selected. That a selected
  sender is also woken, and that the receiver's drop has woken everyone, is `WaitInv`'s part,
  which holds for a queue with items too.

Only model-checked:

- every liveness property: fairness and `ENABLED` are out of the prover's reach. The light
  channel has none: its lock is not fair, and `NoLostWakeup` and `NoStrandedSender` say in each
  state what a liveness property would need;
- the three expected violations.

## Not modelled

- `site_d/buffer.rs`, `site_d/padding.rs`, `hints.rs`: memory layout and allocation, no
  protocol. `benches/` and `tools/` are not part of the library.
- `stats()`, `Debug`, `PartialEq`, size hints, `IoBuf` views of grants: they change
  nothing.
- Arguments the code refuses before it changes anything: a bip request above the
  capacity (`None`, or an assertion in `reserve`), zero geometry of a triple buffer, a
  swap out of bounds, `add_permits` past `usize::MAX`.
- A destructor that panics while a `Queue` is dropped, or in the heap variant's `clear`:
  the first leaks what is left, the second is `VecDeque`'s.
- Reorderings of accesses weaker than `SeqCst`, beyond the arguments above.
- `io::Write` and `io::Read` of the ring buffer and its `*_blocking` calls. The adapters
  are sequences of calls that `RingBuf` models (a `try_push_slice`, else one `push` and
  another `try_push_slice`; likewise for `read`), with nothing shared in between; the
  blocking calls drive the modelled futures with `block_on`. What they return is not
  modelled.

## Plan

1. Liveness of the bip buffer and of the light channel with a fair lock.
2. The `io` adapters of the ring buffer, with what they return.
