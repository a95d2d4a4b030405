------------------------------- MODULE RingBuf -------------------------------
(***************************************************************************)
(* src/site_d/ringbuf.rs: the lock-free single-producer single-consumer    *)
(* ring buffer, one access to the shared state per step, with the two      *)
(* WaiterSlots its futures park on.                                        *)
(*                                                                         *)
(* One transfer of n items stands for both families of calls: try_push,    *)
(* push and PushFuture are the transfer of one item, try_push_slice,       *)
(* push_slice_counted and PushSliceFuture of several (likewise for pop).   *)
(* The buffer never looks at the items, so they are numbered in the order  *)
(* the producer offers them, modulo Modulus like the indices.              *)
(***************************************************************************)
EXTENDS WaiterSlot, Sequences, FiniteSets

CONSTANTS Cap,       \* capacity, a power of two
          Modulus,   \* where the wrapping usize indices wrap, a multiple of Cap
          MaxSlice   \* bound on the length of a slice

ASSUME SizesAssumption ==
  /\ Cap \in Nat \ {0} /\ MaxSlice \in Nat \ {0}
  /\ Modulus \in Nat /\ Modulus > Cap /\ Modulus % Cap = 0

VARIABLES
  buf,         \* buffer: an item number, or Uninit (also once moved out)
  write, read, \* write_index and read_index (their owners' cached copies agree)
  pslot,       \* producer_slot: the producer parks, the consumer signals
  cslot,       \* consumer_slot: the consumer parks, the producer signals
  ppc, pmode,  \* the producer: where it is, and in which part of which call
  pread,       \* cached_read
  todo, pn,    \* items the call has still to push; size of the current batch
  puntold,     \* items were pushed that the caller's count leaves out
  next,        \* number of the next item to be offered
  cpc, cmode,  \* the consumer, likewise
  cwrite,      \* cached_write
  want, cn,    \* items the call has still to pop; size of the current batch
  hold,        \* the items of the current batch
  cuntold

shared == <<buf, write, read>>
pVars == <<ppc, pmode, pread, todo, pn, puntold, next>>
cVars == <<cpc, cmode, cwrite, want, cn, hold, cuntold>>
vars == <<buf, write, read, pslot, cslot,
          ppc, pmode, pread, todo, pn, puntold, next,
          cpc, cmode, cwrite, want, cn, hold, cuntold>>

P == "producer"
C == "consumer"
Index == 0 .. Modulus - 1
Uninit == Modulus   \* no item number

\* "first" is the attempt that is all of a synchronous call and the beginning of an
\* async one, "fast" and "slow" the attempts of a poll before and after arm().
Mode == {"first", "fast", "slow"}

TypeOK ==
  /\ buf \in [0 .. Cap - 1 -> Index \cup {Uninit}]
  /\ write \in Index /\ read \in Index /\ pread \in Index /\ cwrite \in Index
  /\ pslot \in SlotType({P}, {C}) /\ cslot \in SlotType({C}, {P})
  /\ ppc \in {"idle", "try", "copy", "publish", "signal", "return", "register",
              "arm", "disarm", "parked"}
  /\ cpc \in {"idle", "try", "copy", "publish", "signal", "return", "register",
              "arm", "disarm", "parked"}
  /\ pmode \in Mode /\ cmode \in Mode
  /\ todo \in Seq(Index) /\ hold \in Seq(Index)
  /\ {pn, want, cn} \subseteq 0 .. MaxSlice /\ puntold \in BOOLEAN /\ cuntold \in BOOLEAN
  /\ next \in Index

\* RingBuf::new and split
Init ==
  /\ buf = [i \in 0 .. Cap - 1 |-> Uninit] /\ write = 0 /\ read = 0
  /\ pslot = NewSlot({C}) /\ cslot = NewSlot({P})
  /\ ppc = "idle" /\ pmode = "first" /\ pread = 0 /\ todo = <<>> /\ pn = 0
  /\ puntold = FALSE /\ next = 0
  /\ cpc = "idle" /\ cmode = "first" /\ cwrite = 0 /\ want = 0 /\ cn = 0
  /\ hold = <<>> /\ cuntold = FALSE

\* wrapping_add and wrapping_sub
Plus(i, n) == (i + n) % Modulus
Minus(i, j) == (i - j) % Modulus

Least(a, b) == IF a <= b THEN a ELSE b
Rest(s, n) == SubSeq(s, n + 1, Len(s))

\* A slip: the second part of a wrapping copy goes on where the first began.
SlotOf_NoWrap(i, n, k) ==
  LET first == i % Cap IN IF first + k <= Cap THEN first + k - 1 ELSE first

\* The slot of the k-th of n items copied from index i on: up to the end of the
\* buffer, then from its beginning.
SlotOf(i, n, k) ==
  LET first == i % Cap
      contiguous == Least(Cap - first, n)
  IN  IF k <= contiguous THEN first + k - 1 ELSE k - contiguous - 1

Span(i, n) == {SlotOf(i, n, k) : k \in 1 .. n}

\* What RingBufferShared::drop would drop: the items from read_index on.
Remaining ==
  [k \in 1 .. Minus(write, read) |-> buf[SlotOf(read, Minus(write, read), k)]]

\* A slip: a poll never writes the progress back.
Recorded_NoProgress(m, left) == m = "first"

\* Whether an attempt with `left` items to go writes the caller's count: the first
\* attempt always does, a poll only on its ways to Pending.
Recorded(m, left) == m = "first" \/ left > 0

-----------------------------------------------------------------------------
(* Producer. *)

\* A call to push n items.
StartPush(n) ==
  /\ ppc = "idle"
  /\ todo' = [k \in 1 .. n |-> Plus(next, k - 1)]
  /\ puntold' = FALSE /\ pmode' = "first" /\ ppc' = "try"
  /\ UNCHANGED <<shared, pslot, cslot, pread, pn, next, cVars>>

Push == StartPush(1)
PushSlice(n) == StartPush(n)

\* free_count, is_empty, is_full: the cached index is reloaded.
FreeCount ==
  /\ ppc = "idle" /\ pread' = read
  /\ UNCHANGED <<shared, pslot, cslot, ppc, pmode, todo, pn, puntold, next, cVars>>

\* A slip: a full buffer is taken to have room for one more item.
Room_OffByOne(r) == LET used == Minus(write, r) IN IF used > Cap THEN 0 ELSE Cap + 1 - used

\* The room the producer sees, given a read index.
Room(r) == LET used == Minus(write, r) IN IF used >= Cap THEN 0 ELSE Cap - used

\* try_push, try_push_slice: the batch is what fits by the cached read index,
\* which is reloaded only when it leaves no room.
TryPush ==
  /\ ppc = "try"
  /\ pread' = IF Room(pread) = 0 THEN read ELSE pread
  /\ pn' = Least(Len(todo), Room(pread'))
  /\ ppc' = IF pn' = 0 THEN "return" ELSE "copy"
  /\ UNCHANGED <<shared, pslot, cslot, pmode, todo, puntold, next, cVars>>

\* The items are copied into their slots ...
PushCopy ==
  /\ ppc = "copy"
  /\ buf' = [i \in DOMAIN buf |->
               IF \E k \in 1 .. pn : SlotOf(write, pn, k) = i
               THEN todo[CHOOSE k \in 1 .. pn : SlotOf(write, pn, k) = i]
               ELSE buf[i]]
  /\ ppc' = "publish"
  /\ UNCHANGED <<write, read, pslot, cslot, pmode, pread, todo, pn, puntold, next, cVars>>

\* ... published by one store of write_index ...
PushPublish ==
  /\ ppc = "publish"
  /\ write' = Plus(write, pn) /\ next' = Plus(next, pn)
  /\ todo' = Rest(todo, pn) /\ puntold' = TRUE /\ pn' = 0 /\ ppc' = "signal"
  /\ UNCHANGED <<buf, read, pslot, cslot, pmode, pread, cVars>>

\* A slip: the consumer is signalled only when the producer's cached index says
\* the buffer was empty.
PushSignal_WhenEmpty ==
  /\ ppc = "signal"
  /\ cslot' = IF Minus(write, pread) = 1 THEN SignalLoad(cslot, P) ELSE cslot
  /\ ppc' = "return"
  /\ UNCHANGED <<shared, pslot, pmode, pread, todo, pn, puntold, next, cVars>>

\* ... and announced by one signal().
PushSignal ==
  /\ ppc = "signal"
  /\ cslot' = SignalLoad(cslot, P) /\ ppc' = "return"
  /\ UNCHANGED <<shared, pslot, pmode, pread, todo, pn, puntold, next, cVars>>

PushSignalOn ==
  /\ ~Quiet(cslot, P)
  /\ cslot' = SignalStep(cslot, P)
  /\ UNCHANGED <<shared, pslot, pVars, cVars>>

\* An attempt to push is over.
PushReturn ==
  /\ ppc = "return" /\ Quiet(cslot, P)
  /\ puntold' = (puntold /\ ~Recorded(pmode, Len(todo)))
  /\ \/ /\ todo = <<>> \/ pmode = "first"
        /\ ppc' = IF pmode = "slow" THEN "disarm" ELSE "idle"
        /\ todo' = <<>> /\ pmode' = "first"
     \/ /\ todo # <<>> /\ UNCHANGED todo
        /\ \/ pmode = "first" /\ ppc' = "try" /\ pmode' = "fast"
           \/ pmode = "fast" /\ ppc' = "register" /\ UNCHANGED pmode
           \/ pmode = "slow" /\ ppc' = "parked" /\ UNCHANGED pmode
  /\ UNCHANGED <<shared, pslot, cslot, pread, pn, next, cVars>>

\* poll: arm() the producer's slot, then try again.
PushRegister ==
  /\ ppc = "register"
  /\ pslot' \in RegisterWaker(pslot, P) /\ ppc' = "arm"
  /\ UNCHANGED <<shared, cslot, pmode, pread, todo, pn, puntold, next, cVars>>

PushArm ==
  /\ ppc = "arm"
  /\ pslot' = SetArmed(pslot) /\ ppc' = "try" /\ pmode' = "slow"
  /\ UNCHANGED <<shared, cslot, pread, todo, pn, puntold, next, cVars>>

PushDisarm ==
  /\ ppc = "disarm"
  /\ pslot' = Disarm(pslot) /\ ppc' = "idle"
  /\ UNCHANGED <<shared, cslot, pmode, pread, todo, pn, puntold, next, cVars>>

\* The parked future is polled again: woken, or not.
PushPoll ==
  /\ ppc = "parked"
  /\ pslot' = Polled(pslot, P) /\ ppc' = "try" /\ pmode' = "fast"
  /\ UNCHANGED <<shared, cslot, pread, todo, pn, puntold, next, cVars>>

\* The parked future is dropped; it leaves its slot armed.
PushCancel ==
  /\ ppc = "parked" /\ ppc' = "idle" /\ todo' = <<>> /\ pmode' = "first"
  /\ UNCHANGED <<shared, pslot, cslot, pread, pn, puntold, next, cVars>>

ProducerStep ==
  \/ TryPush \/ PushCopy \/ PushPublish \/ PushSignal \/ PushSignalOn
  \/ PushReturn \/ PushRegister \/ PushArm \/ PushDisarm

-----------------------------------------------------------------------------
(* Consumer. *)

\* A call to pop n items.
StartPop(n) ==
  /\ cpc = "idle"
  /\ want' = n /\ cuntold' = FALSE /\ cmode' = "first" /\ cpc' = "try"
  /\ UNCHANGED <<shared, pslot, cslot, pVars, cwrite, cn, hold>>

Pop == StartPop(1)
PopSlice(n) == StartPop(n)

\* available_count, is_empty, is_full: the cached index is reloaded.
AvailableCount ==
  /\ cpc = "idle" /\ cwrite' = write
  /\ UNCHANGED <<shared, pslot, cslot, pVars, cpc, cmode, want, cn, hold, cuntold>>

\* try_pop, try_pop_slice: the batch is what the cached write index offers, which
\* is reloaded only when it offers nothing.
TryPop ==
  /\ cpc = "try"
  /\ cwrite' = IF cwrite = read THEN write ELSE cwrite
  /\ cn' = Least(want, Minus(cwrite', read))
  /\ cpc' = IF cn' = 0 THEN "return" ELSE "copy"
  /\ UNCHANGED <<shared, pslot, cslot, pVars, cmode, want, hold, cuntold>>

\* The items are moved out of their slots ...
PopCopy ==
  /\ cpc = "copy"
  /\ hold' = [k \in 1 .. cn |-> buf[SlotOf(read, cn, k)]]
  /\ buf' = [i \in DOMAIN buf |-> IF i \in Span(read, cn) THEN Uninit ELSE buf[i]]
  /\ cpc' = "publish"
  /\ UNCHANGED <<write, read, pslot, cslot, pVars, cmode, cwrite, want, cn, cuntold>>

\* ... the slots are given back by one store of read_index ...
PopPublish ==
  /\ cpc = "publish"
  /\ read' = Plus(read, cn)
  /\ want' = want - cn /\ cuntold' = TRUE /\ cn' = 0 /\ cpc' = "signal"
  /\ UNCHANGED <<buf, write, pslot, cslot, pVars, cmode, cwrite, hold>>

\* ... and announced by one signal().
PopSignal ==
  /\ cpc = "signal"
  /\ pslot' = SignalLoad(pslot, C) /\ hold' = <<>> /\ cpc' = "return"
  /\ UNCHANGED <<shared, cslot, pVars, cmode, cwrite, want, cn, cuntold>>

PopSignalOn ==
  /\ ~Quiet(pslot, C)
  /\ pslot' = SignalStep(pslot, C)
  /\ UNCHANGED <<shared, cslot, pVars, cVars>>

\* An attempt to pop is over.
PopReturn ==
  /\ cpc = "return" /\ Quiet(pslot, C)
  /\ cuntold' = (cuntold /\ ~Recorded(cmode, want))
  /\ \/ /\ want = 0 \/ cmode = "first"
        /\ cpc' = IF cmode = "slow" THEN "disarm" ELSE "idle"
        /\ want' = 0 /\ cmode' = "first"
     \/ /\ want > 0 /\ UNCHANGED want
        /\ \/ cmode = "first" /\ cpc' = "try" /\ cmode' = "fast"
           \/ cmode = "fast" /\ cpc' = "register" /\ UNCHANGED cmode
           \/ cmode = "slow" /\ cpc' = "parked" /\ UNCHANGED cmode
  /\ UNCHANGED <<shared, pslot, cslot, pVars, cwrite, cn, hold>>

\* poll: arm() the consumer's slot, then try again.
PopRegister ==
  /\ cpc = "register"
  /\ cslot' \in RegisterWaker(cslot, C) /\ cpc' = "arm"
  /\ UNCHANGED <<shared, pslot, pVars, cmode, cwrite, want, cn, hold, cuntold>>

\* A slip: the consumer parks as soon as it is armed.
PopArm_NoRecheck ==
  /\ cpc = "arm"
  /\ cslot' = SetArmed(cslot) /\ cpc' = "parked" /\ cmode' = "slow"
  /\ UNCHANGED <<shared, pslot, pVars, cwrite, want, cn, hold, cuntold>>

PopArm ==
  /\ cpc = "arm"
  /\ cslot' = SetArmed(cslot) /\ cpc' = "try" /\ cmode' = "slow"
  /\ UNCHANGED <<shared, pslot, pVars, cwrite, want, cn, hold, cuntold>>

PopDisarm ==
  /\ cpc = "disarm"
  /\ cslot' = Disarm(cslot) /\ cpc' = "idle"
  /\ UNCHANGED <<shared, pslot, pVars, cmode, cwrite, want, cn, hold, cuntold>>

\* The parked future is polled again: woken, or not.
PopPoll ==
  /\ cpc = "parked"
  /\ cslot' = Polled(cslot, C) /\ cpc' = "try" /\ cmode' = "fast"
  /\ UNCHANGED <<shared, pslot, pVars, cwrite, want, cn, hold, cuntold>>

\* The parked future is dropped; it leaves its slot armed.
PopCancel ==
  /\ cpc = "parked" /\ cpc' = "idle" /\ want' = 0 /\ cmode' = "first"
  /\ UNCHANGED <<shared, pslot, cslot, pVars, cwrite, cn, hold, cuntold>>

ConsumerStep ==
  \/ TryPop \/ PopCopy \/ PopPublish \/ PopSignal \/ PopSignalOn
  \/ PopReturn \/ PopRegister \/ PopArm \/ PopDisarm

-----------------------------------------------------------------------------

\* Both handles are dropped, and with the second one the shared state and the items
\* that remain in it; a new buffer is made.  Until then the drop of one handle is no
\* different from one that is not used any more.
Drop ==
  /\ ppc = "idle" /\ cpc = "idle"
  /\ buf' = [i \in DOMAIN buf |-> Uninit] /\ write' = 0 /\ read' = 0
  /\ pslot' = NewSlot({C}) /\ cslot' = NewSlot({P})
  /\ pread' = 0 /\ next' = 0 /\ puntold' = FALSE
  /\ cwrite' = 0 /\ cuntold' = FALSE
  /\ UNCHANGED <<ppc, pmode, todo, pn, cpc, cmode, want, cn, hold>>

Next ==
  \/ Push \/ Pop \/ Drop
  \/ \E n \in 2 .. MaxSlice : PushSlice(n) \/ PopSlice(n)
  \/ FreeCount \/ PushPoll \/ PushCancel \/ ProducerStep
  \/ AvailableCount \/ PopPoll \/ PopCancel \/ ConsumerStep

\* Threads finish the attempts they start and a woken task is polled; nobody has
\* to call, to cancel or to poll spuriously.
Fairness ==
  /\ WF_vars(ProducerStep) /\ WF_vars(ConsumerStep)
  /\ WF_vars(P \in pslot.woken /\ PushPoll)
  /\ WF_vars(C \in cslot.woken /\ PopPoll)

Spec == Init /\ [][Next]_vars
FairSpec == Spec /\ Fairness

-----------------------------------------------------------------------------
(* Properties. *)

\* The producer writes only slots that hold no live item and the consumer moves
\* only initialised items out, so the two unsynchronised copies never touch the
\* same slot, at a full or empty buffer and across the wrap of the indices too.
CopiesAreExclusive ==
  /\ TypeOK
  /\ ppc = "copy" => \A i \in Span(write, pn) : buf[i] = Uninit
  /\ cpc = "copy" => \A i \in Span(read, cn) : buf[i] # Uninit
  /\ (ppc = "copy" /\ cpc \in {"copy", "publish"}) =>
       Span(write, pn) \cap Span(read, cn) = {}

\* A parked side that could go on is woken, or the other side has still to look
\* at its armed flag or to act on it.
NoLostWakeup ==
  /\ (cpc = "parked" /\ write # read) =>
       WakeComing(cslot, C) \/ (cslot.armed /\ ppc = "signal")
  /\ (ppc = "parked" /\ Minus(write, read) < Cap) =>
       WakeComing(pslot, P) \/ (pslot.armed /\ cpc = "signal")

\* A parked slice transfer has told its caller how far it got, so a cancelled one
\* can be resumed: "`pushed` still holds the count of items already pushed".
CountSurvivesCancel ==
  /\ ppc = "parked" => ~puntold
  /\ cpc = "parked" => ~cuntold

\* "writes the number of items pushed so far into `pushed` on every step": the
\* count is right whenever no call is running, after completion included.
CountIsCurrent ==
  /\ ppc = "idle" => ~puntold
  /\ cpc = "idle" => ~cuntold

\* A parked side that can go on does: items reach a parked consumer, room reaches
\* a parked producer.
ParkedIsServed ==
  /\ (cpc = "parked" /\ write # read) ~> cpc # "parked"
  /\ (ppc = "parked" /\ Minus(write, read) < Cap) ~> ppc # "parked"

\* Items leave the queue when they are published as read; those already moved out
\* are then in the consumer's hands.
Contents ==
  [k \in 1 .. Minus(write, read) |->
     IF cpc = "publish" /\ k <= cn THEN hold[k] ELSE Remaining[k]]

Fifo == INSTANCE BoundedFifo WITH
  Items <- Index, src <- todo, q <- Contents,
  out <- IF cpc = "signal" THEN hold ELSE <<>>

\* The ring buffer is a bounded FIFO: whatever the cached indices say, batches enter
\* and leave whole, in order, each item once.
ImplementsFifo == Fifo!Spec
=============================================================================
