------------------------------ MODULE MpscLight ------------------------------
(***************************************************************************)
(* src/site_d/mpsc_light.rs: the bounded single-consumer channel.  One     *)
(* step is one access to the shared atomics or one critical section of the *)
(* spin lock; the threads that hold no lock run between Lock and the       *)
(* section it opens.                                                       *)
(*                                                                         *)
(* A sender is one Sender handle with the call its task is running.  A     *)
(* waiter's id is the sender itself: a send() deregisters its old id       *)
(* before it parks under a new one, so at most one id per sender is alive  *)
(* and the order of the ids is the order of parking.                       *)
(*                                                                         *)
(* The channel never looks at the items: <<s, k>> is the k-th item that    *)
(* sender s was told it has sent.                                          *)
(***************************************************************************)
EXTENDS LocalWaiters, WaiterSlot

CONSTANTS Senders,   \* the Sender handles that may come to exist
          First,     \* the one that bounded() returns
          Cap,       \* capacity, after bounded()'s max(1)
          Quota,     \* bound on the items each sender sends
          RecvSpin   \* RECV_SPIN

C == "consumer"
Free == "free"

ASSUME ChannelAssumption ==
  /\ First \in Senders /\ {C, Free} \cap Senders = {}
  /\ Cap \in Nat \ {0} /\ RecvSpin \in Nat \ {0}
  /\ Quota \in [Senders -> Nat]

VARIABLES
  queue, nonempty,       \* the shared queue and its hint
  waiting,               \* waiters.q: the parked senders in the order of their ids
  selected,              \* waiters.selected
  waitersLen,            \* waiters_len
  locked,                \* who holds the spin lock, or Free
  recv,                  \* the slot the consumer parks on
  senders, closed,       \* live Sender handles; the Receiver has been dropped
  pc,                    \* where each sender is
  hand,                  \* items its call has still to push (val.is_some() for send)
  moved,                 \* items its call has pushed
  told,                  \* items its finished calls reported as sent
  woken,                 \* senders whose waker fired since the last poll of their send()
  towake,                \* wakers a thread took under the lock and has yet to fire
  cpc, call, stage,      \* the consumer: where it is, in which part of which call
  spin,                  \* rounds left in recv_hot's window
  staging, hold,         \* items stolen from the queue; the item to be returned
  got                    \* items of each sender handed to the consumer's caller

inner == <<queue, nonempty, waiting, selected, waitersLen>>
life == <<senders, closed>>
sVars == <<pc, hand, moved, told>>
cVars == <<cpc, call, stage, spin, staging, hold, got>>
wakes == <<woken, towake>>
vars == <<queue, nonempty, waiting, selected, waitersLen, locked, recv, senders, closed,
          pc, hand, moved, told, woken, towake,
          cpc, call, stage, spin, staging, hold, got>>

None == <<>>   \* no item
Procs == Senders \cup {C}
Item == {item \in Senders \X Nat : item[2] \in 1 .. Quota[item[1]]}

\* Positions at which a thread wants, or holds, the lock.
SenderSection == {"try_push", "push", "park", "repoll_waiter", "cancel_waiter"}
ConsumerSection == {"steal_into", "wake_one_waiter", "wake_all_waiters"}

TypeOK ==
  /\ queue \in Seq(Item) /\ Len(queue) <= Cap
  /\ staging \in Seq(Item) /\ Len(staging) < Cap /\ hold \in Item \cup {None}
  /\ nonempty = (queue # <<>>)
  /\ waiting \in Seq(Senders) /\ selected \subseteq Senders /\ waitersLen = Len(waiting)
  /\ locked \in Procs \cup {Free} /\ recv \in SlotType({C}, Senders)
  /\ senders \in Nat /\ closed \in BOOLEAN
  /\ pc \in [Senders -> SenderSection \cup {"none", "idle", "check", "signal",
                "parked", "wake", "last_signal", "gone"}]
  /\ \A s \in Senders : {hand[s], moved[s], told[s], got[s]} \subseteq 0 .. Quota[s]
  /\ woken \subseteq Senders /\ towake \in [Procs -> SUBSET Senders]
  /\ cpc \in ConsumerSection \cup {"idle", "next_staged", "wake", "senders",
                "spin", "register", "arm", "disarm", "sleep", "parked", "end", "gone"}
  /\ call \in {"try_recv", "recv_many", "recv", "recv_hot"}
  /\ stage \in {"first", "spin", "armed", "last"} /\ spin \in 0 .. RecvSpin

\* bounded
Init ==
  /\ queue = <<>> /\ nonempty = FALSE /\ waiting = <<>> /\ selected = {} /\ waitersLen = 0
  /\ locked = Free /\ recv = NewSlot(Senders) /\ senders = 1 /\ closed = FALSE
  /\ pc = [s \in Senders |-> IF s = First THEN "idle" ELSE "none"]
  /\ hand = [s \in Senders |-> 0] /\ moved = hand /\ told = hand /\ got = hand
  /\ woken = {} /\ towake = [p \in Procs |-> {}]
  /\ cpc = "idle" /\ call = "try_recv" /\ stage = "first" /\ spin = 0
  /\ staging = <<>> /\ hold = None

-----------------------------------------------------------------------------
(* The lock and what runs under it. *)

Least(a, b) == IF a <= b THEN a ELSE b

\* lock, lock_slow: spin until the compare_exchange finds the lock free.
Lock(p) ==
  /\ IF p = C THEN cpc \in ConsumerSection ELSE pc[p] \in SenderSection
  /\ locked = Free /\ locked' = p
  /\ UNCHANGED <<inner, recv, life, sVars, wakes, cVars>>

\* The critical section of p, up to unlock.
Section(p) == locked = p /\ locked' = Free

At(s, here, there) == pc[s] = here /\ pc' = [pc EXCEPT ![s] = there]

\* k items of sender s enter the queue; only the push into an empty queue raises
\* the hint.
Enqueue(s, k) ==
  /\ queue' = queue \o [i \in 1 .. k |-> <<s, told[s] + i>>]
  /\ nonempty' = (nonempty \/ queue = <<>>)
  /\ hand' = [hand EXCEPT ![s] = @ - k] /\ moved' = [moved EXCEPT ![s] = @ + k]

\* The longest-parked waiter, if any, becomes selected and is left for p to wake.
PopFirst(p, q, sel) ==
  /\ waiting' = IF q = <<>> THEN q ELSE Tail(q)
  /\ selected' = IF q = <<>> THEN sel ELSE sel \cup {Head(q)}
  /\ towake' = [towake EXCEPT ![p] = IF q = <<>> THEN {} ELSE {Head(q)}]
  /\ waitersLen' = Len(waiting')

\* The removal of the entry with the id of s, if there is one.
Deregistered(s) == Without(waiting, s)

\* wake_by_ref, outside the lock; it matters to a send() that is not over.
Fire(p, s) ==
  /\ s \in towake[p]
  /\ towake' = [towake EXCEPT ![p] = @ \ {s}]
  /\ woken' = IF pc[s] \in {"idle", "gone"} THEN woken ELSE woken \cup {s}

-----------------------------------------------------------------------------
(* Senders. *)

\* A call of s begins; a future's first poll is part of it.
Begin(s, there) == Quiet(recv, s) /\ At(s, "idle", there)

\* Sender::clone
Clone(s, t) ==
  /\ pc[s] \in {"idle", "parked"} /\ At(t, "none", "idle")
  /\ senders' = senders + 1
  /\ UNCHANGED <<inner, locked, recv, closed, hand, moved, told, wakes, cVars>>

\* Sender::drop; the last one signals.
DropSender(s) ==
  /\ Begin(s, IF senders = 1 THEN "last_signal" ELSE "gone")
  /\ senders' = senders - 1
  /\ UNCHANGED <<inner, locked, recv, closed, hand, moved, told, wakes, cVars>>

\* try_send and try_send_many of n items.  They report a closed channel at once;
\* the second look at `closed`, after a failed push, only words the error.
TrySend(s, n) ==
  /\ ~closed /\ told[s] + n <= Quota[s]
  /\ Begin(s, "try_push") /\ hand' = [hand EXCEPT ![s] = n]
  /\ UNCHANGED <<inner, locked, recv, life, moved, told, wakes, cVars>>

\* send, with the first poll of its future.
Send(s) ==
  /\ told[s] < Quota[s]
  /\ Begin(s, "check") /\ hand' = [hand EXCEPT ![s] = 1] /\ woken' = woken \ {s}
  /\ UNCHANGED <<inner, locked, recv, life, moved, told, towake, cVars>>

\* The parked future is polled again: woken, or not.
PollSend(s) ==
  /\ At(s, "parked", "repoll_waiter") /\ woken' = woken \ {s}
  /\ UNCHANGED <<inner, locked, recv, life, hand, moved, told, towake, cVars>>

\* repoll_waiter
Repoll(s) ==
  /\ Section(s) /\ At(s, "repoll_waiter", "check")
  /\ waiting' = Deregistered(s) /\ selected' = selected \ {s} /\ waitersLen' = Len(waiting')
  /\ UNCHANGED <<queue, nonempty, recv, life, hand, moved, told, wakes, cVars>>

\* push_or_park up to its first push.
Check(s) ==
  /\ At(s, "check", IF closed THEN "idle" ELSE "push")
  /\ hand' = [hand EXCEPT ![s] = IF closed THEN 0 ELSE @]
  /\ UNCHANGED <<inner, locked, recv, life, moved, told, wakes, cVars>>

\* A slip: send goes on to its second attempt with an item it has pushed.
TryPush_FallThrough(s) ==
  LET k == Least(hand[s], Cap - Len(queue)) IN
  /\ Section(s) /\ pc[s] \in {"try_push", "push"}
  /\ \/ /\ k > 0 /\ Enqueue(s, k)
        /\ pc' = [pc EXCEPT ![s] = IF pc[s] = "push" THEN "park" ELSE "signal"]
     \/ /\ k = 0 /\ pc[s] = "try_push"
        /\ pc' = [pc EXCEPT ![s] = "idle"] /\ hand' = [hand EXCEPT ![s] = 0]
        /\ UNCHANGED <<queue, nonempty, moved>>
     \/ k = 0 /\ At(s, "push", "park") /\ UNCHANGED <<queue, nonempty, hand, moved>>
  /\ UNCHANGED <<waiting, selected, waitersLen, recv, life, told, wakes, cVars>>

\* try_push and try_push_many: what fits is pushed; if nothing does, try_send gives
\* up and send goes on to park.
TryPush(s) ==
  LET k == Least(hand[s], Cap - Len(queue)) IN
  /\ Section(s) /\ pc[s] \in {"try_push", "push"}
  /\ \/ k > 0 /\ Enqueue(s, k) /\ pc' = [pc EXCEPT ![s] = "signal"]
     \/ /\ k = 0 /\ At(s, "try_push", "idle") /\ hand' = [hand EXCEPT ![s] = 0]
        /\ UNCHANGED <<queue, nonempty, moved>>
     \/ k = 0 /\ At(s, "push", "park") /\ UNCHANGED <<queue, nonempty, hand, moved>>
  /\ UNCHANGED <<waiting, selected, waitersLen, recv, life, told, wakes, cVars>>

\* The second section of push_or_park: closed, room after all, or parked.
Park(s) ==
  /\ Section(s)
  /\ \/ /\ closed /\ At(s, "park", "idle") /\ hand' = [hand EXCEPT ![s] = 0]
        /\ UNCHANGED <<queue, nonempty, moved, waiting, waitersLen>>
     \/ /\ ~closed /\ Len(queue) < Cap /\ At(s, "park", "signal") /\ Enqueue(s, 1)
        /\ UNCHANGED <<waiting, waitersLen>>
     \/ /\ ~closed /\ Len(queue) >= Cap /\ At(s, "park", "parked")
        /\ waiting' = Append(waiting, s) /\ waitersLen' = Len(waiting')
        /\ UNCHANGED <<queue, nonempty, hand, moved>>
  /\ UNCHANGED <<selected, recv, life, told, wakes, cVars>>

\* The signal() after a push, or of the last sender.  The push reports what it sent;
\* items that did not fit are the caller's again.
Signal(s) ==
  /\ At(s, "signal", "idle") \/ At(s, "last_signal", "gone")
  /\ recv' = SignalLoad(recv, s)
  /\ told' = [told EXCEPT ![s] = @ + moved[s]]
  /\ moved' = [moved EXCEPT ![s] = 0] /\ hand' = [hand EXCEPT ![s] = 0]
  /\ UNCHANGED <<inner, locked, life, wakes, cVars>>

\* The rest of that signal(), before the thread's next call.
SignalOn(s) ==
  /\ ~Quiet(recv, s) /\ recv' = SignalStep(recv, s)
  /\ UNCHANGED <<inner, locked, life, sVars, wakes, cVars>>

\* Send_::drop of a parked future.
DropSend(s) ==
  /\ At(s, "parked", "cancel_waiter") /\ hand' = [hand EXCEPT ![s] = 0]
  /\ UNCHANGED <<inner, locked, recv, life, moved, told, wakes, cVars>>

\* A slip: a selected sender takes its wake with it.
CancelWaiter_NoTransfer(s) ==
  /\ Section(s) /\ At(s, "cancel_waiter", "idle")
  /\ waiting' = Deregistered(s) /\ selected' = selected \ {s} /\ waitersLen' = Len(waiting')
  /\ UNCHANGED <<queue, nonempty, recv, life, hand, moved, told, wakes, cVars>>

\* cancel_waiter: a selected sender hands its wake to the next waiter.
CancelWaiter(s) ==
  /\ Section(s)
  /\ \/ s \in selected /\ PopFirst(s, Deregistered(s), selected \ {s})
     \/ /\ s \notin selected /\ waiting' = Deregistered(s) /\ waitersLen' = Len(waiting')
        /\ UNCHANGED <<selected, towake>>
  /\ At(s, "cancel_waiter", IF towake'[s] = {} THEN "idle" ELSE "wake")
  /\ UNCHANGED <<queue, nonempty, recv, life, hand, moved, told, woken, cVars>>

CancelWake(s) ==
  /\ At(s, "wake", "idle") /\ \E t \in Senders : Fire(s, t)
  /\ UNCHANGED <<inner, locked, recv, life, hand, moved, told, cVars>>

SenderStep(s) ==
  \/ Lock(s) \/ Repoll(s) \/ Check(s) \/ TryPush(s) \/ Park(s) \/ Signal(s)
  \/ SignalOn(s) \/ CancelWaiter(s) \/ CancelWake(s)

-----------------------------------------------------------------------------
(* The consumer. *)

Go(here, there) == cpc = here /\ cpc' = there

\* What the caller of next_staged does with its answer.
Answer(item) ==
  IF item # None THEN IF stage = "armed" THEN "disarm" ELSE "end"
  ELSE IF stage = "last" \/ call = "recv_many" THEN "end" ELSE "senders"

\* Where the consumer goes on once it has no waker left to fire: next_staged returns
\* its item, a poll that had none sleeps, and the drop of the receiver is over.
Woken(item) == IF closed THEN "gone" ELSE IF item = None THEN "parked" ELSE Answer(item)

\* try_recv, recv_many, recv and recv_hot with the first poll of their future.
\* recv_many takes its items one next_staged at a time and keeps nothing but a count
\* in between, so a batch is a row of calls that take one item each.
Call(c) ==
  /\ Go("idle", "next_staged") /\ call' = c /\ stage' = "first" /\ recv' = Polled(recv, C)
  /\ UNCHANGED <<inner, locked, life, sVars, wakes, spin, staging, hold, got>>

\* The parked future is polled again: woken, or not.
PollRecv ==
  /\ Go("parked", "next_staged") /\ stage' = "first" /\ recv' = Polled(recv, C)
  /\ UNCHANGED <<inner, locked, life, sVars, wakes, call, spin, staging, hold, got>>

\* A slip: a non-empty queue is stolen before the staging buffer has run dry.
NextStaged_StealFirst ==
  /\ \/ /\ staging # <<>> /\ ~nonempty /\ hold' = Head(staging) /\ staging' = Tail(staging)
        /\ Go("next_staged", IF waitersLen > 0 THEN "wake_one_waiter" ELSE Answer(hold'))
     \/ /\ staging = <<>> \/ nonempty
        /\ Go("next_staged", "steal_into") /\ UNCHANGED <<staging, hold>>
  /\ UNCHANGED <<inner, locked, recv, life, sVars, wakes, call, stage, spin, got>>

\* next_staged: a staged item is served without the lock, but for a waiter to wake.
NextStaged ==
  /\ \/ /\ staging # <<>> /\ hold' = Head(staging) /\ staging' = Tail(staging)
        /\ Go("next_staged", IF waitersLen > 0 THEN "wake_one_waiter" ELSE Answer(hold'))
     \/ staging = <<>> /\ Go("next_staged", "steal_into") /\ UNCHANGED <<staging, hold>>
  /\ UNCHANGED <<inner, locked, recv, life, sVars, wakes, call, stage, spin, got>>

\* steal_into swaps the queue for the empty staging buffer; its first item is popped
\* at once.
StealInto ==
  /\ Section(C)
  /\ \/ /\ queue = <<>> /\ Go("steal_into", Answer(None))
        /\ UNCHANGED <<inner, towake, staging, hold>>
     \/ /\ queue # <<>> /\ hold' = Head(queue) /\ staging' = Tail(queue)
        /\ queue' = staging /\ nonempty' = FALSE /\ PopFirst(C, waiting, selected)
        /\ Go("steal_into", IF towake'[C] = {} THEN Woken(hold') ELSE "wake")
  /\ UNCHANGED <<recv, life, sVars, woken, call, stage, spin, got>>

WakeOneWaiter ==
  /\ Section(C) /\ PopFirst(C, waiting, selected)
  /\ Go("wake_one_waiter", IF towake'[C] = {} THEN Woken(hold) ELSE "wake")
  /\ UNCHANGED <<queue, nonempty, recv, life, sVars, woken,
                 call, stage, spin, staging, hold, got>>

\* The wakers taken under the lock fire, one after the other.
ConsumerWake ==
  /\ \E s \in Senders : Fire(C, s)
  /\ Go("wake", IF towake'[C] = {} THEN Woken(hold) ELSE "wake")
  /\ UNCHANGED <<inner, locked, recv, life, sVars, call, stage, spin, staging, hold, got>>

\* A slip: no sender is left, so the end is reported without another look.
LoadSenders_NoRecheck ==
  /\ senders = 0 /\ Go("senders", "end") /\ stage' = "last" /\ UNCHANGED spin
  /\ UNCHANGED <<inner, locked, recv, life, sVars, wakes, call, staging, hold, got>>

\* The load of `senders` after a next_staged that found nothing.  With no sender
\* left there is one more next_staged, whose answer is final; otherwise try_recv is
\* Empty and a poll spins, arms or goes to sleep.
LoadSenders ==
  /\ \/ /\ senders = 0 /\ Go("senders", IF stage = "armed" THEN "disarm" ELSE "next_staged")
        /\ stage' = "last" /\ spin' = 0
     \/ /\ senders > 0
        /\ \/ call = "try_recv" /\ Go("senders", "end") /\ UNCHANGED <<stage, spin>>
           \/ /\ call = "recv_hot" /\ stage = "first"
              /\ Go("senders", "spin") /\ stage' = "spin" /\ spin' = RecvSpin
           \/ /\ stage = "spin" /\ spin' = spin - 1
              /\ Go("senders", IF spin > 1 THEN "spin" ELSE "register") /\ UNCHANGED stage
           \/ call = "recv" /\ stage = "first" /\ Go("senders", "register")
              /\ UNCHANGED <<stage, spin>>
           \/ stage = "armed" /\ Go("senders", "sleep") /\ UNCHANGED <<stage, spin>>
  /\ UNCHANGED <<inner, locked, recv, life, sVars, wakes, call, staging, hold, got>>

\* A round of recv_hot's window looks at the hint.
Spin ==
  /\ Go("spin", IF nonempty THEN "next_staged" ELSE "senders")
  /\ UNCHANGED <<inner, locked, recv, life, sVars, wakes,
                 call, stage, spin, staging, hold, got>>

RecvRegister ==
  /\ Go("register", "arm") /\ recv' \in RegisterWaker(recv, C)
  /\ UNCHANGED <<inner, locked, life, sVars, wakes, call, stage, spin, staging, hold, got>>

\* A slip: an armed consumer does not look for items again.
RecvArm_NoRecheck ==
  /\ Go("arm", "senders") /\ recv' = SetArmed(recv) /\ stage' = "armed"
  /\ UNCHANGED <<inner, locked, life, sVars, wakes, call, spin, staging, hold, got>>

RecvArm ==
  /\ Go("arm", "next_staged") /\ recv' = SetArmed(recv) /\ stage' = "armed"
  /\ UNCHANGED <<inner, locked, life, sVars, wakes, call, spin, staging, hold, got>>

RecvDisarm ==
  /\ Go("disarm", IF hold = None THEN "next_staged" ELSE "end") /\ recv' = Disarm(recv)
  /\ UNCHANGED <<inner, locked, life, sVars, wakes, call, stage, spin, staging, hold, got>>

\* About to sleep: a parked sender is woken to refill the queue.
Sleep ==
  /\ Go("sleep", IF waitersLen > 0 THEN "wake_one_waiter" ELSE "parked")
  /\ UNCHANGED <<inner, locked, recv, life, sVars, wakes,
                 call, stage, spin, staging, hold, got>>

\* What only a call in progress needs is forgotten.
CallOver == call' = "try_recv" /\ stage' = "first" /\ spin' = 0

\* The call returns; a future that is ready is dropped with it.
End ==
  /\ Go("end", "idle") /\ CallOver
  /\ got' = IF hold = None THEN got ELSE [got EXCEPT ![hold[1]] = hold[2]]
  /\ hold' = None
  /\ recv' = IF call \in {"recv", "recv_hot"} THEN Disarm(recv) ELSE recv
  /\ UNCHANGED <<inner, locked, life, sVars, wakes, staging>>

\* Recv::drop of a parked future.
DropRecv ==
  /\ Go("parked", "idle") /\ CallOver /\ recv' = Disarm(recv)
  /\ UNCHANGED <<inner, locked, life, sVars, wakes, staging, hold, got>>

\* Receiver::drop; the staged items go with it, and nobody counts any more.
DropReceiver ==
  /\ Go("idle", "wake_all_waiters") /\ closed' = TRUE /\ staging' = <<>>
  /\ got' = [s \in Senders |-> 0]
  /\ UNCHANGED <<inner, locked, recv, senders, sVars, wakes, call, stage, spin, hold>>

WakeAllWaiters ==
  /\ Section(C)
  /\ towake' = [towake EXCEPT ![C] = {waiting[i] : i \in DOMAIN waiting}]
  /\ Go("wake_all_waiters", IF towake'[C] = {} THEN "gone" ELSE "wake")
  /\ waiting' = <<>> /\ selected' = {} /\ waitersLen' = 0
  /\ UNCHANGED <<queue, nonempty, recv, life, sVars, woken,
                 call, stage, spin, staging, hold, got>>

ConsumerStep ==
  \/ Lock(C) \/ NextStaged \/ StealInto \/ WakeOneWaiter \/ ConsumerWake
  \/ LoadSenders \/ Spin \/ RecvRegister \/ RecvArm \/ RecvDisarm \/ Sleep \/ End
  \/ WakeAllWaiters

-----------------------------------------------------------------------------

Next ==
  \/ \E s \in Senders :
       \/ \E t \in Senders : Clone(s, t)
       \/ \E n \in 1 .. Quota[s] : TrySend(s, n)
       \/ Send(s) \/ PollSend(s) \/ DropSend(s) \/ DropSender(s) \/ SenderStep(s)
  \/ \E c \in {"try_recv", "recv_many", "recv", "recv_hot"} : Call(c)
  \/ PollRecv \/ DropRecv \/ DropReceiver \/ ConsumerStep

Spec == Init /\ [][Next]_vars

-----------------------------------------------------------------------------
(* Properties. *)

\* Accepted and not yet handed to the consumer's caller, oldest first.
Contents == (IF hold = None THEN <<>> ELSE <<hold>>) \o staging \o queue

\* The numbers of the items of s in the sequence c.
Of(s, c) == {k \in 1 .. Quota[s] : \E i \in DOMAIN c : c[i] = <<s, k>>}

\* The items of each sender are in the order it sent them, none of them twice.
Ordered(c) == \A i, j \in DOMAIN c : i < j /\ c[i][1] = c[j][1] => c[i][2] < c[j][2]

\* Until the receiver is dropped, what the channel holds of each sender's items is
\* exactly those it accepted and has not delivered, once each and in order: a failed,
\* cancelled or repeated attempt to push loses and duplicates nothing.
ExactlyOnce ==
  /\ TypeOK
  /\ ~closed =>
       /\ Ordered(Contents)
       /\ \A s \in Senders : Of(s, Contents) = (got[s] + 1) .. (told[s] + moved[s])

\* "global FIFO across senders": items join at the end, whichever sender they come
\* from, and the one handed out is the oldest of all, through any number of steals.
GlobalFifo ==
  [][\/ closed'
     \/ Contents' = SubSeq(Contents, 2, Len(Contents))
     \/ SubSeq(Contents', 1, Len(Contents)) = Contents]_vars

\* recv gives None, and try_recv Closed, only "once all senders have dropped and the
\* channel is drained": everything any sender was told it sent has been received.
EndMeansDrained ==
  (cpc = "end" /\ stage = "last" /\ hold = None) =>
    senders = 0 /\ Contents = <<>> /\ got = told

\* A parked consumer for whom there is an item, or the end, is woken, or a sender has
\* still to look at its armed flag or to act on it.
NoLostWakeup ==
  (cpc = "parked" /\ (queue # <<>> \/ senders = 0)) =>
    \/ WakeComing(recv, C)
    \/ recv.armed /\ \E s \in Senders : pc[s] \in {"signal", "last_signal"}

\* s will look at the queue again, or hand its wake on, without anybody's help.
Heir(s) ==
  \/ pc[s] \in {"repoll_waiter", "check", "push", "park"}
  \/ /\ s \in selected
     /\ pc[s] = "cancel_waiter" \/ s \in woken \/ \E p \in Procs : s \in towake[p]

\* Senders are parked beside an empty queue only while one of them, or another sender,
\* is on its way to fill it; and when the receiver is gone every parked sender has
\* been woken to see it.
NoStrandedSender ==
  /\ (~closed /\ waiting # <<>> /\ queue = <<>>) => \E s \in Senders : Heir(s)
  /\ cpc = "gone" => \A s \in Senders : pc[s] = "parked" =>
                       s \in woken \/ \E p \in Procs : s \in towake[p]
=============================================================================
