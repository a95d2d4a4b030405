--------------------------- MODULE ExclusionProofs ---------------------------
(***************************************************************************)
(* Proofs about the two components that lend one memory to one party at a  *)
(* time and park whoever must wait for it.                                 *)
(*   Mutex, for any set of futures and any depth of callbacks: one guard   *)
(*     at a time, one queue entry for each live future, and a free lock    *)
(*     that never leaves its queue without an heir.                        *)
(*   BipBuffer, for every capacity and every set of request sizes: the two *)
(*     grants never share a byte, no wakeup of a parked reserve() or       *)
(*     read() is lost, and the two never wait for each other.              *)
(***************************************************************************)
EXTENDS Mutex, BipBuffer, WaiterProofs, Integers

(* The mutex of one task set. *)

Held(f) == status[f] = "held"

\* One holder, and the lock says so.
LockInv ==
  /\ \A f, g \in Futures : Held(f) /\ Held(g) => f = g
  /\ locked <=> \E f \in Futures : Held(f)

\* An entry's future waits or is being polled.
EntryInv ==
  /\ Distinct(queue)
  /\ \A f \in Futures : Queued(queue, f) => status[f] = "waiting" \/ InCall(stack, f)

\* A future has one call at a time, none while it is a guard, and no entry once its
\* drop has removed it.
CallInv ==
  /\ OneCallEach(stack, Futures)
  /\ \A f \in Futures : InCall(stack, f) => ~Held(f)
  /\ \A f \in Futures : Pending(stack, Frame("cancel", f)) => ~Queued(queue, f)

\* The frames of TypeOK.
Frames == [op : {"clone", "recheck", "cancel"}, fut : Futures]

Inv == TypeOK /\ LockInv /\ EntryInv /\ CallInv

-----------------------------------------------------------------------------
\* The steps of Next one by one.
LEMMA NextCases ==
  ASSUME [Next]_vars
  PROVE  \/ \E f \in Futures : \/ TryLock(f) \/ Unlock(f) \/ Cancel(f) \/ Register(f)
                               \/ Recheck(f) \/ CancelWake(f)
                               \/ \E same \in BOOLEAN : Poll(f, same)
         \/ UNCHANGED vars
BY DEF Next, GoOn

\* The frames this module pushes.
LEMMA FrameTypes ==
  /\ TypeOK => stack \in Seq(Frames)
  /\ \A f \in Futures : {Frame("clone", f), Frame("recheck", f), Frame("cancel", f)} \subseteq Frames
BY DEF TypeOK, Frames, Frame

\* The call on top returns: the other calls are the ones in progress then.
LEMMA CallReturns ==
  ASSUME stack \in Seq(Frames), OneCallEach(stack, Futures),
         NEW o, NEW f \in Futures, Suspended(stack, o, f)
  PROVE  /\ Tail(stack) \in Seq(Frames)
         /\ InCall(stack, f) /\ Pending(stack, Frame(o, f))
         /\ OneCallEach(Tail(stack), Futures)
         /\ \A g : InCall(Tail(stack), g) <=> InCall(stack, g) /\ g # f
         /\ \A fr : Pending(Tail(stack), fr) <=> Pending(stack, fr) /\ fr # Frame(o, f)
  BY FutureReturns, ZenonT(30)

\* Taking the lock and f's entry out of the queue, by a future that is not a guard.
LEMMA AcquireStep ==
  ASSUME Inv, NEW f \in Futures, ~Held(f), ~locked, Acquire(f)
  PROVE  /\ queue' \in Seq(Futures) /\ locked' = TRUE
         /\ status' \in [Futures -> {"new", "waiting", "held"}]
         /\ LockInv' /\ Distinct(queue')
         /\ \A g : Queued(queue', g) <=> Queued(queue, g) /\ g # f
<1> USE DEF Inv, TypeOK
<1>1. queue' \in Seq(Futures) /\ Distinct(queue')
      /\ \A g : Queued(queue', g) <=> Queued(queue, g) /\ g # f
  BY WithoutRemoves DEF EntryInv, Acquire
<1>2. /\ locked' = TRUE /\ status' = [status EXCEPT ![f] = "held"]
      /\ \A g \in Futures : ~Held(g)
  BY DEF LockInv, Acquire, SetStatus
<1>3. LockInv'
  BY <1>2 DEF LockInv, Held
<1> QED  BY <1>1, <1>2, <1>3

\* wake_next pops at most the front entry, and then its future is woken.
LEMMA WakeNextStep ==
  ASSUME Inv, NEW l \in BOOLEAN, WakeNext(l, queue)
  PROVE  /\ queue' \in Seq(Futures) /\ woken' \in SUBSET Futures
         /\ Distinct(queue')
         /\ \A g : Queued(queue', g) => Queued(queue, g)
         /\ ~l /\ queue # <<>> => \E g \in woken' : g \in Futures /\ Queued(queue, g)
         /\ queue = <<>> => queue' = <<>>
<1> USE DEF Inv, TypeOK
<1>1. CASE l \/ queue = <<>>
  BY <1>1 DEF WakeNext, EntryInv
<1>2. CASE ~l /\ queue # <<>>
  <2>1. /\ Tail(queue) \in Seq(Futures) /\ Head(queue) \in Futures
        /\ Distinct(Tail(queue)) /\ Queued(queue, Head(queue))
        /\ \A g : Queued(Tail(queue), g) <=> Queued(queue, g) /\ g # Head(queue)
    BY <1>2, TailRemoves DEF EntryInv
  <2>2. queue' = Tail(queue) /\ woken' = woken \cup {Head(queue)}
    BY <1>2 DEF WakeNext
  <2> QED  BY <1>2, <2>1, <2>2
<1> QED  BY <1>1, <1>2

\* Polls that start, go on or are dropped inside any waker callback keep the lock,
\* the queue and the calls in agreement.
THEOREM CallsKeepInv == Spec => []Inv
<1>1. Init => Inv
  <2> SUFFICES ASSUME Init PROVE Inv
    OBVIOUS
  <2>1. TypeOK
    <3>1. <<>> \in Seq(Futures) /\ <<>> \in Seq(Frames)
      OBVIOUS
    <3> QED  BY <3>1, ZenonT(40) DEF Init, TypeOK, Frames
  <2>4. LockInv
    <3>1. \A f \in Futures : ~Held(f)
      BY DEF Init, Held
    <3> QED  BY <3>1 DEF Init, LockInv
  <2>2. EntryInv
    BY DEF Init, EntryInv, Distinct, Queued
  <2>3. CallInv
    BY DEF Init, CallInv, OneCallEach, InCall, Pending
  <2> QED  BY <2>1, <2>2, <2>3, <2>4 DEF Inv
<1>2. Inv /\ [Next]_vars => Inv'
  <2> SUFFICES ASSUME Inv, [Next]_vars PROVE Inv'
    OBVIOUS
  <2> USE DEF Inv, TypeOK
  <2>0. stack \in Seq(Frames)
    BY FrameTypes
  <2>1. ASSUME NEW f \in Futures, TryLock(f) PROVE Inv'
    <3>1. /\ locked = FALSE /\ locked' = TRUE /\ status[f] = "new" /\ ~InCall(stack, f)
          /\ status' = [status EXCEPT ![f] = "held"]
          /\ UNCHANGED <<queue, woken, stack>>
      BY <2>1 DEF TryLock, SetStatus
    <3>2. LockInv'
      BY <3>1 DEF LockInv, Held
    <3>3. ~Queued(queue, f)
      BY <3>1 DEF EntryInv
    <3>4. EntryInv' /\ CallInv'
      BY <3>1, <3>3 DEF EntryInv, CallInv, Held
    <3> QED  BY <3>1, <3>2, <3>4
  <2>2. ASSUME NEW f \in Futures, Unlock(f) PROVE Inv'
    <3>1. /\ Held(f) /\ locked' = FALSE /\ WakeNext(FALSE, queue)
          /\ status' = [status EXCEPT ![f] = "new"] /\ UNCHANGED stack
      BY <2>2, ZenonT(40) DEF Unlock, SetStatus, Held
    <3>2. /\ queue' \in Seq(Futures) /\ woken' \in SUBSET Futures /\ Distinct(queue')
          /\ \A g : Queued(queue', g) => Queued(queue, g)
      BY <3>1, WakeNextStep, ZenonT(40)
    <3>3. ~InCall(stack, f) /\ ~Queued(queue, f)
      BY <3>1 DEF CallInv, EntryInv, Held
    <3>4. LockInv'
      BY <3>1 DEF LockInv, Held
    <3>5. EntryInv' /\ CallInv'
      BY <3>1, <3>2, <3>3 DEF EntryInv, CallInv, Held
    <3> QED  BY <3>1, <3>2, <3>4, <3>5, ZenonT(40)
  <2>3. ASSUME NEW f \in Futures, Cancel(f) PROVE Inv'
    <3>1. /\ status[f] = "waiting" /\ ~InCall(stack, f)
          /\ status' = [status EXCEPT ![f] = "new"]
          /\ stack' = Enter(stack, "cancel", f) /\ woken' = woken \ {f} /\ UNCHANGED locked
      BY <2>3 DEF Cancel, SetStatus
    <3>2. /\ queue' \in Seq(Futures) /\ Distinct(queue')
          /\ \A g : Queued(queue', g) <=> Queued(queue, g) /\ g # f
      BY <2>3, WithoutRemoves DEF Cancel, EntryInv
    <3>3. /\ stack' \in Seq(Frames)
          /\ OneCallEach(stack', Futures)
          /\ \A g : InCall(stack', g) <=> InCall(stack, g) \/ g = f
          /\ \A fr : Pending(stack', fr) <=> Pending(stack, fr) \/ fr = Frame("cancel", f)
      <4>1. Frame("cancel", f) \in Frames
        BY FrameTypes
      <4> QED  BY <2>0, <3>1, <4>1, EnterAdds DEF CallInv
    <3>4. LockInv'
      BY <3>1 DEF LockInv, Held
    <3>5. EntryInv'
      BY <3>1, <3>2, <3>3 DEF EntryInv
    <3>6. \A g : Frame("cancel", g) = Frame("cancel", f) => g = f
      BY DEF Frame
    <3>7. CallInv'
      BY <3>1, <3>2, <3>3, <3>6 DEF CallInv, Held
    <3> QED  BY <3>1, <3>2, <3>3, <3>4, <3>5, <3>7 DEF Frames
  <2>4. ASSUME NEW f \in Futures, Register(f) PROVE Inv'
    <3> DEFINE t == Tail(stack)
    <3>1. /\ Suspended(stack, "clone", f)
          /\ stack' = Enter(t, "recheck", f) /\ queue' = Requeue(queue, f)
          /\ woken' = woken \ {f} /\ UNCHANGED <<locked, status>>
      BY <2>4 DEF Register
    <3>2. /\ queue' \in Seq(Futures) /\ Distinct(queue')
          /\ \A g : Queued(queue', g) <=> Queued(queue, g) \/ g = f
      BY <3>1, RequeueAdds DEF EntryInv
    <3>3. /\ t \in Seq(Frames)
          /\ OneCallEach(t, Futures) /\ InCall(stack, f)
          /\ \A g : InCall(t, g) <=> InCall(stack, g) /\ g # f
          /\ \A fr : Pending(t, fr) => Pending(stack, fr)
      BY <2>0, <3>1, CallReturns DEF CallInv
    <3> HIDE DEF t
    <3>4. /\ stack' \in Seq(Frames)
          /\ OneCallEach(stack', Futures)
          /\ \A g : InCall(stack', g) <=> InCall(t, g) \/ g = f
          /\ \A fr : Pending(stack', fr) <=> Pending(t, fr) \/ fr = Frame("recheck", f)
      <4>1. Frame("recheck", f) \in Frames
        BY FrameTypes
      <4>2. ~InCall(t, f)
        BY <3>3
      <4> QED  BY <3>1, <3>3, <4>1, <4>2, EnterAdds
    <3>5. \A g : InCall(stack', g) <=> InCall(stack, g)
      BY <3>3, <3>4
    <3>6. \A g : Pending(stack', Frame("cancel", g)) => Pending(t, Frame("cancel", g))
      BY <3>4 DEF Frame
    <3>7. ~Pending(t, Frame("cancel", f))
      <4>1. ~InCall(t, f)
        BY <3>3
      <4> QED  BY <4>1 DEF InCall, Pending, Frame
    <3>8. LockInv' /\ EntryInv'
      BY <3>1, <3>2, <3>3, <3>5 DEF LockInv, EntryInv, Held
    <3>9. CallInv'
      BY <3>1, <3>2, <3>3, <3>4, <3>5, <3>6, <3>7 DEF CallInv, Held
    <3> QED  BY <3>1, <3>2, <3>4, <3>8, <3>9 DEF Frames
  <2>5. ASSUME NEW f \in Futures, Recheck(f) PROVE Inv'
    <3>1. Suspended(stack, "recheck", f) /\ stack' = Tail(stack) /\ UNCHANGED woken
      BY <2>5 DEF Recheck
    <3>2. /\ stack' \in Seq(Frames)
          /\ OneCallEach(stack', Futures) /\ InCall(stack, f)
          /\ \A g : InCall(stack', g) <=> InCall(stack, g) /\ g # f
          /\ \A fr : Pending(stack', fr) => Pending(stack, fr)
      <4>1. /\ Tail(stack) \in Seq(Frames)
            /\ OneCallEach(Tail(stack), Futures) /\ InCall(stack, f)
            /\ \A g : InCall(Tail(stack), g) <=> InCall(stack, g) /\ g # f
            /\ \A fr : Pending(Tail(stack), fr) => Pending(stack, fr)
        BY <2>0, <3>1, CallReturns DEF CallInv
      <4> QED  BY <3>1, <4>1
    <3>3. ~Held(f)
      BY <3>2 DEF CallInv
    <3>4. CASE ~locked /\ Acquire(f)
      <4>1. /\ queue' \in Seq(Futures) /\ locked' = TRUE
            /\ status' \in [Futures -> {"new", "waiting", "held"}]
            /\ LockInv' /\ Distinct(queue')
            /\ \A g : Queued(queue', g) <=> Queued(queue, g) /\ g # f
        BY <3>3, <3>4, AcquireStep, ZenonT(40)
      <4>2. status' = [status EXCEPT ![f] = "held"]
        BY <3>4 DEF Acquire, SetStatus
      <4>3. EntryInv' /\ CallInv'
        BY <3>2, <4>1, <4>2 DEF EntryInv, CallInv, Held
      <4> QED  BY <3>1, <3>2, <4>1, <4>3 DEF Frames
    <3>5. CASE locked /\ SetStatus(f, "waiting") /\ UNCHANGED <<locked, queue>>
      <4>1. status' = [status EXCEPT ![f] = "waiting"] /\ UNCHANGED <<locked, queue>>
        BY <3>5 DEF SetStatus
      <4>2. LockInv'
        BY <3>3, <4>1 DEF LockInv, Held
      <4>3. EntryInv' /\ CallInv'
        BY <3>2, <4>1 DEF EntryInv, CallInv, Held
      <4> QED  BY <3>1, <3>2, <4>1, <4>2, <4>3 DEF Frames
    <3> QED  BY <2>5, <3>4, <3>5 DEF Recheck
  <2>6. ASSUME NEW f \in Futures, CancelWake(f) PROVE Inv'
    <3>1. /\ Suspended(stack, "cancel", f) /\ stack' = Tail(stack)
          /\ WakeNext(locked, queue) /\ UNCHANGED <<locked, status>>
      BY <2>6 DEF CancelWake
    <3>2. /\ stack' \in Seq(Frames)
          /\ OneCallEach(stack', Futures) /\ InCall(stack, f) /\ Pending(stack, Frame("cancel", f))
          /\ \A g : InCall(stack', g) <=> InCall(stack, g) /\ g # f
          /\ \A fr : Pending(stack', fr) => Pending(stack, fr)
      BY <2>0, <3>1, CallReturns DEF CallInv
    <3>3. /\ queue' \in Seq(Futures) /\ woken' \in SUBSET Futures /\ Distinct(queue')
          /\ \A g : Queued(queue', g) => Queued(queue, g)
      BY <3>1, WakeNextStep
    <3>4. ~Queued(queue, f)
      BY <3>2 DEF CallInv
    <3>5. LockInv' /\ EntryInv' /\ CallInv'
      BY <3>1, <3>2, <3>3, <3>4 DEF LockInv, EntryInv, CallInv, Held
    <3> QED  BY <3>1, <3>2, <3>3, <3>5 DEF Frames
  <2>7. ASSUME NEW f \in Futures, NEW same \in BOOLEAN, Poll(f, same) PROVE Inv'
    <3>1. status[f] \in {"new", "waiting"} /\ ~InCall(stack, f) /\ woken' = woken \ {f}
      BY <2>7 DEF Poll
    <3>2. CASE ~locked /\ Acquire(f) /\ UNCHANGED stack
      <4>1. /\ queue' \in Seq(Futures) /\ locked' = TRUE
            /\ status' \in [Futures -> {"new", "waiting", "held"}]
            /\ LockInv' /\ Distinct(queue')
            /\ \A g : Queued(queue', g) <=> Queued(queue, g) /\ g # f
        BY <3>1, <3>2, AcquireStep, ZenonT(40) DEF Held
      <4>2. status' = [status EXCEPT ![f] = "held"]
        BY <3>2 DEF Acquire, SetStatus
      <4>3. EntryInv' /\ CallInv'
        BY <3>1, <3>2, <4>1, <4>2 DEF EntryInv, CallInv, Held
      <4> QED  BY <3>1, <3>2, <4>1, <4>3 DEF Frames
    <3>3. CASE UNCHANGED <<locked, queue, status, stack>>
      BY <3>1, <3>3 DEF LockInv, EntryInv, CallInv, Held
    <3>4. CASE stack' = Enter(stack, "clone", f) /\ UNCHANGED <<locked, queue, status>>
      <4>1. /\ stack' \in Seq(Frames)
            /\ OneCallEach(stack', Futures)
            /\ \A g : InCall(stack', g) <=> InCall(stack, g) \/ g = f
            /\ \A fr : Pending(stack', fr) <=> Pending(stack, fr) \/ fr = Frame("clone", f)
        <5>1. Frame("clone", f) \in Frames
          BY FrameTypes
        <5> QED  BY <2>0, <3>1, <3>4, <5>1, EnterAdds DEF CallInv
      <4>2. \A g : Pending(stack', Frame("cancel", g)) => Pending(stack, Frame("cancel", g))
        BY <4>1 DEF Frame
      <4>3. LockInv' /\ EntryInv' /\ CallInv'
        BY <3>1, <3>4, <4>1, <4>2 DEF LockInv, EntryInv, CallInv, Held
      <4> QED  BY <3>1, <3>4, <4>1, <4>3 DEF Frames
    <3> QED  BY <2>7, <3>2, <3>3, <3>4 DEF Poll
  <2>8. CASE UNCHANGED vars
    BY <2>8 DEF vars, LockInv, EntryInv, CallInv, Held
  <2> QED  BY NextCases, <2>1, <2>2, <2>3, <2>4, <2>5, <2>6, <2>7, <2>8, ZenonT(40)
<1> QED  BY <1>1, <1>2, PTL DEF Spec

\* LocalMutexGuard's "exclusive access" for any number of futures.
THEOREM OneGuard == Spec => []GuardIsExclusive
<1>1. Inv => GuardIsExclusive
  BY DEF Inv, LockInv, Held, GuardIsExclusive
<1> QED  BY <1>1, CallsKeepInv, PTL

\* "Keeps at most one queue entry per live future", for any number of futures.
THEOREM NoDeadEntries == Spec => []EntriesAreLive
<1>1. Inv => EntriesAreLive
  BY DEF Inv, TypeOK, EntryInv, Distinct, Queued, EntriesAreLive
<1> QED  BY <1>1, CallsKeepInv, PTL

\* When the drop of a future passes its turn on, the other futures that are queued
\* wait, or have calls below the one that returns.
LEMMA PassedTurn ==
  ASSUME Inv, NEW f \in Futures, CancelWake(f), NEW g \in Futures, Queued(queue, g)
  PROVE  status[g] = "waiting" \/ InCall(stack', g)
<1>1. stack \in Seq(Frames) /\ OneCallEach(stack, Futures)
  BY FrameTypes DEF Inv, CallInv
<1>2. Suspended(stack, "cancel", f) /\ stack' = Tail(stack)
  BY DEF CancelWake
<1>3. /\ Pending(stack, Frame("cancel", f))
      /\ \A x : InCall(Tail(stack), x) <=> InCall(stack, x) /\ x # f
  BY <1>1, <1>2, CallReturns
<1>4. g # f
  BY <1>3 DEF Inv, CallInv
<1> QED  BY <1>2, <1>3, <1>4 DEF Inv, EntryInv

\* Waking one waiter strands no other, for any number of futures.
THEOREM HeirNeverMissing == Spec => []FreeLockHasHeir
<1>1. Init => FreeLockHasHeir
  BY DEF Init, FreeLockHasHeir
<1>2. Inv /\ Inv' /\ FreeLockHasHeir /\ [Next]_vars => FreeLockHasHeir'
  <2> SUFFICES ASSUME Inv, Inv', FreeLockHasHeir, [Next]_vars,
                      locked' = FALSE, queue' # <<>>, stack' = <<>>
               PROVE  \E f \in woken' : status'[f] = "waiting"
    BY ZenonT(40) DEF FreeLockHasHeir, Inv, TypeOK
  <2> USE DEF Inv, TypeOK
  <2>0. stack \in Seq(Frames)
    BY FrameTypes
  <2>1. ASSUME NEW f \in Futures, TryLock(f) PROVE FALSE
    BY <2>1 DEF TryLock
  <2>2. ASSUME NEW f \in Futures, Unlock(f) PROVE \E g \in woken' : status'[g] = "waiting"
    <3>1. Held(f) /\ WakeNext(FALSE, queue) /\ SetStatus(f, "new") /\ UNCHANGED stack
      BY <2>2, ZenonT(40) DEF Unlock, Held
    <3>2. PICK g \in woken' : g \in Futures /\ Queued(queue, g)
      BY <3>1, WakeNextStep, ZenonT(40)
    <3>3. ~InCall(stack, g)
      BY <3>1 DEF InCall
    <3>4. status[g] = "waiting"
      BY <3>2, <3>3, Zenon DEF EntryInv
    <3> QED  BY <3>1, <3>2, <3>4 DEF SetStatus, Held
  <2>3. ASSUME NEW f \in Futures, Cancel(f) \/ Register(f) PROVE FALSE
    <3>1. PICK s, o : stack' = Enter(s, o, f) /\ s \in Seq(Frames) /\ Frame(o, f) \in Frames
      <4>1. Cancel(f) => stack' = Enter(stack, "cancel", f)
        BY DEF Cancel
      <4>2. Register(f) => stack' = Enter(Tail(stack), "recheck", f) /\ stack # <<>>
        BY DEF Register, Suspended
      <4>3. stack # <<>> => Tail(stack) \in Seq(Frames)
        BY <2>0
      <4> QED  BY <2>0, <2>3, <4>1, <4>2, <4>3, FrameTypes, Zenon
    <3> QED  BY <3>1, EnterAdds
  <2>4. ASSUME NEW f \in Futures, Recheck(f) PROVE FALSE
    BY <2>4 DEF Recheck, Acquire
  <2>5. ASSUME NEW f \in Futures, CancelWake(f)
        PROVE  \E g \in woken' : status'[g] = "waiting"
    <3>1. /\ Suspended(stack, "cancel", f) /\ stack' = Tail(stack)
          /\ WakeNext(locked, queue) /\ UNCHANGED <<locked, status>>
      BY <2>5 DEF CancelWake
    <3>2. PICK g \in woken' : g \in Futures /\ Queued(queue, g)
      BY <3>1, WakeNextStep
    <3>3. status[g] = "waiting"
      BY <2>0, <2>5, <3>2, PassedTurn DEF InCall
    <3> QED  BY <3>1, <3>2, <3>3
  <2>6. ASSUME NEW f \in Futures, NEW same \in BOOLEAN, Poll(f, same) PROVE FALSE
    BY <2>6 DEF Poll, Acquire
  <2>7. CASE UNCHANGED vars
    BY <2>7 DEF vars, FreeLockHasHeir
  <2> QED  BY NextCases, <2>1, <2>2, <2>3, <2>4, <2>5, <2>6, <2>7
<1> QED  BY <1>1, <1>2, CallsKeepInv, PTL DEF Spec

-----------------------------------------------------------------------------
(* The byte buffer of two threads. *)

\* The producer is moving drained cursors back to zero.
InReset == ppc \in {"read0", "write0", "last", "even"}

\* The consumer has started to load the cursors; it is past the check of the epoch.
Loading == cpc \in {"write", "read", "last", "again"}
Wrapping == cpc \in {"wrap", "signal", "take"}

\* The end of the oldest unread region: the watermark once writing has wrapped.
RegionEnd == IF wr < rd THEN last ELSE wr
Oldest == RegionEnd - rd

\* Flags are up while their grants are out, and exclude the attempts.
Flags ==
  /\ wip <=> wg.pc # "none"
  /\ rip <=> rg.pc # "none"
  /\ InReset => ~wip
  /\ Loading \/ Wrapping => ~rip

\* The cursors say what is unread.
Shape ==
  /\ rd <= RegionEnd
  /\ Len(unread) = Oldest + (IF wr < rd THEN wr ELSE 0)
  /\ \A k \in 1 .. Len(unread) :
       unread[k] = IF k <= Oldest THEN rd + k - 1 ELSE k - Oldest - 1

\* Except in the middle of a reset, of which there is at most one during an attempt
\* to read.
Resets ==
  /\ InReset <=> epoch \in {1, 3}
  /\ InReset => unread = <<>>
  /\ ppc = "read0" => rd = wr
  /\ ppc = "write0" => rd = 0
  /\ ppc \in {"last", "even"} => rd = 0 /\ wr = 0
  /\ Wrapping => ~InReset
  /\ Loading => /\ cs.e \in {0, 2}
                /\ InReset => epoch = cs.e + 1
                /\ epoch # cs.e /\ ~InReset => rd = 0

\* A write grant begins at the write cursor, or at the head with data in the tail.
Writing ==
  wg.pc \in {"held", "write"} =>
    /\ wg.start + wg.len <= Capacity
    /\ \/ wg.start = wr /\ (wr < rd => wr + wg.len < rd)
       \/ /\ wg.start = 0 /\ wr # 0 /\ rd <= wr /\ wg.len < rd
          /\ wg.pc = "write" => last = wr

\* A read grant is part of the oldest region.
Reading == rg.pc = "held" => rg.start = rd /\ rg.len \in 1 .. Oldest /\ ~InReset

\* Cursors that were loaded under a stable epoch show what was there then.
Snapshot ==
  /\ Loading /\ epoch = cs.e =>
       /\ cpc \in {"read", "last", "again"} =>
            IF cs.w < rd THEN wr < rd /\ cs.w <= wr ELSE cs.w <= RegionEnd
       /\ cpc \in {"last", "again"} => cs.r = rd
       /\ cpc = "again" /\ cs.w < cs.r => cs.l = last
  /\ cpc = "wrap" => cs.r = rd /\ cs.l = rd /\ last = rd /\ wr < rd /\ cs.w <= wr
  /\ cpc \in {"signal", "take"} => cs.r = 0 /\ rd = 0 /\ cs.w <= wr

GInv == BTypeOK /\ Flags /\ Resets /\ (ppc # "write0" => Shape) /\ Writing /\ Reading /\ Snapshot

-----------------------------------------------------------------------------
(* What a step does to the cursors, the grants and the positions of the two sides. *)

region == <<wr, rd, last, epoch, unread>>
grants == <<wip, rip, wg, rg>>

\* The producer, or a holder's signal, goes on outside a reset.
PElsewhere ==
  /\ UNCHANGED <<region, grants, cpc, cs>>
  /\ ppc' = ppc \/ (~InReset /\ ~InReset')

\* The consumer leaves an attempt, or is not in one.
CElsewhere ==
  UNCHANGED <<region, grants, ppc>> /\ cs' \in {cs, NoCursors} /\ ~Loading' /\ ~Wrapping'

\* The producer takes a grant, and begins a reset.
PGrants ==
  /\ ~wip /\ ~InReset /\ ~InReset'
  /\ \E s \in Starts(pn, wr, rd) : wg' = [pc |-> "held", start |-> s, len |-> pn]
  /\ wip' = TRUE /\ UNCHANGED <<region, rip, rg, cpc, cs>>
PStrands ==
  /\ ~wip /\ ppc = "try" /\ Stranded /\ ppc' = "read0" /\ epoch' = (epoch + 1) % 4
  /\ UNCHANGED <<wr, rd, last, unread, grants, cpc, cs>>

\* A reset ends, with a grant or without.
PEnds ==
  /\ ppc = "even" /\ ~InReset' /\ epoch' = (epoch + 1) % 4
  /\ \/ UNCHANGED <<wip, wg>>
     \/ /\ wip' = TRUE
        /\ \E s \in Starts(pn, 0, 0) : wg' = [pc |-> "held", start |-> s, len |-> pn]
  /\ UNCHANGED <<wr, rd, last, unread, rip, rg, cpc, cs>>

\* The consumer loads an even epoch; finds itself at the watermark; takes a grant.
CLoads ==
  /\ cpc = "try" /\ ~rip /\ epoch % 2 = 0 /\ cs' = [cs EXCEPT !.e = epoch] /\ cpc' = "write"
  /\ UNCHANGED <<region, grants, ppc>>
CWraps ==
  /\ cpc = "again" /\ Stable /\ AtWatermark /\ cpc' = "wrap"
  /\ UNCHANGED <<region, grants, ppc, cs>>
CGrants ==
  /\ \/ cpc = "again" /\ Stable /\ ~AtWatermark
     \/ cpc = "take"
  /\ LET n == (IF cs.w < cs.r THEN cs.l ELSE cs.w) - cs.r
     IN  n > 0 /\ rg' = [pc |-> "held", start |-> cs.r, len |-> n]
  /\ rip' = TRUE /\ cs' = NoCursors /\ ~Loading' /\ ~Wrapping'
  /\ UNCHANGED <<region, wip, wg, ppc>>

\* A holder gives its flag back.
WriteBack == wip' = FALSE /\ wg' = NoGrant /\ UNCHANGED <<region, rip, rg, ppc, cpc, cs>>
ReadBack == rip' = FALSE /\ rg' = NoGrant /\ UNCHANGED <<region, wip, wg, ppc, cpc, cs>>

\* Every step is one of these, or moves a cursor.
LEMMA BSteps ==
  ASSUME [BNext]_bVars
  PROVE  \/ PElsewhere \/ CElsewhere \/ PGrants \/ PStrands \/ PResetRead \/ PResetWrite
         \/ PResetLast \/ PEnds \/ CLoads \/ CWrite \/ CRead \/ CLast \/ CWraps \/ CWrap \/ CSignal
         \/ CGrants \/ (\E used \in Offset : Commit(used) \/ Release(used)) \/ CommitWrite
         \/ WriteBack \/ ReadBack
<1> USE DEF region, grants, bShared, pVars, wgVars, cVars, rgVars
<1>1. ASSUME \/ (\E n \in Requests : Reserve(n)) \/ PPoll \/ PCancel \/ PArm \/ PDisarm
             \/ CommitSpace \/ CommitData \/ DropWriteSpace \/ ReleaseData \/ ReleaseSpace
             \/ DropReadData \/ UNCHANGED bVars
      PROVE  PElsewhere
  BY ONLY <1>1, Zenon DEF Reserve, PPoll, PCancel, PArm, PDisarm, CommitSpace, CommitData,
     DropWriteSpace, ReleaseData, ReleaseSpace, DropReadData, bVars, PElsewhere, InReset
<1>2. ASSUME ReadBytes \/ CPoll \/ CCancel \/ CArm \/ CDisarm
      PROVE  CElsewhere
  BY ONLY <1>2, Zenon DEF ReadBytes, CPoll, CCancel, CArm, CDisarm, CElsewhere, Loading, Wrapping
<1>3. ASSUME CommitWip \/ DropWrite PROVE WriteBack
  BY ONLY <1>3 DEF CommitWip, DropWrite, WriteBack
<1>4. ASSUME ReleaseRip \/ DropRead PROVE ReadBack
  BY ONLY <1>4 DEF ReleaseRip, DropRead, ReadBack
<1>5. ASSUME PTry PROVE PElsewhere \/ PGrants \/ PStrands
  <2>1. CASE wip /\ NoRoom /\ UNCHANGED epoch
    BY ONLY <1>5, <2>1 DEF PTry, NoRoom, PElsewhere, InReset
  <2>2. CASE ~wip /\ ~Stranded /\ Decide(wr, rd) /\ UNCHANGED epoch
    <3>1. CASE NoRoom
      BY ONLY <1>5, <2>2, <3>1 DEF PTry, NoRoom, PElsewhere, InReset
    <3>2. CASE ~NoRoom
      BY ONLY <1>5, <2>2, <3>2 DEF PTry, Decide, PGrants, InReset
    <3> QED  BY <3>1, <3>2
  <2>3. CASE ~wip /\ Stranded /\ ppc' = "read0"
    BY ONLY <1>5, <2>3 DEF PTry, NoRoom, Decide, PStrands
  <2> QED  BY <1>5, <2>1, <2>2, <2>3 DEF PTry
<1>6. ASSUME PResetEven PROVE PEnds
  <2>1. CASE NoRoom
    BY ONLY <1>6, <2>1, SMTT(30) DEF PResetEven, NoRoom, PEnds, InReset
  <2>2. CASE ~NoRoom
    BY ONLY <1>6, <2>2 DEF PResetEven, Decide, PEnds, InReset
  <2> QED  BY <2>1, <2>2
<1>7. ASSUME CTry PROVE CElsewhere \/ CLoads
  BY ONLY <1>7 DEF CTry, NoData, CElsewhere, CLoads, Loading, Wrapping
<1>8. ASSUME CAgain PROVE CElsewhere \/ CWraps \/ CGrants
  BY ONLY <1>8 DEF CAgain, NoData, TakeRegion, CElsewhere, CWraps, CGrants, Loading, Wrapping
<1>9. ASSUME CTake PROVE CElsewhere \/ CGrants
  BY ONLY <1>9 DEF CTake, NoData, TakeRegion, CElsewhere, CGrants, Loading, Wrapping
<1> QED
  BY ONLY <1>1, <1>2, <1>3, <1>4, <1>5, <1>6, <1>7, <1>8, <1>9, [BNext]_bVars, Zenon
     DEF BNext, ProducerStep, ConsumerStep, WriteGrantStep, ReadGrantStep

-----------------------------------------------------------------------------
(* Types. *)

\* The parts of the type invariant, one variable at a time.
BSlotsType == space \in FlagType /\ avail \in FlagType
ControlType ==
  /\ pn \in Offset /\ pmode \in BMode /\ cmode \in BMode
  /\ ppc \in {"idle", "try", "read0", "write0", "last", "even", "arm", "disarm", "parked"}
  /\ cpc \in {"idle", "try", "write", "read", "last", "again", "wrap", "signal",
              "take", "arm", "disarm", "parked"}
  /\ wtail \in {"none", "space", "data", "drop"} /\ rtail \in {"none", "space", "data", "drop"}
CursorType ==
  /\ wr \in Offset /\ rd \in Offset /\ last \in Offset /\ epoch \in 0 .. 3
  /\ unread \in Seq(0 .. Capacity - 1)
  /\ cs \in [e : 0 .. 3, w : Offset, r : Offset, l : Offset]
GrantType ==
  /\ wip \in BOOLEAN /\ rip \in BOOLEAN
  /\ wg \in [pc : {"none", "held", "write", "wip"}, start : Offset, len : Offset]
  /\ rg \in [pc : {"none", "held", "rip"}, start : Offset, len : Offset]

\* The type invariant, part by part.
LEMMA BTypeParts == BTypeOK <=> BSlotsType /\ ControlType /\ CursorType /\ GrantType
BY Zenon DEF BTypeOK, BSlotsType, ControlType, CursorType, GrantType

\* Every operation on a slot gives a slot.
LEMMA FlagOpsType ==
  /\ NewFlag \in FlagType /\ FlagDisarm \in FlagType /\ FlagArm \subseteq FlagType
  /\ \A s \in FlagType : FlagPolled(s) \in FlagType /\ FlagSignal(s) \in FlagType
<1>1. NewFlag \in FlagType /\ FlagDisarm \in FlagType
  BY DEF NewFlag, FlagDisarm, FlagType
<1>2. FlagArm \subseteq FlagType
  <2>1. \A b \in BOOLEAN : [armed |-> TRUE, waiting |-> TRUE, woken |-> b] \in FlagType
    BY DEF FlagType
  <2> QED  BY <2>1, Zenon DEF FlagArm
<1>3. ASSUME NEW s \in FlagType PROVE FlagPolled(s) \in FlagType
  BY Zenon DEF FlagPolled, FlagType
<1>4. ASSUME NEW s \in FlagType PROVE FlagSignal(s) \in FlagType
  <2>1. CASE s.armed
    BY Zenon, <2>1 DEF FlagSignal, FlagType
  <2>2. CASE ~s.armed
    BY <2>2 DEF FlagSignal
  <2> QED  BY <2>1, <2>2
<1> QED  BY <1>1, <1>2, <1>3, <1>4

\* The slots stay slots.
LEMMA StepKeepsBSlots ==
  ASSUME BSlotsType, [BNext]_bVars
  PROVE  BSlotsType'
<1>1. /\ space' \in {space, FlagPolled(space), FlagSignal(space), FlagDisarm} \cup FlagArm
      /\ avail' \in {avail, FlagPolled(avail), FlagSignal(avail), FlagDisarm} \cup FlagArm
  BY Zenon DEF BNext, bVars, ProducerStep, ConsumerStep, WriteGrantStep, ReadGrantStep, Reserve, PPoll,
     PCancel, PTry, PResetRead, PResetWrite, PResetLast, PResetEven, PArm, PDisarm, ReadBytes, CPoll,
     CCancel, CTry, CWrite, CRead, CLast, CAgain, CWrap, CSignal, CTake, CArm, CDisarm, Commit, Release,
     DropWrite, CommitWrite, CommitWip, CommitSpace, CommitData, DropWriteSpace, DropRead, ReleaseRip,
     ReleaseData, ReleaseSpace, DropReadData
<1> QED  BY <1>1, FlagOpsType, Zenon DEF BSlotsType

\* The control state keeps its type.
LEMMA StepKeepsControl ==
  ASSUME ControlType, [BNext]_bVars
  PROVE  ControlType'
<1> USE DEF ControlType, pVars, wgVars, cVars, rgVars
<1>0. 0 \in Offset /\ Requests \subseteq Offset
  BY BipAssumption DEF Offset
<1>1. CASE \/ (\E n \in Requests : Reserve(n)) \/ PPoll \/ PCancel \/ PResetRead \/ PResetWrite
           \/ PResetLast \/ PArm \/ PDisarm
  BY <1>0, <1>1, Zenon DEF Reserve, PPoll, PCancel, PResetRead, PResetWrite, PResetLast, PArm,
     PDisarm, BMode
<1>2. ASSUME NoRoom /\ UNCHANGED <<wtail, cVars, rgVars>> PROVE ControlType'
  BY <1>0, <1>2 DEF NoRoom
<1>3. ASSUME NEW w, NEW r, Decide(w, r), UNCHANGED <<wtail, cVars, rgVars>> PROVE ControlType'
  <2>1. CASE NoRoom
    BY <1>2, <1>3, <2>1
  <2>2. CASE ~NoRoom
    <3>1. pn' = 0 /\ pmode' = "fast" /\ ppc' \in {"disarm", "idle"}
      BY ONLY <1>3, <2>2 DEF Decide
    <3> QED  BY <1>0, <1>3, <3>1 DEF BMode
  <2> QED  BY <2>1, <2>2
<1>4. CASE PTry
  <2>1. CASE ppc' = "read0" /\ UNCHANGED <<pmode, pn>>
    BY <1>4, <2>1 DEF PTry
  <2> QED  BY <1>2, <1>3, <1>4, <2>1 DEF PTry
<1>5. CASE PResetEven
  BY <1>3, <1>5 DEF PResetEven
<1>6. CASE \/ ReadBytes \/ CPoll \/ CCancel \/ CWrite \/ CRead \/ CLast \/ CWrap \/ CSignal \/ CArm
           \/ CDisarm
  BY <1>6, Zenon DEF ReadBytes, CPoll, CCancel, CWrite, CRead, CLast, CWrap, CSignal, CArm, CDisarm,
     BMode
<1>7. CASE CTry
  BY <1>7 DEF CTry, NoData
<1>8. CASE CAgain
  BY <1>8, SMTT(30) DEF CAgain, TakeRegion, NoData, BMode
<1>9. CASE CTake
  BY <1>9 DEF CTake, TakeRegion, NoData, BMode
<1>10. CASE \/ (\E used \in Offset : Commit(used) \/ Release(used)) \/ CommitWrite \/ CommitWip
            \/ CommitSpace \/ CommitData \/ DropWriteSpace \/ DropRead \/ ReleaseRip \/ ReleaseData
            \/ ReleaseSpace \/ DropReadData
  BY <1>10, Zenon DEF Commit, Release, CommitWrite, CommitWip, CommitSpace, CommitData,
     DropWriteSpace, DropRead, ReleaseRip, ReleaseData, ReleaseSpace, DropReadData
<1>11. CASE DropWrite
  BY <1>11 DEF DropWrite
<1>12. CASE UNCHANGED bVars
  BY <1>12 DEF bVars
<1> QED
  BY ONLY <1>1, <1>4, <1>5, <1>6, <1>7, <1>8, <1>9, <1>10, <1>11, <1>12, [BNext]_bVars, Zenon
     DEF BNext, ProducerStep, ConsumerStep, WriteGrantStep, ReadGrantStep

-----------------------------------------------------------------------------
(* The cursors and the grants. *)

\* What the types say, as numbers.
LEMMA Bounds ==
  ASSUME CursorType, GrantType
  PROVE  /\ Capacity \in Nat /\ wr \in Nat /\ rd \in Nat /\ last \in Nat
         /\ wr <= Capacity /\ rd <= Capacity /\ last <= Capacity
         /\ cs.w \in Nat /\ cs.r \in Nat /\ cs.l \in Nat
         /\ wg.start \in Nat /\ wg.len \in Nat /\ rg.start \in Nat /\ rg.len \in Nat
         /\ RegionEnd \in Nat /\ RegionEnd <= Capacity
BY BipAssumption DEF CursorType, GrantType, Offset, RegionEnd

\* A grant fits the buffer.
LEMMA StartsFit ==
  ASSUME NEW n \in Offset, NEW w \in Offset, NEW r \in Offset, NEW s \in Starts(n, w, r)
  PROVE  /\ s \in Offset /\ s + n <= Capacity
         /\ \/ s = w /\ (w < r => w + n < r)
            \/ s = 0 /\ w # 0 /\ r <= w /\ n < r
<1>1. Capacity \in Nat /\ n \in Nat /\ w \in Nat /\ r \in Nat /\ w <= Capacity /\ r <= Capacity
  BY BipAssumption DEF Offset
<1> QED  BY <1>1 DEF Starts, Offset

\* The epoch counts modulo four.
LEMMA NextEpoch ==
  ASSUME NEW e \in 0 .. 3
  PROVE  /\ (e + 1) % 4 = IF e = 3 THEN 0 ELSE e + 1
         /\ e % 2 = 0 <=> e \in {0, 2}
<1>1. e = 0 \/ e = 1 \/ e = 2 \/ e = 3
  OBVIOUS
<1> QED  BY <1>1

\* What is left of a sequence without its first n members.
LEMMA Dropped ==
  ASSUME NEW S, NEW q \in Seq(S), NEW n \in Nat, n <= Len(q)
  PROVE  /\ SubSeq(q, n + 1, Len(q)) \in Seq(S)
         /\ Len(SubSeq(q, n + 1, Len(q))) = Len(q) - n
         /\ \A k \in 1 .. Len(q) - n : SubSeq(q, n + 1, Len(q))[k] = q[k + n]
<1>0. Len(q) \in Nat
  OBVIOUS
<1>1. Len(SubSeq(q, n + 1, Len(q))) = Len(q) - n
  BY <1>0
<1>3. \A k \in 1 .. Len(q) - n : SubSeq(q, n + 1, Len(q))[k] = q[k + n]
  BY <1>0
<1>2. SubSeq(q, n + 1, Len(q)) \in Seq(S)
  BY <1>0, <1>1, <1>3
<1> QED  BY <1>1, <1>2, <1>3

\* What a holder releases was unread.
LEMMA ReleasedIsUnread ==
  ASSUME GInv, rg.pc = "held", NEW used \in Nat, used <= rg.len
  PROVE  rd + used <= RegionEnd /\ used <= Len(unread) /\ used <= Oldest /\ Shape /\ ~InReset
<1>1. CursorType /\ GrantType
  BY BTypeParts DEF GInv
<1>2. rg.len \in 1 .. Oldest /\ ~InReset /\ Shape
  BY DEF GInv, Reading, InReset
<1>3. rd \in Nat /\ wr \in Nat /\ RegionEnd \in Nat /\ rg.len \in Nat
  BY <1>1, Bounds
<1>4. Oldest \in Int /\ rg.len <= Oldest /\ rd + Oldest = RegionEnd
  BY <1>2, <1>3 DEF Oldest
<1>5. Len(unread) >= Oldest
  BY <1>2, <1>3, <1>4 DEF Shape
<1> QED  BY <1>1, <1>2, <1>3, <1>4, <1>5

\* The cursors keep their types.
LEMMA StepKeepsCursors ==
  ASSUME GInv, [BNext]_bVars
  PROVE  CursorType'
<1>0. CursorType /\ GrantType /\ pn \in Offset
  BY BTypeParts DEF GInv, ControlType
<1>b. 0 \in Offset /\ Capacity \in Offset /\ Capacity \in Nat
  BY BipAssumption DEF Offset
<1> USE DEF CursorType
<1>1. CASE PElsewhere \/ PGrants \/ WriteBack \/ ReadBack
  BY <1>0, <1>1 DEF PElsewhere, PGrants, WriteBack, ReadBack, region
<1>2. CASE CElsewhere \/ CGrants
  <2>1. NoCursors \in [e : 0 .. 3, w : Offset, r : Offset, l : Offset]
    BY <1>b DEF NoCursors
  <2> QED  BY <1>0, <1>2, <2>1 DEF CElsewhere, CGrants, region
<1>3. CASE PStrands \/ PEnds
  <2>1. epoch' \in 0 .. 3
    BY <1>0, <1>3, NextEpoch DEF PStrands, PEnds
  <2> QED  BY <1>0, <1>3, <2>1 DEF PStrands, PEnds
<1>4. CASE PResetRead \/ PResetWrite \/ PResetLast
  BY <1>0, <1>b, <1>4 DEF PResetRead, PResetWrite, PResetLast, cVars
<1>5. CASE CLoads \/ CWrite \/ CRead \/ CLast
  BY <1>0, <1>5 DEF CLoads, CWrite, CRead, CLast, region, bShared
<1>6. CASE CWraps \/ CWrap \/ CSignal
  BY <1>0, <1>b, <1>6 DEF CWraps, CWrap, CSignal, region, bShared
<1>7. CASE \E used \in Offset : Commit(used)
  BY <1>0, <1>7 DEF Commit, cVars
<1>8. CASE CommitWrite
  <2>1. /\ wr' = wg.start + wg.len /\ unread' = unread \o Bytes(wg.start, wg.len)
        /\ UNCHANGED <<rd, last, epoch, cs>>
    BY <1>8 DEF CommitWrite, cVars
  <2>2. wg.start \in Nat /\ wg.len \in Nat /\ wg.start + wg.len <= Capacity
    BY <1>0, <1>8, Bounds DEF CommitWrite, GInv, Writing
  <2>3. Bytes(wg.start, wg.len) \in Seq(0 .. Capacity - 1)
    BY <1>b, <2>2 DEF Bytes
  <2>4. wr' \in Offset
    BY <1>b, <2>1, <2>2 DEF Offset
  <2> QED  BY <1>0, <2>1, <2>3, <2>4
<1>9. CASE \E used \in Offset : Release(used)
  <2>1. PICK used \in Offset : Release(used)
    BY <1>9
  <2>2. /\ rd' = rd + used /\ unread' = SubSeq(unread, used + 1, Len(unread))
        /\ UNCHANGED <<wr, last, epoch, cs>> /\ rg.pc = "held" /\ used <= rg.len
    BY <2>1 DEF Release, cVars
  <2>3. used \in Nat /\ Len(unread) \in Nat
    BY <1>0, <1>b DEF Offset
  <2>5. rd + used <= RegionEnd /\ used <= Len(unread)
    BY <1>0, <2>2, <2>3, ReleasedIsUnread
  <2>4. unread' \in Seq(0 .. Capacity - 1)
    BY Zenon, <1>0, <2>2, <2>3, <2>5, Dropped
  <2>7. rd' \in Offset
    BY <1>0, <2>2, <2>3, <2>5, Bounds, SMTT(30) DEF Offset
  <2> QED  BY <1>0, <2>2, <2>4, <2>7
<1> QED
  BY ONLY <1>1, <1>2, <1>3, <1>4, <1>5, <1>6, <1>7, <1>8, <1>9, BSteps, [BNext]_bVars, Zenon

\* The grants keep their types.
LEMMA StepKeepsGrants ==
  ASSUME GInv, [BNext]_bVars
  PROVE  GrantType'
<1>0. CursorType /\ GrantType /\ pn \in Offset
  BY BTypeParts DEF GInv, ControlType
<1>b. 0 \in Offset /\ Capacity \in Nat
  BY BipAssumption DEF Offset
<1>w. /\ NoGrant \in [pc : {"none", "held", "write", "wip"}, start : Offset, len : Offset]
      /\ NoGrant \in [pc : {"none", "held", "rip"}, start : Offset, len : Offset]
  BY <1>b DEF NoGrant
<1> USE DEF GrantType
<1>1. CASE \/ PElsewhere \/ CElsewhere \/ PStrands \/ PResetRead \/ PResetWrite \/ PResetLast
           \/ CLoads \/ CWrite \/ CRead \/ CLast \/ CWraps \/ CWrap \/ CSignal
  <2>1. UNCHANGED grants
    BY ONLY <1>1, Zenon DEF PElsewhere, CElsewhere, PStrands, PResetRead, PResetWrite, PResetLast,
       CLoads,
       CWrite, CRead, CLast, CWraps, CWrap, CSignal, region, grants, bShared, wgVars, rgVars
  <2> QED  BY <1>0, <2>1 DEF grants
<1>2. ASSUME NEW w \in Offset, NEW r \in Offset, NEW s \in Starts(pn, w, r)
      PROVE  [pc |-> "held", start |-> s, len |-> pn]
               \in [pc : {"none", "held", "write", "wip"}, start : Offset, len : Offset]
  <2>1. s \in Offset
    BY <1>0, StartsFit
  <2> QED  BY <1>0, <2>1
<1>3. CASE PGrants
  BY <1>0, <1>2, <1>3 DEF PGrants, CursorType
<1>4. CASE PEnds
  <2>1. wip' = wip \/ wip' = TRUE
    BY <1>4 DEF PEnds
  <2>2. wg' \in [pc : {"none", "held", "write", "wip"}, start : Offset, len : Offset]
    <3>1. CASE wg' = wg
      BY <1>0, <3>1, SMTT(30)
    <3>2. CASE wg' # wg
      <4>1. PICK s \in Starts(pn, 0, 0) : wg' = [pc |-> "held", start |-> s, len |-> pn]
        BY <1>4, <3>2 DEF PEnds
      <4> QED  BY <1>b, <1>2, <4>1
    <3> QED  BY <3>1, <3>2
  <2> QED  BY Zenon, <1>0, <1>4, <2>1, <2>2 DEF PEnds
<1>5. CASE CGrants
  <2>1. cs.r \in Offset /\ cs.w \in Offset /\ cs.l \in Offset
    BY <1>0 DEF CursorType
  <2>2. PICK n \in Int : n > 0 /\ n = (IF cs.w < cs.r THEN cs.l ELSE cs.w) - cs.r
                         /\ rg' = [pc |-> "held", start |-> cs.r, len |-> n]
    BY <1>5, <2>1 DEF CGrants, Offset
  <2>3. n \in Offset
    BY <1>b, <2>1, <2>2 DEF Offset
  <2>4. rg' \in [pc : {"none", "held", "rip"}, start : Offset, len : Offset]
    BY <2>1, <2>2, <2>3
  <2> QED  BY <1>0, <1>5, <2>4 DEF CGrants
<1>6. CASE WriteBack \/ ReadBack
  BY <1>0, <1>w, <1>6, Zenon DEF WriteBack, ReadBack
<1>7. CASE \E used \in Offset : Commit(used)
  <2>1. wg' \in [pc : {"none", "held", "write", "wip"}, start : Offset, len : Offset]
    BY Zenon, <1>0, <1>7 DEF Commit
  <2>2. UNCHANGED <<wip, rip, rg>>
    BY <1>7 DEF Commit, rgVars
  <2> QED  BY <1>0, <2>1, <2>2
<1>8. CASE CommitWrite
  <2>1. wg' \in [pc : {"none", "held", "write", "wip"}, start : Offset, len : Offset]
    BY <1>w, <1>8 DEF CommitWrite
  <2>2. UNCHANGED <<wip, rip, rg>>
    BY <1>8 DEF CommitWrite, rgVars
  <2> QED  BY <1>0, <2>1, <2>2
<1>9. CASE \E used \in Offset : Release(used)
  <2>1. rg' \in [pc : {"none", "held", "rip"}, start : Offset, len : Offset]
    BY <1>w, <1>9 DEF Release
  <2>2. UNCHANGED <<wip, rip, wg>>
    BY <1>9 DEF Release, wgVars
  <2> QED  BY <1>0, <2>1, <2>2
<1> QED
  BY ONLY <1>1, <1>3, <1>4, <1>5, <1>6, <1>7, <1>8, <1>9, BSteps, [BNext]_bVars, Zenon

\* The flags stay with the grants.
LEMMA StepKeepsFlags ==
  ASSUME GInv, [BNext]_bVars
  PROVE  Flags'
<1>0. Flags /\ GrantType
  BY BTypeParts DEF GInv
<1> USE DEF Flags, InReset, Loading, Wrapping, GrantType, region, grants, bShared, cVars, pVars,
   wgVars, rgVars
<1>1. CASE PElsewhere
  BY <1>0, <1>1 DEF PElsewhere, NoGrant
<1>2. CASE CElsewhere
  BY <1>0, <1>2 DEF CElsewhere, NoGrant
<1>3. CASE PGrants
  BY <1>0, <1>3 DEF PGrants, NoGrant
<1>4. CASE PStrands
  BY <1>0, <1>4 DEF PStrands, NoGrant
<1>5. CASE PResetRead
  BY <1>0, <1>5 DEF PResetRead, NoGrant
<1>6. CASE PResetWrite
  BY <1>0, <1>6 DEF PResetWrite, NoGrant
<1>7. CASE PResetLast
  BY <1>0, <1>7 DEF PResetLast, NoGrant
<1>8. CASE PEnds
  BY <1>0, <1>8 DEF PEnds, NoGrant
<1>9. CASE CLoads
  BY <1>0, <1>9 DEF CLoads, NoGrant
<1>10. CASE CWrite
  BY <1>0, <1>10 DEF CWrite, NoGrant
<1>11. CASE CRead
  BY <1>0, <1>11 DEF CRead, NoGrant
<1>12. CASE CLast
  BY <1>0, <1>12 DEF CLast, NoGrant
<1>13. CASE CWraps
  BY <1>0, <1>13 DEF CWraps, NoGrant
<1>14. CASE CWrap
  BY <1>0, <1>14 DEF CWrap, NoGrant
<1>15. CASE CSignal
  BY <1>0, <1>15 DEF CSignal, NoGrant
<1>16. CASE CGrants
  BY <1>0, <1>16 DEF CGrants, NoGrant
<1>17. CASE \E used \in Offset : Commit(used)
  BY <1>0, <1>17 DEF Commit, NoGrant
<1>18. CASE \E used \in Offset : Release(used)
  BY <1>0, <1>18 DEF Release, NoGrant
<1>19. CASE CommitWrite
  BY <1>0, <1>19 DEF CommitWrite, NoGrant
<1>20. CASE WriteBack
  BY <1>0, <1>20 DEF WriteBack, NoGrant
<1>21. CASE ReadBack
  BY <1>0, <1>21 DEF ReadBack, NoGrant
<1> QED
  BY ONLY <1>1, <1>2, <1>3, <1>4, <1>5, <1>6, <1>7, <1>8, <1>9, <1>10, <1>11, <1>12, <1>13, <1>14,
     <1>15, <1>16, <1>17, <1>18, <1>19, <1>20, <1>21,
     BSteps, [BNext]_bVars, Zenon

\* A reset finds the buffer empty, and one at most comes into an attempt to read.
LEMMA StepKeepsResets ==
  ASSUME GInv, [BNext]_bVars
  PROVE  Resets'
<1>0. CursorType /\ GrantType
  BY BTypeParts DEF GInv
<1>i. Flags /\ Resets /\ Snapshot /\ (ppc # "write0" => Shape) /\ Reading
  BY DEF GInv
<1>b. wr \in Nat /\ rd \in Nat /\ epoch \in 0 .. 3 /\ cs \in [e : 0 .. 3, w : Offset, r : Offset, l
   : Offset]
  BY <1>0, Bounds DEF CursorType
<1> USE DEF Resets, InReset, Loading, Wrapping, region, grants, bShared, cVars, pVars, wgVars, rgVars
<1>1. CASE PElsewhere
  BY <1>i, <1>b, <1>1 DEF PElsewhere
<1>2. CASE CElsewhere
  BY <1>i, <1>b, <1>2 DEF CElsewhere
<1>3. CASE PGrants
  BY <1>i, <1>b, <1>3 DEF PGrants
<1>4. CASE PStrands
  <2>1. /\ ppc = "try" /\ rd = wr /\ wr # 0 /\ ppc' = "read0" /\ epoch' = (epoch + 1) % 4
        /\ UNCHANGED <<wr, rd, unread, cpc, cs>>
    BY <1>4 DEF PStrands, Stranded
  <2>2. epoch' \in {1, 3}
    BY <1>i, <1>b, <2>1, NextEpoch
  <2>3. unread = <<>>
    BY <1>0, <1>i, <1>b, <2>1 DEF Shape, RegionEnd, Oldest, CursorType
  <2>4. ~Wrapping
    BY <1>i, <1>b, <2>1 DEF Snapshot
  <2>5. Loading => epoch' = cs.e + 1
    BY <1>i, <1>b, <2>1, NextEpoch
  <2> QED  BY <1>i, <2>1, <2>2, <2>3, <2>4, <2>5
<1>5. CASE PResetRead
  BY <1>i, <1>b, <1>5 DEF PResetRead
<1>6. CASE PResetWrite
  BY <1>i, <1>b, <1>6 DEF PResetWrite
<1>7. CASE PResetLast
  BY <1>i, <1>b, <1>7 DEF PResetLast
<1>8. CASE PEnds
  BY <1>i, <1>b, <1>8, NextEpoch DEF PEnds
<1>9. CASE CLoads
  BY <1>i, <1>b, <1>9, NextEpoch DEF CLoads
<1>10. CASE CWrite
  BY <1>i, <1>b, <1>10 DEF CWrite
<1>11. CASE CRead
  BY <1>i, <1>b, <1>11 DEF CRead
<1>12. CASE CLast
  BY <1>i, <1>b, <1>12 DEF CLast
<1>13. CASE CWraps
  BY <1>i, <1>13 DEF CWraps, Stable
<1>14. CASE CWrap
  BY <1>i, <1>b, <1>14 DEF CWrap
<1>15. CASE CSignal
  BY <1>i, <1>b, <1>15 DEF CSignal
<1>16. CASE CGrants
  BY <1>i, <1>b, <1>16 DEF CGrants
<1>17. CASE \E used \in Offset : Commit(used)
  BY <1>i, <1>b, <1>17 DEF Commit
<1>18. CASE \E used \in Offset : Release(used)
  BY <1>i, <1>18 DEF Release, Flags, Reading
<1>19. CASE CommitWrite
  BY <1>i, <1>19 DEF CommitWrite, Flags
<1>20. CASE WriteBack
  BY <1>i, <1>b, <1>20 DEF WriteBack
<1>21. CASE ReadBack
  BY <1>i, <1>b, <1>21 DEF ReadBack
<1> QED
  BY ONLY <1>1, <1>2, <1>3, <1>4, <1>5, <1>6, <1>7, <1>8, <1>9, <1>10, <1>11, <1>12, <1>13, <1>14,
     <1>15, <1>16, <1>17, <1>18, <1>19, <1>20, <1>21,
     BSteps, [BNext]_bVars, ZenonT(40)

\* The cursors go on saying what is unread.
LEMMA StepKeepsShape ==
  ASSUME GInv, [BNext]_bVars
  PROVE  ppc' # "write0" => Shape'
<1>0. CursorType /\ GrantType
  BY BTypeParts DEF GInv
<1>i. Flags /\ Resets /\ Snapshot /\ (ppc # "write0" => Shape) /\ Writing
  BY DEF GInv
<1>b. /\ wr \in Nat /\ rd \in Nat /\ last \in Nat /\ wg.start \in Nat /\ wg.len \in Nat
      /\ unread \in Seq(0 .. Capacity - 1) /\ Len(unread) \in Nat /\ Capacity \in Nat
  BY <1>0, Bounds DEF CursorType
<1>f. ASSUME UNCHANGED <<wr, rd, last, unread>>, ppc = "write0" => ppc' = "write0"
      PROVE  ppc' # "write0" => Shape'
  BY <1>i, <1>f DEF Shape, RegionEnd, Oldest
<1>1. CASE \/ PElsewhere \/ CElsewhere \/ PGrants \/ PStrands \/ PEnds \/ CLoads \/ CWrite \/ CRead
           \/ CLast \/ CWraps \/ CSignal \/ CGrants \/ WriteBack \/ ReadBack
  <2>1. UNCHANGED <<wr, rd, last, unread>> /\ (ppc = "write0" => ppc' = "write0")
    BY ONLY <1>1, Zenon DEF PElsewhere, CElsewhere, PGrants, PStrands, PEnds, CLoads, CWrite, CRead,
       CLast, CWraps, CSignal, CGrants, WriteBack, ReadBack, region, bShared, pVars, InReset
  <2> QED  BY <1>f, <2>1
<1>2. CASE PResetRead
  BY <1>2 DEF PResetRead
<1>3. CASE PResetWrite \/ PResetLast
  <2>1. rd' = 0 /\ wr' = 0 /\ unread' = <<>>
    BY <1>i, <1>3 DEF PResetWrite, PResetLast, Resets, InReset
  <2> QED  BY <2>1 DEF Shape, RegionEnd, Oldest
<1>4. CASE CWrap
  <2>1. rd' = 0 /\ UNCHANGED <<wr, unread, ppc>> /\ last = rd /\ wr < rd
    BY <1>i, <1>4 DEF CWrap, Snapshot, pVars
  <2>2. Shape
    BY <1>i, <1>b, <2>1 DEF Resets
  <2>3. Len(unread) = wr /\ \A k \in 1 .. wr : unread[k] = k - 1
    BY <1>b, <2>1, <2>2 DEF Shape, RegionEnd, Oldest
  <2> QED  BY <1>b, <2>1, <2>3 DEF Shape, RegionEnd, Oldest
<1>5. CASE \E used \in Offset : Commit(used)
  <2>1. /\ wg.pc = "held" /\ last' = (IF wg.start = 0 /\ wr # 0 THEN wr ELSE last)
        /\ UNCHANGED <<wr, rd, unread, ppc>>
    BY <1>5 DEF Commit, pVars
  <2>2. CASE last' = last
    BY <1>f, <2>1, <2>2
  <2>3. CASE last' # last
    <3>1. rd <= wr
      BY <1>i, <2>1, <2>3 DEF Writing
    <3>2. RegionEnd' = wr /\ RegionEnd = wr
      BY <1>b, <2>1, <3>1 DEF RegionEnd
    <3> QED  BY <1>i, <1>b, <2>1, <3>1, <3>2 DEF Shape, Oldest
  <2> QED  BY <2>2, <2>3
<1>6. CASE CommitWrite
  <2>1. /\ wg.pc = "write" /\ wr' = wg.start + wg.len /\ unread' = unread \o Bytes(wg.start, wg.len)
        /\ UNCHANGED <<rd, last, ppc>>
    BY <1>6 DEF CommitWrite, pVars
  <2>n. /\ wr \in Nat /\ rd \in Nat /\ last \in Nat /\ wg.start \in Nat /\ wg.len \in Nat
        /\ Capacity \in Nat /\ Len(unread) \in Nat /\ wr' = wg.start + wg.len /\ rd' = rd
    BY ONLY <1>b, <2>1, Zenon
  <2>2. Shape
    BY <1>i, <2>1 DEF Flags, InReset
  <2>3. /\ wg.start + wg.len <= Capacity
        /\ \/ wg.start = wr /\ (wr < rd => wr + wg.len < rd)
           \/ wg.start = 0 /\ wr # 0 /\ rd <= wr /\ wg.len < rd /\ last = wr
    BY <1>i, <2>1 DEF Writing
  <2>4. Bytes(wg.start, wg.len) \in Seq(0 .. Capacity - 1)
    <3>1. \A k \in 1 .. wg.len : wg.start + k - 1 \in 0 .. Capacity - 1
      <4>1. wg.start + wg.len <= Capacity
        BY ONLY <2>3, Zenon
      <4> QED  BY ONLY <2>n, <4>1, SMTT(30)
    <3>2. Bytes(wg.start, wg.len) \in [1 .. wg.len -> 0 .. Capacity - 1]
      BY ONLY <3>1, Zenon DEF Bytes
    <3> QED  BY ONLY <2>n, <3>2
  <2>5. /\ Len(unread') = Len(unread) + wg.len
        /\ \A k \in 1 .. Len(unread) : unread'[k] = unread[k]
        /\ \A k \in 1 .. wg.len : unread'[Len(unread) + k] = wg.start + k - 1
    <3>1. PICK more \in Seq(0 .. Capacity - 1) : more = Bytes(wg.start, wg.len)
      BY <2>4
    <3>2. Len(more) = wg.len /\ \A k \in 1 .. wg.len : more[k] = wg.start + k - 1
      BY <1>b, <3>1 DEF Bytes
    <3> QED  BY <1>b, <2>1, <3>1, <3>2
  <2>6. ASSUME NEW k \in 1 .. Len(unread'), k > Len(unread)
        PROVE  unread'[k] = wg.start + (k - Len(unread)) - 1
    <3>1. k - Len(unread) \in 1 .. wg.len /\ Len(unread) + (k - Len(unread)) = k
      BY <1>b, <2>5, <2>6
    <3> QED  BY <2>5, <3>1
  <2>7. \A k \in 1 .. Len(unread') : k <= Len(unread) \/ k > Len(unread)
    BY <1>b, <2>5
  <2>8. CASE wg.start = wr /\ rd <= wr
    <3>1. RegionEnd' = wr + wg.len /\ RegionEnd = wr /\ Len(unread) = wr - rd
      BY <1>b, <2>1, <2>2, <2>8, SMTT(30) DEF RegionEnd, Shape, Oldest
    <3>2. \A k \in 1 .. Len(unread') : unread'[k] = rd + k - 1
      BY <1>b, <2>2, <2>5, <2>6, <2>7, <2>8, <3>1 DEF Shape, Oldest
    <3>3. ~(wr' < rd') /\ Oldest' = (wr + wg.len) - rd /\ Len(unread') = Oldest'
      BY <1>b, <2>1, <2>5, <2>8, <3>1 DEF Oldest
    <3>4. \A k \in 1 .. Len(unread') : k <= Oldest'
      BY <1>b, <2>1, <2>8, <3>3
    <3>5. rd' <= RegionEnd' /\ Len(unread') = Oldest' + (IF wr' < rd' THEN wr' ELSE 0)
      BY ONLY <2>n, <2>8, <3>1, <3>3
    <3>6. \A k \in 1 .. Len(unread') :
            unread'[k] = IF k <= Oldest' THEN rd' + k - 1 ELSE k - Oldest' - 1
      BY ONLY <2>1, <3>2, <3>4, Zenon
    <3> QED  BY ONLY <3>5, <3>6, Zenon DEF Shape
  <2>9. CASE wr < rd
    <3>1. wg.start = wr /\ wr + wg.len < rd /\ RegionEnd' = last /\ RegionEnd = last
      BY <1>b, <2>1, <2>3, <2>9 DEF RegionEnd
    <3>2. Oldest' = Oldest /\ Oldest \in Nat /\ Len(unread) = Oldest + wr /\ rd <= last
      BY <1>b, <2>1, <2>2, <2>9, <3>1 DEF Shape, Oldest
    <3>3. ASSUME NEW k \in 1 .. Len(unread')
          PROVE  unread'[k] = IF k <= Oldest THEN rd + k - 1 ELSE k - Oldest - 1
      <4>1. CASE k <= Len(unread)
        BY <1>b, <2>2, <2>5, <4>1 DEF Shape
      <4>2. CASE k > Len(unread)
        BY <1>b, <2>5, <2>6, <3>1, <3>2, <4>2
      <4> QED  BY <2>7, <4>1, <4>2
    <3>4. rd' <= RegionEnd' /\ Len(unread') = Oldest' + (IF wr' < rd' THEN wr' ELSE 0)
      <4>1. Len(unread') = Len(unread) + wg.len
        BY ONLY <2>5, Zenon
      <4> QED  BY ONLY <2>n, <2>9, <3>1, <3>2, <4>1
    <3>5. \A k \in 1 .. Len(unread') :
            unread'[k] = IF k <= Oldest' THEN rd' + k - 1 ELSE k - Oldest' - 1
      BY ONLY <2>1, <3>2, <3>3, Zenon
    <3> QED  BY ONLY <3>4, <3>5, Zenon DEF Shape
  <2>10. CASE wg.start = 0 /\ wr # 0 /\ rd <= wr /\ wg.len < rd /\ last = wr
    <3>1. RegionEnd' = wr /\ RegionEnd = wr /\ wr' < rd'
      BY <1>b, <2>1, <2>10 DEF RegionEnd
    <3>2. Oldest' = Oldest /\ Oldest \in Nat /\ Len(unread) = Oldest
      BY <1>b, <2>1, <2>2, <2>10, <3>1 DEF Shape, Oldest
    <3>3. ASSUME NEW k \in 1 .. Len(unread')
          PROVE  unread'[k] = IF k <= Oldest THEN rd + k - 1 ELSE k - Oldest - 1
      <4>1. CASE k <= Len(unread)
        BY <1>b, <2>2, <2>5, <4>1 DEF Shape
      <4>2. CASE k > Len(unread)
        BY <1>b, <2>5, <2>6, <2>10, <3>2, <4>2
      <4> QED  BY <2>7, <4>1, <4>2
    <3>4. rd' <= RegionEnd' /\ Len(unread') = Oldest' + (IF wr' < rd' THEN wr' ELSE 0)
      <4>1. Len(unread') = Len(unread) + wg.len
        BY ONLY <2>5, Zenon
      <4> QED  BY ONLY <2>n, <2>10, <3>1, <3>2, <4>1
    <3>5. \A k \in 1 .. Len(unread') :
            unread'[k] = IF k <= Oldest' THEN rd' + k - 1 ELSE k - Oldest' - 1
      BY ONLY <2>1, <3>2, <3>3, Zenon
    <3> QED  BY ONLY <3>4, <3>5, Zenon DEF Shape
  <2> QED  BY <1>b, <2>3, <2>8, <2>9, <2>10
<1>7. CASE \E used \in Offset : Release(used)
  <2>1. PICK used \in Offset : Release(used)
    BY <1>7
  <2>2. /\ rd' = rd + used /\ unread' = SubSeq(unread, used + 1, Len(unread))
        /\ UNCHANGED <<wr, last, ppc>> /\ rg.pc = "held" /\ used <= rg.len
    BY <2>1 DEF Release, pVars
  <2>3. used \in Nat
    BY <1>b DEF Offset
  <2>4. /\ rd + used <= RegionEnd /\ used <= Len(unread) /\ used <= Oldest /\ Shape
    BY <2>2, <2>3, ReleasedIsUnread
  <2>5. /\ Len(unread') = Len(unread) - used
        /\ \A k \in 1 .. Len(unread) - used : unread'[k] = unread[k + used]
    BY <1>b, <2>2, <2>3, <2>4, Dropped
  <2>6. (wr < rd <=> wr < rd') /\ RegionEnd' = RegionEnd /\ RegionEnd \in Nat
    BY <1>b, <2>2, <2>3, <2>4 DEF RegionEnd
  <2>7. Oldest' = Oldest - used /\ Oldest \in Nat
    BY <1>b, <2>2, <2>3, <2>4, <2>6 DEF Oldest
  <2>8. ASSUME NEW k \in 1 .. Len(unread')
        PROVE  unread'[k] = IF k <= Oldest' THEN rd' + k - 1 ELSE k - Oldest' - 1
    <3>1. k + used \in 1 .. Len(unread) /\ unread'[k] = unread[k + used]
      BY <1>b, <2>3, <2>4, <2>5
    <3>2. unread[k + used] = IF k + used <= Oldest THEN rd + (k + used) - 1 ELSE (k + used) - Oldest - 1
      BY <2>4, <3>1 DEF Shape
    <3> QED  BY <1>b, <2>2, <2>3, <2>7, <3>1, <3>2
  <2>9. Len(unread') = Oldest' + (IF wr' < rd' THEN wr' ELSE 0)
    BY <1>b, <2>2, <2>3, <2>4, <2>5, <2>6, <2>7 DEF Shape
  <2> QED  BY Zenon, <2>2, <2>4, <2>6, <2>8, <2>9 DEF Shape
<1> QED
  BY ONLY <1>1, <1>2, <1>3, <1>4, <1>5, <1>6, <1>7, BSteps, [BNext]_bVars, Zenon

\* A write grant stays clear of what is unread.
LEMMA StepKeepsWriting ==
  ASSUME GInv, [BNext]_bVars
  PROVE  Writing'
<1>0. CursorType /\ GrantType /\ pn \in Offset
  BY BTypeParts DEF GInv, ControlType
<1>i. Flags /\ Resets /\ Snapshot /\ Writing
  BY DEF GInv
<1>b. /\ wr \in Nat /\ rd \in Nat /\ last \in Nat /\ wg.start \in Nat /\ wg.len \in Nat
      /\ Capacity \in Nat /\ wr \in Offset /\ rd \in Offset /\ 0 \in Offset
  BY <1>0, Bounds DEF CursorType, Offset
<1>1. CASE \/ PElsewhere \/ CElsewhere \/ PStrands \/ CLoads \/ CWrite \/ CRead \/ CLast \/ CWraps
           \/ CSignal \/ CGrants \/ ReadBack
  <2>1. UNCHANGED <<wg, wr, rd, last>>
    BY ONLY <1>1, Zenon DEF PElsewhere, CElsewhere, PStrands, CLoads, CWrite, CRead, CLast, CWraps,
       CSignal,
       CGrants, ReadBack, region, grants, bShared, wgVars
  <2> QED  BY <1>i, <2>1 DEF Writing
<1>2. CASE PResetRead \/ PResetWrite \/ PResetLast
  <2>1. wg.pc = "none" /\ wg' = wg
    BY <1>i, <1>2 DEF PResetRead, PResetWrite, PResetLast, Flags, InReset, wgVars
  <2> QED  BY <2>1 DEF Writing
<1>3. CASE PGrants
  <2>1. PICK s \in Starts(pn, wr, rd) : wg' = [pc |-> "held", start |-> s, len |-> pn]
    BY <1>3 DEF PGrants
  <2>2. UNCHANGED <<wr, rd, last>>
    BY <1>3 DEF PGrants, region
  <2>3. /\ s + pn <= Capacity
        /\ (s = wr /\ (wr < rd => wr + pn < rd)) \/ (s = 0 /\ wr # 0 /\ rd <= wr /\ pn < rd)
    BY <1>0, <1>b, StartsFit
  <2> QED  BY <2>1, <2>2, <2>3 DEF Writing
<1>4. CASE PEnds
  <2>1. CASE wg' = wg
    <3>1. wg.pc = "none"
      BY <1>i, <1>4 DEF PEnds, Flags, InReset
    <3> QED  BY <2>1, <3>1 DEF Writing
  <2>2. CASE wg' # wg
    <3>1. PICK s \in Starts(pn, 0, 0) : wg' = [pc |-> "held", start |-> s, len |-> pn]
      BY <1>4, <2>2 DEF PEnds
    <3>2. wr' = 0 /\ rd' = 0
      BY <1>i, <1>4 DEF PEnds, Resets
    <3>3. s = 0 /\ s + pn <= Capacity
      BY <1>0, <1>b, StartsFit
    <3> QED  BY <3>1, <3>2, <3>3 DEF Writing
  <2> QED  BY <2>1, <2>2
<1>5. CASE CWrap
  <2>1. rd' = 0 /\ wr < rd /\ UNCHANGED <<wr, wg>>
    BY <1>i, <1>5 DEF CWrap, Snapshot, wgVars
  <2> QED  BY <1>i, <1>b, <2>1 DEF Writing
<1>6. CASE \E used \in Offset : Commit(used)
  <2>1. PICK used \in Offset : Commit(used)
    BY <1>6
  <2>2. /\ wg.pc = "held" /\ used <= wg.len /\ wg'.pc = "write" /\ wg'.start = wg.start /\ wg'.len = used
        /\ last' = (IF wg.start = 0 /\ wr # 0 THEN wr ELSE last) /\ UNCHANGED <<wr, rd>>
    BY <1>0, <2>1 DEF Commit, GrantType
  <2>3. used \in Nat
    BY <1>b DEF Offset
  <2> QED  BY <1>i, <1>b, <2>2, <2>3 DEF Writing
<1>7. CASE CommitWrite \/ WriteBack
  <2>1. wg'.pc \notin {"held", "write"}
    BY <1>7 DEF CommitWrite, WriteBack, NoGrant
  <2> QED  BY <2>1 DEF Writing
<1>8. CASE \E used \in Offset : Release(used)
  <2>1. PICK used \in Offset : Release(used)
    BY <1>8
  <2>2. used \in Nat
    BY <1>b DEF Offset
  <2>3. rd' = rd + used /\ UNCHANGED <<wr, last, wg>> /\ rg.pc = "held" /\ used <= rg.len
    BY <2>1 DEF Release, wgVars
  <2>4. rd + used <= RegionEnd
    BY <2>2, <2>3, ReleasedIsUnread
  <2> QED  BY <1>i, <1>b, <2>2, <2>3, <2>4 DEF Writing, RegionEnd
<1> QED
  BY ONLY <1>1, <1>2, <1>3, <1>4, <1>5, <1>6, <1>7, <1>8, BSteps, [BNext]_bVars, Zenon

\* The oldest region only grows at its end while a read grant is out.
LEMMA StepKeepsReading ==
  ASSUME GInv, [BNext]_bVars
  PROVE  Reading'
<1>0. CursorType /\ GrantType
  BY BTypeParts DEF GInv
<1>i. Flags /\ Resets /\ Snapshot /\ Writing /\ Reading
  BY DEF GInv
<1>b. /\ wr \in Nat /\ rd \in Nat /\ last \in Nat /\ wg.start \in Nat /\ wg.len \in Nat
      /\ rg.len \in Nat /\ cs.w \in Nat /\ cs.r \in Nat /\ cs.l \in Nat
  BY <1>0, Bounds
<1>1. CASE \/ PElsewhere \/ CElsewhere \/ PGrants \/ PEnds \/ CLoads \/ CWrite \/ CRead \/ CLast
           \/ CWraps \/ CSignal \/ WriteBack
  <2>1. UNCHANGED <<rg, wr, rd, last>> /\ (InReset' => InReset)
    BY ONLY <1>1, Zenon DEF PElsewhere, CElsewhere, PGrants, PEnds, CLoads, CWrite, CRead, CLast, CWraps,
       CSignal, WriteBack, region, grants, bShared, rgVars, pVars, InReset
  <2> QED  BY <1>i, <2>1 DEF Reading, Oldest, RegionEnd
<1>2. CASE PStrands
  <2>1. rd = wr /\ rg' = rg
    BY <1>2 DEF PStrands, Stranded, grants
  <2>2. rg.pc # "held"
    BY <1>i, <1>b, <2>1 DEF Reading, Oldest, RegionEnd
  <2> QED  BY <2>1, <2>2 DEF Reading
<1>3. CASE PResetRead \/ PResetWrite \/ PResetLast
  <2>1. rg' = rg /\ rg.pc # "held"
    BY <1>i, <1>3 DEF PResetRead, PResetWrite, PResetLast, Reading, InReset, rgVars
  <2> QED  BY <2>1 DEF Reading
<1>4. CASE CWrap
  <2>1. rg' = rg /\ rg.pc # "held"
    BY <1>i, <1>4 DEF CWrap, Flags, Wrapping, rgVars
  <2> QED  BY <2>1 DEF Reading
<1>5. CASE CGrants
  <2>1. PICK n \in Int : n > 0 /\ n = (IF cs.w < cs.r THEN cs.l ELSE cs.w) - cs.r
                         /\ rg' = [pc |-> "held", start |-> cs.r, len |-> n]
    BY <1>b, <1>5 DEF CGrants
  <2>2. UNCHANGED <<wr, rd, last, ppc>>
    BY <1>5 DEF CGrants, region
  <2>3. cs.r = rd /\ n <= Oldest /\ ~InReset
    <3>1. CASE cpc = "again"
      <4>1. epoch = cs.e
        BY <1>5, <3>1 DEF CGrants, Stable
      <4>2. ~InReset
        BY <1>i, <3>1, <4>1 DEF Resets, Loading
      <4> QED  BY <1>i, <1>b, <2>1, <3>1, <4>1, <4>2 DEF Snapshot, Loading, Oldest, RegionEnd
    <3>2. CASE cpc = "take"
      BY <1>i, <1>b, <2>1, <3>2 DEF Snapshot, Resets, Wrapping, Oldest, RegionEnd
    <3> QED  BY <1>5, <3>1, <3>2 DEF CGrants
  <2>4. Oldest' = Oldest /\ Oldest \in Int /\ ~InReset'
    BY <1>b, <2>2, <2>3 DEF Oldest, RegionEnd, InReset
  <2> QED  BY <2>1, <2>2, <2>3, <2>4 DEF Reading
<1>6. CASE \E used \in Offset : Commit(used)
  <2>1. /\ wg.pc = "held" /\ last' = (IF wg.start = 0 /\ wr # 0 THEN wr ELSE last)
        /\ UNCHANGED <<wr, rd, rg, ppc>>
    BY <1>6 DEF Commit, rgVars, pVars
  <2>2. RegionEnd' = RegionEnd
    BY <1>i, <1>b, <2>1 DEF Writing, RegionEnd
  <2> QED  BY <1>i, <2>1, <2>2 DEF Reading, Oldest, InReset
<1>7. CASE CommitWrite
  <2>1. /\ wg.pc = "write" /\ wr' = wg.start + wg.len /\ UNCHANGED <<rd, last, rg, ppc>>
    BY <1>7 DEF CommitWrite, rgVars, pVars
  <2>2. RegionEnd' >= RegionEnd /\ RegionEnd' \in Nat /\ RegionEnd \in Nat
    BY <1>i, <1>b, <2>1 DEF Writing, RegionEnd
  <2>3. Oldest' >= Oldest /\ Oldest' \in Int /\ Oldest \in Int
    <3>1. Oldest' = RegionEnd' - rd /\ Oldest = RegionEnd - rd
      BY <2>1 DEF Oldest
    <3>2. rd \in Nat
      BY <1>b
    <3>3. Oldest' \in Int /\ Oldest \in Int
      BY ONLY <2>2, <3>1, <3>2
    <3>4. \A m, n \in Nat : m >= n => m - rd >= n - rd
      BY ONLY <3>2
    <3> QED  BY ONLY <2>2, <3>1, <3>3, <3>4
  <2> QED  BY <1>i, <1>b, <2>1, <2>3 DEF Reading, InReset
<1>8. CASE (\E used \in Offset : Release(used)) \/ ReadBack
  <2>1. rg'.pc # "held"
    BY <1>8 DEF Release, ReadBack, NoGrant
  <2> QED  BY <2>1 DEF Reading
<1> QED
  BY ONLY <1>1, <1>2, <1>3, <1>4, <1>5, <1>6, <1>7, <1>8, BSteps, [BNext]_bVars, Zenon

\* Cursors loaded under a stable epoch stay good for the region they describe.
LEMMA StepKeepsSnapshot ==
  ASSUME GInv, [BNext]_bVars
  PROVE  Snapshot'
<1>0. CursorType /\ GrantType
  BY BTypeParts DEF GInv
<1>i. Flags /\ Resets /\ Snapshot /\ Writing
  BY DEF GInv
<1>b. /\ wr \in Nat /\ rd \in Nat /\ last \in Nat /\ wg.start \in Nat /\ wg.len \in Nat
      /\ cs.w \in Nat /\ cs.r \in Nat /\ cs.l \in Nat /\ epoch \in 0 .. 3
      /\ cs \in [e : 0 .. 3, w : Offset, r : Offset, l : Offset]
  BY <1>0, Bounds DEF CursorType
<1>1. CASE PElsewhere \/ PGrants \/ WriteBack \/ ReadBack
  <2>1. UNCHANGED <<wr, rd, last, epoch, cpc, cs>>
    BY ONLY <1>1, Zenon DEF PElsewhere, PGrants, WriteBack, ReadBack, region
  <2> QED  BY <1>i, <2>1, Zenon DEF Snapshot, Loading, RegionEnd
<1>2. CASE CElsewhere \/ CGrants
  BY <1>2 DEF CElsewhere, CGrants, Snapshot, Loading, Wrapping
<1>3. CASE PStrands
  <2>1. ~Wrapping /\ UNCHANGED <<cpc, cs>> /\ ppc = "try" /\ epoch' = (epoch + 1) % 4
    BY <1>i, <1>b, <1>3 DEF PStrands, Stranded, Snapshot, Wrapping
  <2>2. Loading => epoch' # cs.e
    BY <1>i, <1>b, <2>1, NextEpoch DEF Resets, InReset
  <2> QED  BY <2>1, <2>2 DEF Snapshot, Loading, Wrapping
<1>4. CASE PResetRead \/ PResetWrite \/ PResetLast
  <2>1. InReset /\ UNCHANGED <<cpc, cs, epoch>>
    BY <1>4 DEF PResetRead, PResetWrite, PResetLast, InReset, cVars
  <2>2. ~Wrapping /\ (Loading => epoch # cs.e)
    BY <1>i, <2>1 DEF Resets
  <2> QED  BY <2>1, <2>2 DEF Snapshot, Loading, Wrapping
<1>5. CASE PEnds
  <2>1. InReset /\ UNCHANGED <<cpc, cs>> /\ epoch' = (epoch + 1) % 4
    BY <1>5 DEF PEnds, InReset
  <2>2. ~Wrapping /\ (Loading => epoch' # cs.e)
    BY <1>i, <1>b, <2>1, NextEpoch DEF Resets
  <2> QED  BY <2>1, <2>2 DEF Snapshot, Loading, Wrapping
<1>6. CASE CLoads
  BY <1>6 DEF CLoads, Snapshot, Loading
<1>7. CASE CWrite
  BY <1>i, <1>b, <1>7 DEF CWrite, Snapshot, Loading, RegionEnd, bShared
<1>8. CASE CRead
  BY <1>i, <1>b, <1>8 DEF CRead, Snapshot, Loading, RegionEnd, bShared
<1>9. CASE CLast
  BY <1>i, <1>b, <1>9 DEF CLast, Snapshot, Loading, RegionEnd, bShared
<1>10. CASE CWraps
  <2>1. /\ cpc = "again" /\ epoch = cs.e /\ cs.w < cs.r /\ cs.r = cs.l /\ cpc' = "wrap"
        /\ UNCHANGED <<wr, rd, last, cs>>
    BY <1>10 DEF CWraps, Stable, AtWatermark, region
  <2>2. cs.r = rd /\ cs.l = last /\ wr < rd /\ cs.w <= wr
    BY <1>i, <2>1 DEF Snapshot, Loading
  <2> QED  BY Zenon, <2>1, <2>2 DEF Snapshot, Loading
<1>11. CASE CWrap
  <2>1. cs.w <= wr
    BY <1>i, <1>11 DEF CWrap, Snapshot
  <2> QED  BY <1>b, <1>11, <2>1 DEF CWrap, Snapshot, Loading
<1>12. CASE CSignal
  BY <1>i, <1>12 DEF CSignal, Snapshot, Loading, bShared
<1>13. CASE \E used \in Offset : Commit(used)
  <2>1. /\ wg.pc = "held" /\ last' = (IF wg.start = 0 /\ wr # 0 THEN wr ELSE last)
        /\ UNCHANGED <<wr, rd, epoch, cpc, cs>>
    BY <1>13 DEF Commit, cVars
  <2>2. RegionEnd' = RegionEnd /\ (wr < rd => last' = last)
    BY <1>i, <1>b, <2>1 DEF Writing, RegionEnd
  <2> QED  BY <1>i, <2>1, <2>2 DEF Snapshot, Loading
<1>14. CASE CommitWrite
  <2>1. /\ wg.pc = "write" /\ wr' = wg.start + wg.len /\ UNCHANGED <<rd, last, epoch, cpc, cs>>
    BY <1>14 DEF CommitWrite, cVars
  <2>2. /\ RegionEnd' >= RegionEnd /\ RegionEnd' \in Nat /\ RegionEnd \in Nat /\ wr' \in Nat
        /\ wr < rd \/ rd = 0 => wr' >= wr /\ (wr < rd => wr' < rd)
    BY <1>i, <1>b, <2>1 DEF Writing, RegionEnd
  <2> QED  BY <1>i, <1>b, <2>1, <2>2 DEF Snapshot, Loading
<1>15. CASE \E used \in Offset : Release(used)
  <2>1. ~Loading /\ ~Wrapping /\ cpc' = cpc
    BY <1>i, <1>15 DEF Release, Flags, cVars
  <2> QED  BY <2>1 DEF Snapshot, Loading, Wrapping
<1> QED
  BY ONLY <1>1, <1>2, <1>3, <1>4, <1>5, <1>6, <1>7, <1>8, <1>9, <1>10, <1>11, <1>12, <1>13,
     <1>14, <1>15, BSteps, [BNext]_bVars, ZenonT(40)

\* Every step keeps the invariant.
LEMMA StepKeepsGInv ==
  ASSUME GInv, [BNext]_bVars
  PROVE  GInv'
<1>1. BSlotsType' /\ ControlType'
  BY BTypeParts, StepKeepsBSlots, StepKeepsControl DEF GInv
<1>2. BTypeOK'
  BY <1>1, StepKeepsCursors, StepKeepsGrants, BTypeParts, PTL
<1> QED
  BY <1>2, StepKeepsFlags, StepKeepsResets, StepKeepsShape, StepKeepsWriting, StepKeepsReading,
     StepKeepsSnapshot DEF GInv

\* A new buffer.
LEMMA BInitGInv == BInit => GInv
<1> SUFFICES ASSUME BInit PROVE GInv
  OBVIOUS
<1> USE DEF BInit, NoGrant, NoCursors
<1>1. BTypeOK
  <2>1. BSlotsType
    BY FlagOpsType DEF BSlotsType
  <2>2. 0 \in Offset /\ Capacity \in Offset /\ Capacity \in Nat
    BY BipAssumption DEF Offset
  <2>3. ControlType
    BY <2>2 DEF ControlType, BMode
  <2>4. CursorType
    BY <2>2 DEF CursorType
  <2>5. GrantType
    BY ZenonT(40), <2>2 DEF GrantType
  <2> QED  BY <2>1, <2>3, <2>4, <2>5, BTypeParts
<1>2. Flags /\ Resets /\ Snapshot /\ Writing /\ Reading
  BY DEF Flags, Resets, Snapshot, Writing, Reading, InReset, Loading, Wrapping
<1>3. Shape
  BY DEF Shape, RegionEnd, Oldest
<1> QED  BY <1>1, <1>2, <1>3 DEF GInv

\* What the invariant says of the grants.
LEMMA GInvImplies == GInv => GrantsAreExclusive
<1> SUFFICES ASSUME GInv PROVE GrantsAreExclusive
  OBVIOUS
<1>0. CursorType /\ GrantType /\ BTypeOK /\ Flags /\ Resets /\ Writing /\ Reading
  BY BTypeParts DEF GInv
<1>b. /\ wr \in Nat /\ rd \in Nat /\ last \in Nat /\ wg.start \in Nat /\ wg.len \in Nat
      /\ rg.start \in Nat /\ rg.len \in Nat /\ RegionEnd \in Nat
      /\ unread \in Seq(0 .. Capacity - 1) /\ Len(unread) \in Nat
  BY <1>0, Bounds DEF CursorType
<1>n. /\ wr \in Nat /\ rd \in Nat /\ last \in Nat /\ wg.start \in Nat /\ wg.len \in Nat
      /\ RegionEnd \in Nat
  BY ONLY <1>b, Zenon
<1>w. wg.pc \in {"held", "write"} =>
        \/ wg.start = wr /\ (wr < rd => wr + wg.len < rd)
        \/ wg.start = 0 /\ wr # 0 /\ rd <= wr /\ wg.len < rd
  BY ONLY <1>0, Zenon DEF Writing
<1>1. ASSUME wg.pc \in {"held", "write"}, NEW k \in DOMAIN unread
      PROVE  unread[k] \notin wg.start .. wg.start + wg.len - 1
  <2>1. Shape /\ k \in 1 .. Len(unread)
    BY <1>0, <1>b, <1>1 DEF GInv, Flags, InReset
  <2>2. Oldest \in Nat
    BY <1>b, <2>1 DEF Shape, Oldest
  <2>3. CASE k <= Oldest
    <3>1. rd <= unread[k] /\ unread[k] < RegionEnd /\ unread[k] \in Nat
      <4>1. unread[k] = rd + k - 1
        BY <2>1, <2>3 DEF Shape
      <4>2. k \in Nat /\ k >= 1 /\ k <= RegionEnd - rd
        BY <1>b, <2>1, <2>3 DEF Oldest
      <4> QED  BY ONLY <1>n, <4>1, <4>2
    <3>2. RegionEnd = IF wr < rd THEN last ELSE wr
      BY DEF RegionEnd
    <3> QED  BY ONLY <1>n, <1>w, <1>1, <3>1, <3>2
  <2>4. CASE k > Oldest
    <3>1. wr < rd /\ unread[k] < wr /\ unread[k] \in Nat
      BY <1>b, <2>1, <2>2, <2>4 DEF Shape
    <3> QED  BY ONLY <1>n, <1>w, <1>1, <3>1
  <2> QED  BY <1>b, <2>1, <2>2, <2>3, <2>4
<1>2. ASSUME rg.pc = "held"
      PROVE  rg.len <= Len(unread) /\ Bytes(rg.start, rg.len) = SubSeq(unread, 1, rg.len)
  <2>1. rg.len <= Len(unread) /\ rg.len <= Oldest /\ Shape /\ rg.start = rd
    BY <1>0, <1>b, <1>2, ReleasedIsUnread DEF Reading
  <2>2. SubSeq(unread, 1, rg.len) = [k \in 1 .. rg.len |-> unread[k]]
    BY <1>b, <2>1
  <2>3. Oldest \in Nat
    BY <1>b, <2>1 DEF Shape, Oldest
  <2>4. \A k \in 1 .. rg.len : unread[k] = rg.start + k - 1
    BY <1>b, <2>1, <2>3 DEF Shape
  <2> QED  BY <2>1, <2>2, <2>4 DEF Bytes
<1> QED  BY <1>0, <1>1, <1>2 DEF GrantsAreExclusive, Flags, Writing

\* Grants are exclusive and a read grant shows the oldest unread bytes in order:
\* through every wrap, watermark and reset of the cursors, for every capacity,
\* whatever is requested, committed, released or dropped, on whichever thread.
THEOREM NoByteIsShared == BSpec => []GrantsAreExclusive
BY BInitGInv, StepKeepsGInv, GInvImplies, PTL DEF BSpec

-----------------------------------------------------------------------------
(* Wakeups. *)

\* Who waits, or is about to, has armed its slot and was not woken in vain.
Armed(slot) == slot.waiting /\ (slot.armed \/ slot.woken)
PWaits == ppc = "parked" \/ (pmode = "slow" /\ (ppc = "try" \/ InReset))
CWaits == cpc = "parked" \/ (cmode = "slow" /\ (cpc = "try" \/ Loading \/ Wrapping))
Arming ==
  /\ ppc \in {"idle", "arm", "disarm"} => pmode = "fast"
  /\ cpc \in {"idle", "arm", "disarm"} => cmode = "fast"
  /\ PWaits => Armed(space)
  /\ CWaits => Armed(avail)

\* Somebody has still to look at the flag.
SpaceDue ==
  wtail \in {"space", "drop"} \/ rg.pc = "rip" \/ rtail \in {"data", "space"} \/ cpc = "signal"
CommitDue == wg.pc = "wip" \/ wtail \in {"space", "data"}

\* A parked producer that could go on, or reset, is served ...
PServed ==
  ppc = "parked" /\ ~wip /\ (Stranded \/ Starts(pn, wr, rd) # {}) => space.woken \/ SpaceDue

\* ... so is a parked consumer that could read, or wrap ...
CServed ==
  cpc = "parked" /\ ~rip /\ wr # rd /\ ppc # "write0" =>
    avail.woken \/ CommitDue \/ rtail \in {"data", "drop"}

\* ... and the write cursor that one loads after arming gets out of date only with a
\* signal to come.
Fresh ==
  cmode = "slow" /\ ((cpc \in {"read", "last", "again"} /\ epoch = cs.e) \/ Wrapping) =>
    cs.w = wr \/ avail.woken \/ CommitDue

WInv == GInv /\ Arming /\ PServed /\ CServed /\ Fresh

\* Whoever waits is woken by the next signal, whatever it finds.
LEMMA SignalWakes ==
  ASSUME NEW s \in FlagType, Armed(s)
  PROVE  Armed(FlagSignal(s)) /\ FlagSignal(s).woken
<1>1. CASE s.armed
  <2>1. FlagSignal(s) = [s EXCEPT !.armed = FALSE, !.woken = s.waiting]
    BY <1>1 DEF FlagSignal
  <2>2. FlagSignal(s).waiting = s.waiting /\ FlagSignal(s).woken = s.waiting
    BY <2>1 DEF FlagType
  <2> QED  BY <2>2 DEF Armed
<1>2. CASE ~s.armed
  BY <1>2, SMTT(30) DEF FlagSignal, Armed
<1> QED  BY <1>1, <1>2

\* arm() leaves a waiting task that the next signal finds.
LEMMA ArmArms == \A s \in FlagArm : Armed(s)
BY SMTT(30) DEF FlagArm, Armed

\* How one comes to wait.
LEMMA StepsToWaiting ==
  ASSUME ControlType, Arming, [BNext]_bVars
  PROVE  /\ ppc' \in {"idle", "arm", "disarm"} => pmode' = "fast"
         /\ cpc' \in {"idle", "arm", "disarm"} => cmode' = "fast"
         /\ PWaits' => space' \in FlagArm \/ (PWaits /\ space' \in {space, FlagSignal(space)})
         /\ CWaits' => avail' \in FlagArm \/ (CWaits /\ avail' \in {avail, FlagSignal(avail)})
<1>0. /\ ppc \in {"idle", "arm", "disarm"} => pmode = "fast"
      /\ cpc \in {"idle", "arm", "disarm"} => cmode = "fast"
      /\ pmode \in {"fast", "slow"} /\ cmode \in {"fast", "slow"}
  BY DEF Arming, ControlType, BMode
<1> USE DEF PWaits, CWaits, InReset, Loading, Wrapping
<1>1. CASE UNCHANGED <<cpc, cmode, avail>>
  <2>1. CASE (\E n \in Requests : Reserve(n)) \/ PPoll \/ PCancel
    BY <1>0, <1>1, <2>1, SMTT(30) DEF Reserve, PPoll, PCancel
  <2>2. CASE PTry
    <3>1. CASE ~NoRoom
      BY <1>0, <1>1, <2>2, <3>1, SMTT(30) DEF PTry, Decide
    <3>2. CASE NoRoom
      BY <1>0, <1>1, <2>2, <3>2, SMTT(30) DEF PTry, NoRoom
    <3> QED  BY <3>1, <3>2, SMTT(30)
  <2>3. CASE PResetRead \/ PResetWrite \/ PResetLast
    BY <1>0, <1>1, <2>3, SMTT(30) DEF PResetRead, PResetWrite, PResetLast
  <2>4. CASE PResetEven
    <3>1. CASE ~NoRoom
      BY <1>0, <1>1, <2>4, <3>1, SMTT(30) DEF PResetEven, Decide
    <3>2. CASE NoRoom
      BY <1>0, <1>1, <2>4, <3>2, SMTT(30) DEF PResetEven, NoRoom
    <3> QED  BY <3>1, <3>2
  <2>5. CASE PArm \/ PDisarm
    BY <1>0, <1>1, <2>5, SMTT(30) DEF PArm, PDisarm
  <2>6. CASE UNCHANGED <<ppc, pmode>> /\ space' \in {space, FlagSignal(space)}
    BY <1>0, <1>1, <2>6, SMTT(30)
  <2>7. CASE ~\/ (\E n \in Requests : Reserve(n)) \/ PPoll \/ PCancel \/ ProducerStep
    <3>1. UNCHANGED <<ppc, pmode>> /\ space' \in {space, FlagSignal(space)}
      BY ONLY <2>7, [BNext]_bVars, ZenonT(40) DEF BNext, bVars, pVars, ConsumerStep, WriteGrantStep,
         ReadGrantStep, ReadBytes, CPoll, CCancel, CTry, CWrite, CRead, CLast, CAgain, CWrap, CSignal,
         CTake, CArm, CDisarm, Commit, Release, DropWrite, CommitWrite, CommitWip, CommitSpace,
         CommitData, DropWriteSpace, DropRead, ReleaseRip, ReleaseData, ReleaseSpace, DropReadData
    <3> QED  BY <2>6, <3>1
  <2> QED  BY ONLY <2>1, <2>2, <2>3, <2>4, <2>5, <2>7, ZenonT(40) DEF ProducerStep
<1>2. CASE UNCHANGED <<ppc, pmode>> /\ space' \in {space, FlagSignal(space)}
  <2>1. CASE ReadBytes \/ CPoll \/ CCancel
    BY <1>0, <1>2, <2>1 DEF ReadBytes, CPoll, CCancel
  <2>2. CASE CTry
    BY <1>0, <1>2, <2>2 DEF CTry, NoData
  <2>3. CASE CWrite \/ CRead \/ CLast \/ CWrap \/ CSignal
    BY <1>0, <1>2, <2>3, SMTT(30) DEF CWrite, CRead, CLast, CWrap, CSignal
  <2>4. CASE CAgain
    BY <1>0, <1>2, <2>4, SMTT(30) DEF CAgain, TakeRegion, NoData
  <2>5. CASE CTake
    BY <1>0, <1>2, <2>5, SMTT(30) DEF CTake, TakeRegion, NoData
  <2>6. CASE CArm \/ CDisarm
    BY <1>0, <1>2, <2>6, SMTT(30) DEF CArm, CDisarm
  <2>7. CASE UNCHANGED <<cpc, cmode>> /\ avail' \in {avail, FlagSignal(avail)}
    BY <1>0, <1>2, <2>7, SMTT(30)
  <2>8. CASE ~(ReadBytes \/ CPoll \/ CCancel \/ ConsumerStep)
    <3>1. UNCHANGED <<cpc, cmode>> /\ avail' \in {avail, FlagSignal(avail)}
      BY ONLY <2>8, [BNext]_bVars, ZenonT(40) DEF BNext, bVars, cVars, ProducerStep, WriteGrantStep,
         ReadGrantStep, Reserve, PPoll, PCancel, PTry, PResetRead, PResetWrite, PResetLast,
         PResetEven, PArm, PDisarm, Commit, Release, DropWrite, CommitWrite, CommitWip, CommitSpace,
         CommitData, DropWriteSpace, DropRead, ReleaseRip, ReleaseData, ReleaseSpace, DropReadData
    <3> QED  BY <2>7, <3>1
  <2> QED  BY ONLY <2>1, <2>2, <2>3, <2>4, <2>5, <2>6, <2>8, ZenonT(40) DEF ConsumerStep
<1>3. \/ UNCHANGED <<cpc, cmode, avail>>
      \/ UNCHANGED <<ppc, pmode>> /\ space' \in {space, FlagSignal(space)}
  BY ONLY [BNext]_bVars, ZenonT(40) DEF BNext, bVars, pVars, cVars, ProducerStep, ConsumerStep,
     WriteGrantStep,
     ReadGrantStep, Reserve, PPoll, PCancel, PTry, PResetRead, PResetWrite, PResetLast, PResetEven, PArm,
     PDisarm, ReadBytes, CPoll, CCancel, CTry, CWrite, CRead, CLast, CAgain, CWrap, CSignal, CTake, CArm,
     CDisarm, Commit, Release, DropWrite, CommitWrite, CommitWip, CommitSpace, CommitData,
     DropWriteSpace, DropRead, ReleaseRip, ReleaseData, ReleaseSpace, DropReadData
<1> QED  BY <1>1, <1>2, <1>3

\* Who waits stays armed, or woken.
LEMMA StepKeepsArming ==
  ASSUME GInv, Arming, [BNext]_bVars
  PROVE  Arming'
<1>0. ControlType /\ space \in FlagType /\ avail \in FlagType
  BY BTypeParts DEF GInv, BSlotsType
<1>1. PWaits' => Armed(space')
  BY <1>0, StepsToWaiting, SignalWakes, ArmArms, Zenon DEF Arming
<1>2. CWaits' => Armed(avail')
  BY <1>0, StepsToWaiting, SignalWakes, ArmArms, Zenon DEF Arming
<1> QED  BY <1>0, <1>1, <1>2, StepsToWaiting, Zenon DEF Arming, Armed

\* What makes a parked producer's request fit is followed by a signal.
LEMMA StepKeepsPServed ==
  ASSUME WInv, [BNext]_bVars
  PROVE  PServed'
<1>0. /\ GInv /\ Flags /\ Resets /\ PServed /\ space \in FlagType /\ GrantType
      /\ ppc = "parked" => Armed(space)
  BY BTypeParts DEF WInv, GInv, BSlotsType, Arming, PWaits
<1>1. CASE \/ (\E n \in Requests : Reserve(n)) \/ PPoll \/ PCancel \/ PResetRead \/ PResetWrite
           \/ PResetLast \/ PArm \/ PDisarm
  <2>1. ppc' # "parked"
    BY ONLY <1>1, Zenon DEF Reserve, PPoll, PCancel, PResetRead, PResetWrite, PResetLast, PArm, PDisarm
  <2> QED  BY <2>1 DEF PServed
<1>2. CASE PTry
  <2>1. CASE wip
    BY <1>2, <2>1 DEF PTry, NoRoom, PServed
  <2>2. CASE ~wip /\ ppc' = "parked"
    <3>1. ~Stranded /\ Starts(pn, wr, rd) = {} /\ UNCHANGED <<wr, rd, pn>>
      BY ONLY <1>2, <2>2 DEF PTry, Decide, NoRoom
    <3>2. ~Stranded' /\ Starts(pn', wr', rd') = {}
      BY ONLY <3>1, Zenon DEF Stranded
    <3> QED  BY <3>2, SMTT(30) DEF PServed
  <2> QED  BY <2>1, <2>2 DEF PServed
<1>3. CASE PResetEven
  <2>1. CASE ppc' = "parked"
    <3>1. Starts(pn, 0, 0) = {} /\ pn' = pn
      BY ONLY <1>3, <2>1 DEF PResetEven, Decide, NoRoom
    <3>2. wr' = 0 /\ rd' = 0
      BY <1>0, <1>3 DEF PResetEven, Resets
    <3> QED  BY <3>1, <3>2, SMTT(30) DEF PServed, Stranded
  <2> QED  BY <2>1 DEF PServed
<1>4. CASE CommitSpace \/ DropWriteSpace \/ CSignal \/ ReleaseSpace
  <2>1. space' = FlagSignal(space) /\ ppc' = ppc
    BY ONLY <1>4, Zenon DEF CommitSpace, DropWriteSpace, CSignal, ReleaseSpace, pVars
  <2> QED  BY <1>0, <2>1, SignalWakes DEF PServed
<1>5. CASE CommitWip \/ DropWrite \/ CWrap \/ (\E used \in Offset : Release(used)) \/ ReleaseRip
  <2>1. SpaceDue'
    <3>1. CASE DropWrite
      BY <1>0, <3>1 DEF DropWrite, Flags, SpaceDue
    <3>2. CASE \E used \in Offset : Release(used)
      BY <3>2 DEF Release, SpaceDue, NoGrant
    <3> QED  BY <1>5, <3>1, <3>2 DEF CommitWip, CWrap, ReleaseRip, SpaceDue
  <2> QED  BY <2>1 DEF PServed
<1>6. CASE CommitWrite
  <2>1. wip'
    BY <1>0, <1>6 DEF CommitWrite, Flags
  <2> QED  BY <2>1 DEF PServed
<1>7. ASSUME UNCHANGED <<ppc, wip, wr, rd, pn, space>>, SpaceDue => SpaceDue'
      PROVE  PServed'
  <2>1. Stranded' <=> Stranded
    BY ONLY <1>7 DEF Stranded
  <2>2. Starts(pn', wr', rd') = Starts(pn, wr, rd)
    BY ONLY <1>7, Zenon
  <2> QED  BY <1>0, <1>7, <2>1, <2>2 DEF PServed
<1>8. CASE CTry \/ CAgain \/ CTake
  <2>1. UNCHANGED <<ppc, wip, wr, rd, pn, space, wtail, rtail>> /\ cpc # "signal"
    BY ONLY <1>8 DEF CTry, CAgain, CTake, pVars, wgVars
  <2>2. rg.pc = "rip" => rg' = rg
    BY Zenon, <1>0, <1>8 DEF CTry, CAgain, CTake, NoData, TakeRegion, Flags, Loading, Wrapping
  <2> QED  BY <1>7, <2>1, <2>2 DEF SpaceDue
<1>9. CASE \/ ReadBytes \/ CPoll \/ CCancel \/ CWrite \/ CRead \/ CLast \/ CArm \/ CDisarm
           \/ (\E used \in Offset : Commit(used)) \/ CommitData \/ ReleaseData \/ DropRead
           \/ DropReadData \/ UNCHANGED bVars
  <2>1. UNCHANGED <<ppc, wip, wr, rd, pn, space>>
    BY ONLY <1>9, Zenon DEF ReadBytes, CPoll, CCancel, CWrite, CRead, CLast, CArm, CDisarm, Commit,
       CommitData, ReleaseData, DropRead, DropReadData, bVars, bShared, pVars
  <2>2. SpaceDue => SpaceDue'
    BY ONLY <1>9, Zenon DEF ReadBytes, CPoll, CCancel, CWrite, CRead, CLast, CArm, CDisarm, Commit,
       CommitData, ReleaseData, DropRead, DropReadData, bVars, cVars, wgVars, rgVars, SpaceDue
  <2> QED  BY <1>7, <2>1, <2>2
<1> QED
  BY ONLY <1>1, <1>2, <1>3, <1>4, <1>5, <1>6, <1>8, <1>9, [BNext]_bVars, ZenonT(40)
     DEF BNext, ProducerStep, ConsumerStep, WriteGrantStep, ReadGrantStep

\* What makes bytes readable is followed by a signal.
LEMMA StepKeepsCServed ==
  ASSUME WInv, [BNext]_bVars
  PROVE  CServed'
<1>0. /\ Flags /\ Resets /\ Snapshot /\ CServed /\ Fresh /\ avail \in FlagType
      /\ cpc = "parked" => Armed(avail)
  BY BTypeParts DEF WInv, GInv, BSlotsType, Arming, CWaits
<1>b. wr \in Nat /\ rd \in Nat /\ cs.w \in Nat /\ cs.r \in Nat /\ cs.l \in Nat
  BY BTypeParts, Bounds DEF WInv, GInv
<1>1. CASE \/ ReadBytes \/ CPoll \/ CCancel \/ CWrite \/ CRead \/ CLast \/ CWrap \/ CSignal \/ CArm
           \/ CDisarm
  <2>1. cpc' # "parked"
    BY ONLY <1>1, Zenon DEF ReadBytes, CPoll, CCancel, CWrite, CRead, CLast, CWrap, CSignal, CArm,
       CDisarm
  <2> QED  BY <2>1 DEF CServed
<1>2. CASE CTry
  BY <1>2 DEF CTry, NoData, CServed
<1>3. ASSUME CAgain \/ CTake, cpc' = "parked"
      PROVE  CServed'
  <2>1. /\ cmode = "slow" /\ UNCHANGED <<wr, rd, avail, wg, wtail>>
        /\ (IF cs.w < cs.r THEN cs.l ELSE cs.w) - cs.r = 0
        /\ cpc = "take" \/ (cpc = "again" /\ epoch = cs.e /\ ~AtWatermark)
    BY ONLY <1>3 DEF CAgain, CTake, TakeRegion, NoData, Stable, wgVars
  <2>2. cs.r = rd /\ cs.w = rd
    <3>1. CASE cpc = "take"
      BY <1>0, <1>b, <2>1, <3>1 DEF Snapshot
    <3>2. CASE cpc = "again" /\ epoch = cs.e /\ ~AtWatermark
      BY <1>0, <1>b, <2>1, <3>2 DEF Snapshot, Loading, AtWatermark
    <3> QED  BY <2>1, <3>1, <3>2
  <2>3. rd = wr \/ avail.woken \/ CommitDue
    BY <1>0, <2>1, <2>2 DEF Fresh, Wrapping
  <2> QED  BY <2>1, <2>3, SMTT(30) DEF CServed, CommitDue
<1>4. CASE PResetRead \/ PResetWrite
  <2>1. ppc' = "write0" \/ wr' = rd'
    BY <1>0, <1>4 DEF PResetRead, PResetWrite, Resets
  <2> QED  BY <2>1 DEF CServed
<1>5. CASE CommitData \/ ReleaseData \/ DropReadData
  <2>1. avail' = FlagSignal(avail) /\ cpc' = cpc
    BY ONLY <1>5, Zenon DEF CommitData, ReleaseData, DropReadData, cVars
  <2> QED  BY <1>0, <2>1, SignalWakes DEF CServed
<1>6. CASE CommitWrite \/ CommitWip \/ ReleaseRip \/ DropRead
  BY <1>6 DEF CommitWrite, CommitWip, ReleaseRip, DropRead, CServed, CommitDue, NoGrant
<1>7. CASE \E used \in Offset : Release(used)
  <2>1. rip'
    BY <1>0, <1>7 DEF Release, Flags
  <2> QED  BY <2>1 DEF CServed
<1>8. ASSUME UNCHANGED <<cpc, rip, wr, rd, avail, rtail>>, ppc = "write0" => ppc' = "write0",
             CommitDue => CommitDue'
      PROVE  CServed'
  BY <1>0, <1>8 DEF CServed
<1>9. CASE PTry \/ PResetEven
  <2>1. UNCHANGED <<cpc, rip, wr, rd, avail, rtail, wtail>> /\ ppc # "write0"
    BY ONLY <1>9, Zenon DEF PTry, PResetEven, cVars, rgVars
  <2>2. wg.pc = "wip" => wg' = wg
    BY Zenon, <1>0, <1>9 DEF PTry, PResetEven, Decide, NoRoom, Flags, InReset
  <2> QED  BY <1>8, <2>1, <2>2 DEF CommitDue
<1>10. CASE \/ (\E n \in Requests : Reserve(n)) \/ PPoll \/ PCancel \/ PResetLast \/ PArm \/ PDisarm
            \/ (\E used \in Offset : Commit(used)) \/ DropWrite \/ CommitSpace \/ DropWriteSpace
            \/ UNCHANGED bVars
  <2>1. UNCHANGED <<cpc, rip, wr, rd, avail, rtail>> /\ (ppc = "write0" => ppc' = "write0")
    BY ONLY <1>10, Zenon DEF Reserve, PPoll, PCancel, PResetLast, PArm, PDisarm, Commit, DropWrite,
       CommitSpace, DropWriteSpace, bVars, bShared, cVars, pVars, rgVars
  <2>2. CommitDue => CommitDue'
    BY ONLY <1>10, Zenon DEF Reserve, PPoll, PCancel, PResetLast, PArm, PDisarm, Commit, DropWrite,
       CommitSpace, DropWriteSpace, bVars, wgVars, CommitDue
  <2> QED  BY <1>8, <2>1, <2>2
<1>11. CASE ReleaseSpace
  <2>1. UNCHANGED <<cpc, rip, wr, rd, avail, ppc, wg, wtail>> /\ rtail = "space"
    BY ONLY <1>11 DEF ReleaseSpace, bShared, cVars, pVars, wgVars
  <2> QED  BY <1>0, <2>1 DEF CServed, CommitDue
<1>12. CASE (CAgain \/ CTake) /\ cpc' # "parked"
  BY <1>12 DEF CServed
<1> QED
  BY ONLY <1>1, <1>2, <1>3, <1>4, <1>5, <1>6, <1>7, <1>9, <1>10, <1>11, <1>12, [BNext]_bVars, ZenonT(40)
     DEF BNext, ProducerStep, ConsumerStep, WriteGrantStep, ReadGrantStep

\* A write cursor loaded by a consumer that will park is the current one, or the
\* commit that moved it has a signal to come.
LEMMA StepKeepsFresh ==
  ASSUME WInv, [BNext]_bVars
  PROVE  Fresh'
<1>0. /\ Flags /\ Resets /\ Snapshot /\ Fresh /\ avail \in FlagType /\ epoch \in 0 .. 3
      /\ CWaits => Armed(avail)
  BY BTypeParts DEF WInv, GInv, BSlotsType, Arming, CursorType
<1>b. wr \in Nat /\ rd \in Nat /\ cs \in [e : 0 .. 3, w : Offset, r : Offset, l : Offset]
  BY BTypeParts, Bounds DEF WInv, GInv, CursorType
<1>1. CASE ReadBytes \/ CPoll \/ CCancel \/ CTry \/ CTake \/ CArm \/ CDisarm
  <2>1. cpc' \notin {"read", "last", "again", "wrap", "signal", "take"}
    BY ONLY <1>1 DEF ReadBytes, CPoll, CCancel, CTry, CTake, CArm, CDisarm, NoData, TakeRegion
  <2> QED  BY <2>1 DEF Fresh, Wrapping
<1>2. CASE CWrite
  <2>1. cs'.w = wr /\ wr' = wr
    BY <1>b, <1>2, SMTT(30) DEF CWrite, bShared
  <2> QED  BY <2>1 DEF Fresh
<1>3. CASE CRead \/ CLast \/ CWrap \/ CSignal
  <2>1. /\ cs'.w = cs.w /\ cs'.e = cs.e /\ UNCHANGED <<wr, epoch, avail, wg, wtail, cmode>>
        /\ (cpc \in {"read", "last"} /\ cpc' \in {"last", "again"}) \/ (cpc \in {"wrap", "signal"})
    BY <1>b, <1>3 DEF CRead, CLast, CWrap, CSignal, bShared, wgVars
  <2>2. cpc \in {"wrap", "signal"} => Wrapping
    BY DEF Wrapping
  <2>3. cpc' \in {"last", "again"} => ~Wrapping'
    BY DEF Wrapping
  <2>4. CommitDue' = CommitDue
    BY ONLY <2>1, Zenon DEF CommitDue
  <2> QED  BY <1>0, <2>1, <2>2, <2>3, <2>4 DEF Fresh
<1>4. CASE CAgain
  <2>1. CASE cpc' = "wrap"
    <3>1. cpc = "again" /\ epoch = cs.e /\ UNCHANGED <<wr, avail, wg, wtail, cmode, cs>>
      BY ONLY <1>4, <2>1, SMTT(30) DEF CAgain, NoData, TakeRegion, Stable, wgVars
    <3> QED  BY <1>0, <3>1, SMTT(30) DEF Fresh, CommitDue
  <2>2. CASE cpc' # "wrap"
    <3>1. cpc' \notin {"read", "last", "again", "wrap", "signal", "take"}
      BY ONLY <1>4, <2>2 DEF CAgain, NoData, TakeRegion
    <3> QED  BY <3>1 DEF Fresh, Wrapping
  <2> QED  BY <2>1, <2>2
<1>5. CASE (PTry /\ ppc' = "read0") \/ PResetRead \/ PResetWrite \/ PResetLast \/ PResetEven
  <2>1. /\ UNCHANGED <<cpc, cs>>
        /\ \/ ppc = "try" /\ rd = wr /\ wr # 0 /\ epoch' = (epoch + 1) % 4
           \/ InReset /\ epoch' = epoch
           \/ InReset /\ epoch' = (epoch + 1) % 4
    BY ONLY Zenon, <1>5 DEF PTry, Decide, NoRoom, Stranded, PResetRead, PResetWrite, PResetLast, PResetEven,
       InReset, cVars
  <2>2. ~Wrapping
    BY <1>0, <1>b, <2>1 DEF Resets, Snapshot, Wrapping
  <2>3. Loading => epoch' # cs.e
    BY <1>0, <1>b, <2>1, NextEpoch DEF Resets, InReset
  <2> QED  BY <2>1, <2>2, <2>3 DEF Fresh, Loading, Wrapping
<1>6. CASE CommitData \/ ReleaseData \/ DropReadData
  <2>1. avail' = FlagSignal(avail) /\ UNCHANGED <<cpc, cmode>>
    BY ONLY <1>6, Zenon DEF CommitData, ReleaseData, DropReadData, cVars
  <2> QED  BY <1>0, <2>1, SignalWakes DEF Fresh, CWaits, Loading, Wrapping
<1>7. CASE CommitWrite \/ CommitWip
  BY <1>7 DEF CommitWrite, CommitWip, Fresh, CommitDue, NoGrant
<1>8. ASSUME UNCHANGED <<cpc, cmode, cs, epoch, wr, avail>>, CommitDue => CommitDue'
      PROVE  Fresh'
  BY <1>0, <1>8 DEF Fresh, Wrapping
<1>9. CASE PTry /\ ppc' # "read0"
  <2>1. UNCHANGED <<cpc, cmode, cs, epoch, wr, avail, wtail>>
    BY ONLY <1>9, SMTT(30) DEF PTry, cVars
  <2>2. wg.pc = "wip" => wg' = wg
    BY <1>0, <1>9 DEF PTry, Decide, NoRoom, Flags
  <2> QED  BY <1>8, <2>1, <2>2 DEF CommitDue
<1>10. CASE \/ (\E n \in Requests : Reserve(n)) \/ PPoll \/ PCancel \/ PArm \/ PDisarm
            \/ (\E used \in Offset : Commit(used) \/ Release(used)) \/ DropWrite \/ CommitSpace
            \/ DropWriteSpace \/ ReleaseSpace \/ ReleaseRip \/ DropRead \/ UNCHANGED bVars
  <2>1. UNCHANGED <<cpc, cmode, cs, epoch, wr, avail>>
    BY ONLY <1>10, Zenon DEF Reserve, PPoll, PCancel, PArm, PDisarm, Commit, Release, DropWrite,
       CommitSpace, DropWriteSpace, ReleaseSpace, ReleaseRip, DropRead, bVars, bShared, cVars
  <2>2. CommitDue => CommitDue'
    BY ONLY <1>10, Zenon DEF Reserve, PPoll, PCancel, PArm, PDisarm, Commit, Release, DropWrite,
       CommitSpace, DropWriteSpace, ReleaseSpace, ReleaseRip, DropRead, bVars, wgVars, CommitDue
  <2> QED  BY <1>8, <2>1, <2>2
<1> QED
  BY ONLY <1>1, <1>2, <1>3, <1>4, <1>5, <1>6, <1>7, <1>9, <1>10, [BNext]_bVars, Zenon
     DEF BNext, ProducerStep, ConsumerStep, WriteGrantStep, ReadGrantStep

\* Every step keeps what serves the parked sides.
LEMMA StepKeepsWInv ==
  ASSUME WInv, [BNext]_bVars
  PROVE  WInv'
BY StepKeepsGInv, StepKeepsArming, StepKeepsPServed, StepKeepsCServed, StepKeepsFresh, SMTT(30) DEF WInv

\* Nobody waits in a new buffer.
LEMMA BInitWInv == BInit => WInv
BY BInitGInv DEF BInit, WInv, Arming, PWaits, CWaits, InReset, Loading, Wrapping, PServed, CServed, Fresh

\* Bytes are unread only where the cursors differ.
LEMMA UnreadMoves ==
  ASSUME GInv, unread # <<>>
  PROVE  wr # rd /\ ppc # "write0"
<1>1. wr \in Nat /\ rd \in Nat /\ unread \in Seq(0 .. Capacity - 1)
  BY BTypeParts, Bounds DEF GInv, CursorType
<1>2. ppc # "write0" /\ Shape
  BY DEF GInv, Resets, InReset
<1> QED  BY <1>1, <1>2 DEF Shape, Oldest, RegionEnd

\* What the invariant says of the wakeups.
LEMMA WInvImplies == WInv => BipNoLostWakeup /\ NoStandoff
<1> SUFFICES ASSUME WInv PROVE BipNoLostWakeup /\ NoStandoff
  OBVIOUS
<1>1. GInv /\ Flags /\ PServed /\ CServed
  BY DEF WInv, GInv
<1>2. (ppc = "parked" => Armed(space)) /\ (cpc = "parked" => Armed(avail))
  BY DEF WInv, Arming, PWaits, CWaits
<1>3. BipNoLostWakeup
  <2>1. ASSUME ppc = "parked", ~wip, Starts(pn, wr, rd) # {}
        PROVE  space.woken \/ (space.armed /\ SpaceDue)
    BY <1>1, <1>2, <2>1 DEF PServed, Armed
  <2>2. ASSUME cpc = "parked", ~rip, unread # <<>>
        PROVE  avail.woken \/ (avail.armed /\ (CommitDue \/ rtail \in {"data", "drop"}))
    BY <1>1, <1>2, <2>2, UnreadMoves DEF CServed, Armed
  <2> QED  BY <2>1, <2>2 DEF BipNoLostWakeup, SpaceDue, CommitDue
<1>4. NoStandoff
  <2> SUFFICES ASSUME ppc = "parked", cpc = "parked", ~WOut, ~ROut, ~space.woken, ~avail.woken
               PROVE  FALSE
    BY DEF NoStandoff
  <2>1. wg.pc = "none" /\ wtail = "none" /\ rg.pc = "none" /\ rtail = "none" /\ ~wip /\ ~rip
    BY <1>1 DEF WOut, ROut, NoGrant, Flags
  <2>2. wr = rd
    BY <1>1, <2>1 DEF CServed, CommitDue
  <2>3. wr = 0 /\ Starts(pn, wr, rd) = {}
    BY <1>1, <2>1, <2>2 DEF PServed, SpaceDue, Stranded
  <2>4. pn \in Offset
    BY <1>1, BTypeParts DEF GInv, ControlType
  <2> QED  BY <2>2, <2>3, <2>4, BipAssumption DEF Starts, Offset
<1> QED  BY <1>3, <1>4

\* No wakeup of a parked reserve() or read() is lost, whoever frees the space, wraps,
\* commits, or gives a grant back, and in whatever order: for every capacity.
THEOREM ParkedSidesAreServed == BSpec => []BipNoLostWakeup
BY BInitWInv, StepKeepsWInv, WInvImplies, PTL DEF BSpec

\* Both sides never wait for each other: a request that fits the capacity finds the
\* drained cursors reset, or the consumer about to wrap.
THEOREM NeverBothStuck == BSpec => []NoStandoff
BY BInitWInv, StepKeepsWInv, WInvImplies, PTL DEF BSpec
=============================================================================
