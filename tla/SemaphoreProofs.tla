--------------------------- MODULE SemaphoreProofs ---------------------------
(***************************************************************************)
(* Proofs about module Semaphore, for any set of futures, any number of    *)
(* permits each asks for and any depth of callbacks.  The order of the     *)
(* queue is proved for futures that are polled with the waker they were    *)
(* queued with, the conservation of permits for any wakers.                *)
(*                                                                         *)
(* Then about module Pool, for any set of buffers.  The calls and the      *)
(* statuses are the semaphore's (Core, AcquireSteps); what is added is the *)
(* count of free buffers and where each buffer is.                         *)
(***************************************************************************)
EXTENDS Pool, WaiterProofs, FiniteSetTheorems

\* The calls a frame can stand for, and the part of TypeOK the argument needs.
Frames == [op : {"clone", "recheck", "cascade", "return", "cancel"}, fut : Futures]

Types ==
  /\ permits \in Nat /\ queue \in Seq(Futures)
  /\ status \in [Futures -> {"new", "waiting", "granted", "held"}]
  /\ stack \in Seq(Frames)

\* A future that goes on to clone its waker has no entry; entries and calls are
\* unique; the order of the queue is the order of arrival.
Inv ==
  /\ Types /\ Distinct(queue) /\ OneCallEach(stack, Futures)
  /\ \A f \in Futures : Pending(stack, Frame("clone", f)) => ~Queued(queue, f)
  /\ line = queue

-----------------------------------------------------------------------------
\* The steps of Next one by one, when wakers do not change.
LEMMA NextCases ==
  ASSUME WakerChanges = FALSE, [Next]_vars
  PROVE  \/ \E f \in Futures :
              \/ TryAcquire(f) \/ Cancel(f) \/ Release(f) \/ Forget(f) \/ Register(f)
              \/ Recheck(f) \/ Cascade(f) \/ Return(f) \/ CancelWake(f) \/ Poll(f, TRUE)
         \/ \E n \in 1 .. MaxPermits : AddPermits(n)
         \/ UNCHANGED vars
<1>1. \A x \in {TRUE, ~WakerChanges} : x = TRUE
  BY Zenon
<1> QED  BY <1>1, Zenon DEF Next, GoOn

\* The frames this module pushes.
LEMMA FrameTypes ==
  ASSUME NEW f \in Futures, NEW o \in {"clone", "recheck", "cascade", "return", "cancel"}
  PROVE  Frame(o, f) \in Frames
BY DEF Frames, Frame

\* A call is entered: only its frame is new.
LEMMA Entered ==
  ASSUME NEW s \in Seq(Frames), OneCallEach(s, Futures), NEW f \in Futures, ~InCall(s, f),
         NEW o \in {"clone", "recheck", "cascade", "return", "cancel"}
  PROVE  /\ Enter(s, o, f) \in Seq(Frames) /\ OneCallEach(Enter(s, o, f), Futures)
         /\ \A fr : Pending(Enter(s, o, f), fr) <=> Pending(s, fr) \/ fr = Frame(o, f)
<1>1. Frame(o, f) \in Frames
  BY FrameTypes
<1> QED  BY <1>1, EnterAdds

\* The call on top returns or moves on: only its frame is gone.
LEMMA Left ==
  ASSUME Types, OneCallEach(stack, Futures), NEW f \in Futures, NEW o, Suspended(stack, o, f)
  PROVE  /\ Tail(stack) \in Seq(Frames) /\ OneCallEach(Tail(stack), Futures) /\ ~InCall(Tail(stack), f)
         /\ Pending(stack, Frame(o, f))
         /\ \A fr : Pending(Tail(stack), fr) <=> Pending(stack, fr) /\ fr # Frame(o, f)
BY FutureReturns DEF Types

\* Taking permits, for a call whose stack below is s.
LEMMA GrantStep ==
  ASSUME Inv, NEW f \in Futures, NEW s \in Seq(Frames), OneCallEach(s, Futures),
         ~InCall(s, f), \A fr : Pending(s, fr) => Pending(stack, fr),
         permits >= Need[f], Grant(f, s)
  PROVE  Inv' /\ Pending(stack', Frame("cascade", f))
<1> USE DEF Inv, Types
<1>1. permits' \in Nat
  BY SemaphoreAssumption DEF Grant
<1>2. /\ queue' \in Seq(Futures) /\ Distinct(queue') /\ line' = queue'
      /\ \A g : Queued(queue', g) => Queued(queue, g)
  BY WithoutRemoves DEF Grant
<1>3. status' \in [Futures -> {"new", "waiting", "granted", "held"}]
  BY DEF Grant, SetStatus
<1>4. /\ stack' \in Seq(Frames) /\ OneCallEach(stack', Futures)
      /\ \A fr : Pending(stack', fr) <=> Pending(s, fr) \/ fr = Frame("cascade", f)
  BY Entered DEF Grant
<1>5. \A g : Pending(stack', Frame("clone", g)) => Pending(stack, Frame("clone", g))
  BY <1>4 DEF Frame
<1> QED  BY <1>1, <1>2, <1>3, <1>4, <1>5

\* The queue keeps one entry for each waiting future, in order of arrival.
LEMMA StepKeepsInv ==
  ASSUME WakerChanges = FALSE, Inv, [Next]_vars
  PROVE  Inv'
<1> USE SemaphoreAssumption DEF Inv, Types
<1>1. ASSUME NEW f \in Futures, TryAcquire(f) PROVE Inv'
  BY <1>1 DEF TryAcquire, SetStatus
<1>2. ASSUME NEW f \in Futures, Release(f) \/ Forget(f) PROVE Inv'
  BY <1>2, SMTT(30) DEF Release, Forget, SetStatus
<1>3. ASSUME NEW f \in Futures, Cancel(f) PROVE Inv'
  <2>1. /\ queue' \in Seq(Futures) /\ Distinct(queue') /\ line' = queue'
        /\ \A g : Queued(queue', g) => Queued(queue, g)
    BY <1>3, WithoutRemoves DEF Cancel
  <2>2. /\ stack' \in Seq(Frames) /\ OneCallEach(stack', Futures)
        /\ \A fr : Pending(stack', fr) <=> Pending(stack, fr) \/ fr = Frame("cancel", f)
    BY <1>3, Entered DEF Cancel
  <2>3. \A g : Pending(stack', Frame("clone", g)) => Pending(stack, Frame("clone", g))
    BY <2>2 DEF Frame
  <2> QED  BY <1>3, <2>1, <2>2, <2>3 DEF Cancel, SetStatus
<1>4. ASSUME NEW f \in Futures, Register(f) PROVE Inv'
  <2> DEFINE t == Tail(stack)
  <2>1. Suspended(stack, "clone", f)
    BY <1>4 DEF Register
  <2>2. /\ t \in Seq(Frames) /\ OneCallEach(t, Futures) /\ ~InCall(t, f)
        /\ Pending(stack, Frame("clone", f))
        /\ \A fr : Pending(t, fr) <=> Pending(stack, fr) /\ fr # Frame("clone", f)
    BY <2>1, Left
  <2> HIDE DEF t
  <2>3. stack' = Enter(t, "recheck", f)
    BY <1>4 DEF Register, t
  <2>4. /\ stack' \in Seq(Frames) /\ OneCallEach(stack', Futures)
        /\ \A fr : Pending(stack', fr) <=> Pending(t, fr) \/ fr = Frame("recheck", f)
    BY <2>2, <2>3, Entered
  <2>5. \A g : Pending(stack', Frame("clone", g)) => Pending(stack, Frame("clone", g)) /\ g # f
    BY <2>2, <2>4 DEF Frame
  <2>6. ~Queued(queue, f)
    BY <2>2
  <2>7. /\ queue' \in Seq(Futures) /\ Distinct(queue')
        /\ \A g : Queued(queue', g) <=> Queued(queue, g) \/ g = f
    BY <1>4, RequeueAdds DEF Register
  <2>8. line' = queue'
    BY <1>4, <2>6 DEF Register, Requeue, Without
  <2> QED  BY <1>4, <2>4, <2>5, <2>7, <2>8 DEF Register
<1>5. ASSUME NEW f \in Futures, Recheck(f) PROVE Inv'
  <2>1. /\ Tail(stack) \in Seq(Frames) /\ OneCallEach(Tail(stack), Futures) /\ ~InCall(Tail(stack), f)
        /\ \A fr : Pending(Tail(stack), fr) => Pending(stack, fr)
    BY <1>5, Left DEF Recheck
  <2>2. CASE CanAcquireFair(f) /\ Grant(f, Tail(stack))
    BY <2>1, <2>2, GrantStep, Zenon DEF CanAcquireFair
  <2>3. CASE stack' = Tail(stack) /\ SetStatus(f, "waiting") /\ UNCHANGED <<permits, queue, line>>
    BY <2>1, <2>3 DEF SetStatus
  <2> QED  BY <1>5, <2>2, <2>3 DEF Recheck
<1>6. ASSUME NEW f \in Futures, Cascade(f) PROVE Inv'
  <2> DEFINE t == Tail(stack)
  <2>1. Suspended(stack, "cascade", f)
    BY <1>6 DEF Cascade
  <2>2. /\ t \in Seq(Frames) /\ OneCallEach(t, Futures) /\ ~InCall(t, f)
        /\ \A fr : Pending(t, fr) => Pending(stack, fr)
    BY <2>1, Left
  <2> HIDE DEF t
  <2>3. stack' = Enter(t, "return", f)
    BY <1>6 DEF Cascade, t
  <2>4. /\ stack' \in Seq(Frames) /\ OneCallEach(stack', Futures)
        /\ \A fr : Pending(stack', fr) <=> Pending(t, fr) \/ fr = Frame("return", f)
    BY <2>2, <2>3, Entered
  <2>5. \A g : Pending(stack', Frame("clone", g)) => Pending(stack, Frame("clone", g))
    BY <2>2, <2>4 DEF Frame
  <2> QED  BY <1>6, <2>4, <2>5 DEF Cascade
<1>7. ASSUME NEW f \in Futures, Return(f) \/ CancelWake(f) PROVE Inv'
  <2>1. /\ stack' \in Seq(Frames) /\ OneCallEach(stack', Futures)
        /\ \A fr : Pending(stack', fr) => Pending(stack, fr)
    BY <1>7, Left, Zenon DEF Return, CancelWake
  <2> QED  BY <1>7, <2>1, Zenon DEF Return, CancelWake, SetStatus
<1>8. ASSUME NEW f \in Futures, Poll(f, TRUE) PROVE Inv'
  <2>1. CASE CanAcquireFair(f) /\ Grant(f, stack)
    BY <1>8, <2>1, GrantStep DEF Poll, CanAcquireFair
  <2>2. CASE UNCHANGED <<permits, queue, status, line, stack>>
    BY <2>2
  <2>3. CASE stack' = Enter(stack, "clone", f) /\ ~Queued(queue, f)
             /\ UNCHANGED <<permits, queue, status, line>>
    <3>1. /\ stack' \in Seq(Frames) /\ OneCallEach(stack', Futures)
          /\ \A fr : Pending(stack', fr) <=> Pending(stack, fr) \/ fr = Frame("clone", f)
      BY <1>8, <2>3, Entered DEF Poll
    <3>2. \A g : Pending(stack', Frame("clone", g)) => Pending(stack, Frame("clone", g)) \/ g = f
      BY <3>1 DEF Frame
    <3> QED  BY <2>3, <3>1, <3>2
  <2> QED  BY <1>8, <2>1, <2>2, <2>3 DEF Poll
<1>9. ASSUME NEW n \in 1 .. MaxPermits, AddPermits(n) PROVE Inv'
  BY <1>9 DEF AddPermits
<1>10. CASE UNCHANGED vars
  BY <1>10 DEF vars
<1> QED  BY NextCases, <1>1, <1>2, <1>3, <1>4, <1>5, <1>6, <1>7, <1>8, <1>9, <1>10, ZenonT(40)

\* The invariant holds of a new semaphore.
LEMMA InitInv == Init => Inv
<1> SUFFICES ASSUME Init PROVE Inv
  OBVIOUS
<1>1. <<>> \in Seq(Futures) /\ <<>> \in Seq(Frames)
  OBVIOUS
<1>2. Types
  BY <1>1, SemaphoreAssumption DEF Init, Types
<1>3. Distinct(queue) /\ line = queue
  BY DEF Init, Distinct
<1>4. OneCallEach(stack, Futures) /\ \A f : ~Pending(stack, Frame("clone", f))
  BY DEF Init, OneCallEach, Pending
<1> QED  BY <1>2, <1>3, <1>4 DEF Inv

\* Permits go to the future that has waited longest: CanAcquireFair looks at the
\* queue only, whose order is the order of arrival.
THEOREM ServedInOrder ==
  ASSUME WakerChanges = FALSE
  PROVE  Spec => FifoFair
<1>1. ASSUME Inv, [Next]_vars
      PROVE  [\A f \in Futures : (status[f] # "granted" /\ status'[f] = "granted") =>
                line = <<>> \/ Front(line, f)]_vars
  <2> SUFFICES ASSUME NEW f \in Futures, status[f] # "granted", status'[f] = "granted"
               PROVE  line = <<>> \/ Front(line, f)
    OBVIOUS
  <2> USE DEF Inv, Types
  <2>1. ASSUME NEW g \in Futures, Poll(g, TRUE) \/ Recheck(g)
        PROVE  line = <<>> \/ Front(line, f)
    <3>1. CASE CanAcquireFair(g) /\ SetStatus(g, "granted")
      BY <1>1, <3>1 DEF CanAcquireFair, SetStatus
    <3>2. CASE SetStatus(g, "waiting") \/ UNCHANGED status
      BY <1>1, <3>2 DEF SetStatus
    <3> QED  BY <2>1, <3>1, <3>2 DEF Poll, Recheck, Grant
  <2>2. ASSUME NEW g \in Futures,
               \/ TryAcquire(g) \/ Cancel(g) \/ Release(g) \/ Forget(g) \/ Register(g)
               \/ Cascade(g) \/ Return(g) \/ CancelWake(g)
        PROVE  FALSE
    <3>1. SetStatus(g, "held") \/ SetStatus(g, "new") \/ UNCHANGED status
      BY <2>2 DEF TryAcquire, Cancel, Release, Forget, Register, Cascade, Return, CancelWake
    <3> QED  BY <1>1, <3>1, SMTT(30) DEF SetStatus
  <2>3. ASSUME NEW n \in 1 .. MaxPermits, AddPermits(n) PROVE FALSE
    BY <2>3 DEF AddPermits
  <2>4. CASE UNCHANGED vars
    BY <2>4 DEF vars
  <2> QED  BY <1>1, NextCases, <2>1, <2>2, <2>3, <2>4, Zenon
<1> QED  BY <1>1, InitInv, StepKeepsInv, PTL DEF Spec, FifoFair

\* What a step that takes nothing from the front does to the property: the front, the
\* wakes and the frames that count stay, or grow.
LEMMA FrontUndisturbed ==
  ASSUME SatisfiableFrontIsWoken, queue' = queue \/ (queue # <<>> /\ Head(queue') = Head(queue)),
         permits' <= permits, permits \in Nat, permits' \in Nat, queue \in Seq(Futures),
         queue # <<>> => Need[Head(queue)] \in Nat,
         queue # <<>> /\ Head(queue) \in woken => Head(queue) \in woken',
         queue # <<>> /\ Pending(stack, Frame("recheck", Head(queue)))
           => Pending(stack', Frame("recheck", Head(queue))),
         \A f : Pending(stack, Frame("cascade", f)) => Pending(stack', Frame("cascade", f)),
         \A f : Pending(stack, Frame("cancel", f)) => Pending(stack', Frame("cancel", f))
  PROVE  SatisfiableFrontIsWoken'
BY DEF SatisfiableFrontIsWoken

\* A step that ends in wake_next leaves a satisfiable front woken.
LEMMA FrontJustWoken ==
  ASSUME UNCHANGED queue, WakeNext(permits')
  PROVE  SatisfiableFrontIsWoken'
BY DEF SatisfiableFrontIsWoken, WakeNext

\* A front waiter that could be satisfied has been woken, or a call in progress is
\* about to look again: no permit lies idle beside a sleeping front.
THEOREM FrontNeverLeft ==
  ASSUME WakerChanges = FALSE
  PROVE  Spec => []SatisfiableFrontIsWoken
<1>1. Init => SatisfiableFrontIsWoken
  BY DEF Init, SatisfiableFrontIsWoken
<1>2. ASSUME Inv, Inv', SatisfiableFrontIsWoken, [Next]_vars
      PROVE  SatisfiableFrontIsWoken'
  <2> USE <1>2, SemaphoreAssumption DEF Inv, Types
  <2>0. queue # <<>> => Head(queue) \in Futures /\ Need[Head(queue)] \in Nat /\ Queued(queue, Head(queue))
    BY TailRemoves
  <2>1. ASSUME NEW f \in Futures, TryAcquire(f) \/ Forget(f) PROVE SatisfiableFrontIsWoken'
    <3>1. UNCHANGED <<queue, woken, stack>> /\ permits' <= permits
      BY <2>1 DEF TryAcquire, Forget
    <3> QED  BY <2>0, <3>1, FrontUndisturbed
  <2>2. ASSUME NEW f \in Futures, Release(f) PROVE SatisfiableFrontIsWoken'
    BY <2>2, FrontJustWoken DEF Release
  <2>3. ASSUME NEW n \in 1 .. MaxPermits, AddPermits(n) PROVE SatisfiableFrontIsWoken'
    BY <2>3, FrontJustWoken DEF AddPermits
  <2>4. ASSUME NEW f \in Futures, Cascade(f) \/ CancelWake(f) PROVE SatisfiableFrontIsWoken'
    BY <2>4, FrontJustWoken DEF Cascade, CancelWake
  <2>5. ASSUME NEW f \in Futures, Cancel(f) PROVE SatisfiableFrontIsWoken'
    <3>1. Pending(stack', Frame("cancel", f))
      BY <2>5, Entered DEF Cancel
    <3> QED  BY <3>1 DEF SatisfiableFrontIsWoken
  <2>6. ASSUME NEW f \in Futures, Return(f) PROVE SatisfiableFrontIsWoken'
    <3>1. \A fr : Pending(stack', fr) <=> Pending(stack, fr) /\ fr # Frame("return", f)
      BY <2>6, Left DEF Return
    <3>2. UNCHANGED <<queue, woken, permits>>
      BY <2>6 DEF Return
    <3>3. \A g, h : /\ Frame("recheck", h) # Frame("return", g)
                    /\ Frame("cascade", h) # Frame("return", g)
                    /\ Frame("cancel", h) # Frame("return", g)
      BY DEF Frame
    <3>4. /\ \A g : Pending(stack, Frame("recheck", g)) => Pending(stack', Frame("recheck", g))
          /\ \A g : Pending(stack, Frame("cascade", g)) => Pending(stack', Frame("cascade", g))
          /\ \A g : Pending(stack, Frame("cancel", g)) => Pending(stack', Frame("cancel", g))
      BY <3>1, <3>3, Zenon
    <3> QED  BY <2>0, <3>2, <3>4, FrontUndisturbed
  <2>7. ASSUME NEW f \in Futures, Register(f) PROVE SatisfiableFrontIsWoken'
    <3> DEFINE t == Tail(stack)
    <3>1. Suspended(stack, "clone", f) /\ UNCHANGED permits /\ woken' = woken \ {f}
      BY <2>7 DEF Register
    <3>2. /\ t \in Seq(Frames) /\ OneCallEach(t, Futures) /\ ~InCall(t, f)
          /\ Pending(stack, Frame("clone", f))
          /\ \A fr : Pending(t, fr) <=> Pending(stack, fr) /\ fr # Frame("clone", f)
      BY <3>1, Left
    <3> HIDE DEF t
    <3>3. \A fr : Pending(stack', fr) <=> Pending(t, fr) \/ fr = Frame("recheck", f)
      BY <2>7, <3>2, Entered, Zenon DEF Register, t
    <3>4. ~Queued(queue, f) /\ queue' = Append(queue, f)
      BY <2>7, <3>2 DEF Register, Requeue, Without
    <3>5. CASE queue = <<>>
      <4>1. Head(queue') = f
        BY <3>4, <3>5
      <4> QED  BY <3>3, <4>1 DEF SatisfiableFrontIsWoken
    <3>6. CASE queue # <<>>
      <4>1. Head(queue') = Head(queue) /\ Head(queue) # f
        BY <2>0, <3>4, <3>6, SMTT(30)
      <4>2. \A g, h : /\ Frame("recheck", h) # Frame("clone", g)
                      /\ Frame("cascade", h) # Frame("clone", g)
                      /\ Frame("cancel", h) # Frame("clone", g)
        BY DEF Frame
      <4>3. /\ \A g : Pending(stack, Frame("recheck", g)) => Pending(stack', Frame("recheck", g))
            /\ \A g : Pending(stack, Frame("cascade", g)) => Pending(stack', Frame("cascade", g))
            /\ \A g : Pending(stack, Frame("cancel", g)) => Pending(stack', Frame("cancel", g))
        BY <3>2, <3>3, <4>2, Zenon
      <4> QED  BY <2>0, <3>1, <3>6, <4>1, <4>3, FrontUndisturbed
    <3> QED  BY <3>5, <3>6
  <2>8. ASSUME NEW f \in Futures, Recheck(f) PROVE SatisfiableFrontIsWoken'
    <3>1. Suspended(stack, "recheck", f) /\ UNCHANGED woken
      BY <2>8 DEF Recheck
    <3>2. /\ Tail(stack) \in Seq(Frames) /\ OneCallEach(Tail(stack), Futures) /\ ~InCall(Tail(stack), f)
          /\ \A fr : Pending(Tail(stack), fr) <=> Pending(stack, fr) /\ fr # Frame("recheck", f)
      BY <3>1, Left
    <3>3. CASE CanAcquireFair(f) /\ Grant(f, Tail(stack))
      <4>1. Pending(stack', Frame("cascade", f))
        BY <3>2, <3>3, GrantStep, Zenon DEF CanAcquireFair
      <4> QED  BY <4>1 DEF SatisfiableFrontIsWoken
    <3>4. CASE /\ ~CanAcquireFair(f)
               /\ stack' = Tail(stack) /\ UNCHANGED <<permits, queue>>
      <4>1. CASE queue # <<>> /\ Head(queue) = f
        BY <2>0, <3>4, <4>1 DEF CanAcquireFair, Front, SatisfiableFrontIsWoken
      <4>2. CASE queue = <<>>
        BY <3>4, <4>2 DEF SatisfiableFrontIsWoken
      <4>3. CASE queue # <<>> /\ Head(queue) # f
        <5>1. \A g, h : /\ g # h => Frame("recheck", h) # Frame("recheck", g)
                        /\ Frame("cascade", h) # Frame("recheck", g)
                        /\ Frame("cancel", h) # Frame("recheck", g)
          BY DEF Frame
        <5>2. /\ Pending(stack, Frame("recheck", Head(queue)))
                   => Pending(stack', Frame("recheck", Head(queue)))
              /\ \A g : Pending(stack, Frame("cascade", g)) => Pending(stack', Frame("cascade", g))
              /\ \A g : Pending(stack, Frame("cancel", g)) => Pending(stack', Frame("cancel", g))
          BY <3>2, <3>4, <4>3, <5>1, Zenon
        <5> QED  BY <2>0, <3>1, <3>4, <4>3, <5>2, FrontUndisturbed
      <4> QED  BY <4>1, <4>2, <4>3
    <3> QED  BY <2>8, <3>3, <3>4 DEF Recheck
  <2>9. ASSUME NEW f \in Futures, Poll(f, TRUE) PROVE SatisfiableFrontIsWoken'
    <3>1. ~InCall(stack, f) /\ woken' = woken \ {f}
      BY <2>9 DEF Poll
    <3>2. CASE CanAcquireFair(f) /\ Grant(f, stack)
      <4>1. Pending(stack', Frame("cascade", f))
        BY <3>1, <3>2, GrantStep, SMTT(30) DEF CanAcquireFair
      <4> QED  BY <4>1 DEF SatisfiableFrontIsWoken
    <3>3. CASE /\ ~CanAcquireFair(f) /\ stack' \in {stack, Enter(stack, "clone", f)}
               /\ UNCHANGED <<permits, queue>>
      <4>1. \A fr : Pending(stack, fr) => Pending(stack', fr)
        BY <3>1, <3>3, Entered
      <4>2. CASE queue # <<>> /\ Head(queue) = f
        BY <2>0, <3>3, <4>2, SMTT(30) DEF CanAcquireFair, Front, SatisfiableFrontIsWoken
      <4>3. CASE queue = <<>>
        BY <3>3, <4>3 DEF SatisfiableFrontIsWoken
      <4>4. CASE queue # <<>> /\ Head(queue) # f
        BY <2>0, <3>1, <3>3, <4>1, <4>4, FrontUndisturbed
      <4> QED  BY <4>2, <4>3, <4>4
    <3> QED  BY <2>9, <3>2, <3>3 DEF Poll
  <2>10. CASE UNCHANGED vars
    BY <2>0, <2>10, FrontUndisturbed DEF vars
  <2> QED  BY NextCases, <2>1, <2>2, <2>3, <2>4, <2>5, <2>6, <2>7, <2>8, <2>9, <2>10, ZenonT(40)
<1> QED  BY <1>1, <1>2, InitInv, StepKeepsInv, PTL DEF Spec

-----------------------------------------------------------------------------
(* The conservation of permits. *)

\* Where a call of f is suspended tells whether f has its permits.
CallInv ==
  \A f \in Futures :
    /\ Pending(stack, Frame("clone", f)) => status[f] \in {"new", "waiting"}
    /\ Pending(stack, Frame("recheck", f)) => status[f] \in {"new", "waiting"}
    /\ Pending(stack, Frame("cascade", f)) => status[f] = "granted"
    /\ Pending(stack, Frame("return", f)) => status[f] = "granted"
    /\ Pending(stack, Frame("cancel", f)) => status[f] = "new"

\* What every call keeps, whichever wakers it is given.
Core ==
  /\ Types /\ woken \subseteq Futures
  /\ Distinct(queue) /\ line \in Seq(Futures) /\ Distinct(line)
  /\ OneCallEach(stack, Futures) /\ CallInv

\* f, which had none, takes its permits.
Takes(f) ==
  /\ permits >= Need[f] /\ permits' = permits - Need[f]
  /\ status[f] \in {"new", "waiting"} /\ status' = [status EXCEPT ![f] = "granted"]

\* No permit moves.
NoneTaken(f) ==
  /\ UNCHANGED permits
  /\ \/ UNCHANGED status
     \/ /\ status[f] \in {"new", "waiting"}
        /\ \E s \in {"new", "waiting"} : status' = [status EXCEPT ![f] = s]

\* A wake adds at most the front of the queue.
LEMMA WakeNextType ==
  ASSUME NEW p, WakeNext(p), queue \in Seq(Futures), woken \subseteq Futures
  PROVE  woken' \subseteq Futures
<1>1. queue # <<>> => Head(queue) \in Futures
  OBVIOUS
<1> QED  BY <1>1 DEF WakeNext

\* A frame is suspended in the call of its future, and two frames are the same only
\* if they agree.
LEMMA FrameFacts ==
  /\ \A s, o, f : Pending(s, Frame(o, f)) => InCall(s, f)
  /\ \A o, f, p, g : Frame(o, f) = Frame(p, g) <=> o = p /\ f = g
<1>1. \A o, f : Frame(o, f).fut = f /\ Frame(o, f).op = o
  BY DEF Frame
<1>2. \A s, o, f : Pending(s, Frame(o, f)) => InCall(s, f)
  BY <1>1 DEF Pending, InCall
<1>3. \A o, f, p, g : Frame(o, f) = Frame(p, g) <=> o = p /\ f = g
  BY <1>1
<1> QED  BY <1>2, <1>3

\* The frames of the others are untouched, and the status of f fits its own.
LEMMA CallInvStep ==
  ASSUME CallInv, NEW f \in Futures, NEW t, ~InCall(t, f),
         \A fr : Pending(t, fr) => Pending(stack, fr),
         status \in [Futures -> {"new", "waiting", "granted", "held"}],
         \A g \in Futures : g # f => status'[g] = status[g],
         \/ \A fr : Pending(stack', fr) => Pending(t, fr)
         \/ \E o \in {"clone", "recheck", "cascade", "return", "cancel"} :
              /\ \A fr : Pending(stack', fr) => Pending(t, fr) \/ fr = Frame(o, f)
              /\ o \in {"clone", "recheck"} => status'[f] \in {"new", "waiting"}
              /\ o \in {"cascade", "return"} => status'[f] = "granted"
              /\ o = "cancel" => status'[f] = "new"
  PROVE  CallInv'
<1> SUFFICES ASSUME NEW g \in Futures
             PROVE  /\ Pending(stack', Frame("clone", g)) => status'[g] \in {"new", "waiting"}
                    /\ Pending(stack', Frame("recheck", g)) => status'[g] \in {"new", "waiting"}
                    /\ Pending(stack', Frame("cascade", g)) => status'[g] = "granted"
                    /\ Pending(stack', Frame("return", g)) => status'[g] = "granted"
                    /\ Pending(stack', Frame("cancel", g)) => status'[g] = "new"
  BY DEF CallInv
<1>1. CASE g # f
  <2>1. \A o : Pending(stack', Frame(o, g)) => Pending(stack, Frame(o, g))
    BY <1>1, FrameFacts
  <2> QED  BY <1>1, <2>1 DEF CallInv
<1>2. CASE g = f
  <2>1. \A o : ~Pending(t, Frame(o, f))
    BY FrameFacts
  <2>2. CASE \A fr : Pending(stack', fr) => Pending(t, fr)
    BY <1>2, <2>1, <2>2
  <2>3. ASSUME NEW o \in {"clone", "recheck", "cascade", "return", "cancel"},
               \A fr : Pending(stack', fr) => Pending(t, fr) \/ fr = Frame(o, f),
               o \in {"clone", "recheck"} => status'[f] \in {"new", "waiting"},
               o \in {"cascade", "return"} => status'[f] = "granted",
               o = "cancel" => status'[f] = "new"
        PROVE  /\ Pending(stack', Frame("clone", g)) => status'[g] \in {"new", "waiting"}
               /\ Pending(stack', Frame("recheck", g)) => status'[g] \in {"new", "waiting"}
               /\ Pending(stack', Frame("cascade", g)) => status'[g] = "granted"
               /\ Pending(stack', Frame("return", g)) => status'[g] = "granted"
               /\ Pending(stack', Frame("cancel", g)) => status'[g] = "new"
    <3>1. \A p : Pending(stack', Frame(p, f)) => p = o
      BY <2>1, <2>3, FrameFacts
    <3> QED  BY <1>2, <2>3, <3>1
  <2> QED  BY <2>2, <2>3
<1> QED  BY <1>1, <1>2

\* Taking permits keeps Core, for a call whose stack below is s.
LEMMA GrantKeepsCore ==
  ASSUME Core, NEW f \in Futures, status[f] \in {"new", "waiting"},
         NEW s \in Seq(Frames), OneCallEach(s, Futures),
         ~InCall(s, f), \A fr : Pending(s, fr) => Pending(stack, fr),
         permits >= Need[f], Grant(f, s), woken' \subseteq Futures
  PROVE  Core' /\ Takes(f)
<1> USE DEF Core, Types
<1>1. Takes(f) /\ permits' \in Nat
  <2>1. permits \in Nat /\ Need[f] \in Nat /\ permits' = permits - Need[f]
    BY SemaphoreAssumption DEF Grant
  <2>2. permits' \in Nat
    BY <2>1
  <2>3. status' = [status EXCEPT ![f] = "granted"]
    BY DEF Grant, SetStatus
  <2> QED  BY <2>1, <2>2, <2>3, Zenon DEF Takes
<1>2. /\ queue' \in Seq(Futures) /\ Distinct(queue')
      /\ line' \in Seq(Futures) /\ Distinct(line')
  BY WithoutRemoves DEF Grant
<1>3. /\ status' \in [Futures -> {"new", "waiting", "granted", "held"}]
      /\ status'[f] = "granted" /\ \A g \in Futures : g # f => status'[g] = status[g]
  BY DEF Grant, SetStatus
<1>4. /\ stack' \in Seq(Frames) /\ OneCallEach(stack', Futures)
      /\ \A fr : Pending(stack', fr) => Pending(s, fr) \/ fr = Frame("cascade", f)
  BY Entered DEF Grant
<1>5. CallInv'
  <2>1. \E o \in {"clone", "recheck", "cascade", "return", "cancel"} :
              /\ \A fr : Pending(stack', fr) => Pending(s, fr) \/ fr = Frame(o, f)
              /\ o \in {"clone", "recheck"} => status'[f] \in {"new", "waiting"}
              /\ o \in {"cascade", "return"} => status'[f] = "granted"
              /\ o = "cancel" => status'[f] = "new"
    <3> WITNESS "cascade" \in {"clone", "recheck", "cascade", "return", "cancel"}
    <3> QED  BY <1>3, <1>4
  <2> QED  BY <1>3, <2>1, CallInvStep
<1> QED  BY <1>1, <1>2, <1>3, <1>4, <1>5

\* A call of f that enters o above t keeps CallInv, if the status of f fits o.
LEMMA EnterKeepsCalls ==
  ASSUME Core, NEW f \in Futures, NEW t \in Seq(Frames), OneCallEach(t, Futures), ~InCall(t, f),
         \A fr : Pending(t, fr) => Pending(stack, fr),
         \A g \in Futures : g # f => status'[g] = status[g],
         NEW o \in {"clone", "recheck", "cascade", "return", "cancel"},
         stack' = Enter(t, o, f),
         o \in {"clone", "recheck"} => status'[f] \in {"new", "waiting"},
         o \in {"cascade", "return"} => status'[f] = "granted",
         o = "cancel" => status'[f] = "new"
  PROVE  stack' \in Seq(Frames) /\ OneCallEach(stack', Futures) /\ CallInv'
<1>1. /\ stack' \in Seq(Frames) /\ OneCallEach(stack', Futures)
      /\ \A fr : Pending(stack', fr) => Pending(t, fr) \/ fr = Frame(o, f)
  BY Entered
<1>2. CallInv /\ status \in [Futures -> {"new", "waiting", "granted", "held"}]
  BY DEF Core, Types
<1>3. CallInv'
  BY <1>1, <1>2, CallInvStep
<1> QED  BY <1>1, <1>3

\* A call of f that returns keeps CallInv.
LEMMA LeaveKeepsCalls ==
  ASSUME Core, NEW f \in Futures, NEW o, Suspended(stack, o, f), stack' = Tail(stack),
         \A g \in Futures : g # f => status'[g] = status[g]
  PROVE  stack' \in Seq(Frames) /\ OneCallEach(stack', Futures) /\ CallInv'
<1>1. /\ Tail(stack) \in Seq(Frames) /\ OneCallEach(Tail(stack), Futures)
      /\ ~InCall(Tail(stack), f)
      /\ \A fr : Pending(Tail(stack), fr) => Pending(stack, fr)
  BY Left DEF Core
<1>2. CallInv /\ status \in [Futures -> {"new", "waiting", "granted", "held"}]
  BY DEF Core, Types
<1>3. CallInv'
  BY <1>1, <1>2, CallInvStep
<1> QED  BY <1>1, <1>3

\* The steps of an acquire future up to its Ready: it takes all the permits it needs,
\* or none.
LEMMA AcquireSteps ==
  ASSUME Core, NEW f \in Futures, NEW same \in BOOLEAN,
         \/ Poll(f, same) \/ Register(f) \/ Recheck(f) \/ Cascade(f)
         \/ Cancel(f) \/ CancelWake(f)
  PROVE  Core' /\ UNCHANGED total /\ (Takes(f) \/ NoneTaken(f))
<1> USE DEF Core, Types
<1>1. CASE Poll(f, same)
  <2>1. status[f] \in {"new", "waiting"} /\ ~InCall(stack, f) /\ woken' \subseteq Futures /\ UNCHANGED total
    BY <1>1 DEF Poll
  <2>2. CASE CanAcquireFair(f) /\ Grant(f, stack)
    BY <2>1, <2>2, GrantKeepsCore DEF CanAcquireFair
  <2>3. CASE stack' = stack /\ UNCHANGED <<permits, queue, status, line>>
    BY <2>1, <2>3 DEF CallInv, NoneTaken
  <2>4. CASE stack' = Enter(stack, "clone", f) /\ UNCHANGED <<permits, queue, status, line>>
    <3>1. stack' \in Seq(Frames) /\ OneCallEach(stack', Futures) /\ CallInv'
      BY <2>1, <2>4, EnterKeepsCalls
    <3> QED  BY <2>1, <2>4, <3>1 DEF NoneTaken
  <2> QED  BY <1>1, <2>1, <2>2, <2>3, <2>4, SMTT(30) DEF Poll
<1>2. CASE Register(f)
  <2> DEFINE t == Tail(stack)
  <2>1. Suspended(stack, "clone", f)
    BY <1>2 DEF Register
  <2>2. /\ t \in Seq(Frames) /\ OneCallEach(t, Futures) /\ ~InCall(t, f)
        /\ Pending(stack, Frame("clone", f)) /\ \A fr : Pending(t, fr) => Pending(stack, fr)
    BY <2>1, Left
  <2>3. stack' = Enter(t, "recheck", f)
    BY <1>2 DEF Register
  <2> HIDE DEF t
  <2>4. status' = status /\ status[f] \in {"new", "waiting"}
    BY <1>2, <2>2 DEF CallInv, Register
  <2>5. stack' \in Seq(Frames) /\ OneCallEach(stack', Futures) /\ CallInv'
    BY <2>2, <2>3, <2>4, EnterKeepsCalls
  <2>6. queue' \in Seq(Futures) /\ Distinct(queue')
    BY <1>2, RequeueAdds DEF Register
  <2>7. line' \in Seq(Futures) /\ Distinct(line')
    <3>1. CASE Queued(line, f)
      BY <1>2, <3>1 DEF Register
    <3>2. CASE ~Queued(line, f)
      <4>1. line' = Requeue(line, f)
        BY <1>2, <3>2 DEF Register, Requeue, Without
      <4> QED  BY <4>1, RequeueAdds
    <3> QED  BY <3>1, <3>2
  <2> QED  BY <1>2, <2>4, <2>5, <2>6, <2>7 DEF Register, NoneTaken
<1>3. CASE Recheck(f)
  <2>1. Suspended(stack, "recheck", f) /\ UNCHANGED <<woken, total>>
    BY <1>3 DEF Recheck
  <2>2. /\ Tail(stack) \in Seq(Frames) /\ OneCallEach(Tail(stack), Futures) /\ ~InCall(Tail(stack), f)
        /\ Pending(stack, Frame("recheck", f))
        /\ \A fr : Pending(Tail(stack), fr) => Pending(stack, fr)
    BY <2>1, Left
  <2>3. status[f] \in {"new", "waiting"}
    BY <2>2 DEF CallInv
  <2>4. CASE CanAcquireFair(f) /\ Grant(f, Tail(stack))
    BY <2>1, <2>2, <2>3, <2>4, GrantKeepsCore, Zenon DEF CanAcquireFair
  <2>5. CASE stack' = Tail(stack) /\ SetStatus(f, "waiting") /\ UNCHANGED <<permits, queue, line>>
    <3>1. \A g \in Futures : g # f => status'[g] = status[g]
      BY <2>5 DEF SetStatus
    <3>2. stack' \in Seq(Frames) /\ OneCallEach(stack', Futures) /\ CallInv'
      BY <2>1, <2>5, <3>1, LeaveKeepsCalls
    <3> QED  BY <2>1, <2>3, <2>5, <3>2 DEF SetStatus, NoneTaken
  <2> QED  BY <1>3, <2>4, <2>5 DEF Recheck
<1>4. CASE Cascade(f)
  <2> DEFINE t == Tail(stack)
  <2>1. Suspended(stack, "cascade", f)
    BY <1>4 DEF Cascade
  <2>2. /\ t \in Seq(Frames) /\ OneCallEach(t, Futures) /\ ~InCall(t, f)
        /\ Pending(stack, Frame("cascade", f)) /\ \A fr : Pending(t, fr) => Pending(stack, fr)
    BY <2>1, Left
  <2>3. stack' = Enter(t, "return", f)
    BY <1>4 DEF Cascade
  <2> HIDE DEF t
  <2>4. status' = status /\ status[f] = "granted"
    BY <1>4, <2>2 DEF CallInv, Cascade
  <2>5. stack' \in Seq(Frames) /\ OneCallEach(stack', Futures) /\ CallInv'
    BY <2>2, <2>3, <2>4, EnterKeepsCalls
  <2>6. woken' \subseteq Futures
    BY <1>4, WakeNextType DEF Cascade
  <2> QED  BY <1>4, <2>4, <2>5, <2>6 DEF Cascade, NoneTaken
<1>5. CASE Cancel(f)
  <2>1. /\ status[f] = "waiting" /\ ~InCall(stack, f) /\ stack' = Enter(stack, "cancel", f)
        /\ status' = [status EXCEPT ![f] = "new"]
    BY <1>5 DEF Cancel, SetStatus
  <2>2. \A g \in Futures : g # f => status'[g] = status[g]
    BY <2>1
  <2>3. stack' \in Seq(Frames) /\ OneCallEach(stack', Futures) /\ CallInv'
    BY <2>1, <2>2, EnterKeepsCalls
  <2>4. /\ queue' \in Seq(Futures) /\ Distinct(queue')
        /\ line' \in Seq(Futures) /\ Distinct(line')
    BY <1>5, WithoutRemoves DEF Cancel
  <2> QED  BY <1>5, <2>1, <2>3, <2>4 DEF Cancel, NoneTaken
<1>6. CASE CancelWake(f)
  <2>1. Suspended(stack, "cancel", f) /\ stack' = Tail(stack) /\ status' = status
    BY <1>6 DEF CancelWake
  <2>2. stack' \in Seq(Frames) /\ OneCallEach(stack', Futures) /\ CallInv'
    BY <2>1, LeaveKeepsCalls
  <2>3. woken' \subseteq Futures
    BY <1>6, WakeNextType DEF CancelWake
  <2> QED  BY <1>6, <2>1, <2>2, <2>3 DEF CancelWake, NoneTaken
<1> QED  BY <1>1, <1>2, <1>3, <1>4, <1>5, <1>6, ZenonT(40)

\* The permits of the futures in H.
PermitsOf(H) == UNION {{f} \X (1 .. Need[f]) : f \in H}

\* A future that joins H brings as many permits as it needs.
LEMMA PermitsGrow ==
  ASSUME NEW H, NEW f \in Futures, f \notin H, IsFiniteSet(PermitsOf(H))
  PROVE  /\ IsFiniteSet(PermitsOf(H \cup {f}))
         /\ Cardinality(PermitsOf(H \cup {f})) = Cardinality(PermitsOf(H)) + Need[f]
         /\ Cardinality(PermitsOf(H)) \in Nat
<1> DEFINE A == PermitsOf(H)
           B == {f} \X (1 .. Need[f])
<1>1. Need[f] \in Nat
  BY SemaphoreAssumption
<1>2. IsFiniteSet(1 .. Need[f]) /\ Cardinality(1 .. Need[f]) = Need[f]
  <2>1. 1 \in Int /\ Need[f] \in Int
    BY <1>1
  <2>2. IsFiniteSet(1 .. Need[f]) /\ Cardinality(1 .. Need[f]) = IF 1 > Need[f] THEN 0 ELSE Need[f] - 1 + 1
    BY <2>1, FS_Interval
  <2> QED  BY <1>1, <2>2
<1>3. IsFiniteSet({f}) /\ Cardinality({f}) = 1
  BY FS_Singleton
<1>4. IsFiniteSet(B) /\ Cardinality(B) = Need[f]
  <2>1. IsFiniteSet(B) /\ Cardinality(B) = Cardinality({f}) * Cardinality(1 .. Need[f])
    BY <1>2, <1>3, FS_Product, ZenonT(40)
  <2> QED  BY <1>1, <1>2, <1>3, <2>1
<1>5. PermitsOf(H \cup {f}) = A \cup B
  BY DEF PermitsOf
<1>6. A \cap B = {}
  BY DEF PermitsOf
<1>7. Cardinality(A) \in Nat /\ Cardinality(A \cap B) = 0
  BY <1>6, FS_CardinalityType, FS_EmptySet, ZenonT(40)
<1>8. /\ IsFiniteSet(A \cup B)
      /\ Cardinality(A \cup B) = Cardinality(A) + Cardinality(B) - Cardinality(A \cap B)
  BY <1>4, FS_Union
<1> HIDE DEF A, B
<1>9. Cardinality(A \cup B) = Cardinality(A) + Need[f]
  BY <1>1, <1>4, <1>7, <1>8
<1> QED  BY <1>5, <1>7, <1>8, <1>9, Zenon DEF A

\* A future that leaves H takes as many with it.
LEMMA PermitsShrink ==
  ASSUME NEW H, NEW f \in Futures, f \in H, IsFiniteSet(PermitsOf(H))
  PROVE  /\ IsFiniteSet(PermitsOf(H \ {f}))
         /\ Cardinality(PermitsOf(H \ {f})) \in Nat
         /\ Cardinality(PermitsOf(H)) = Cardinality(PermitsOf(H \ {f})) + Need[f]
<1>1. PermitsOf(H \ {f}) \in SUBSET PermitsOf(H)
  BY DEF PermitsOf
<1>2. IsFiniteSet(PermitsOf(H \ {f}))
  BY <1>1, FS_Subset, Zenon
<1>3. (H \ {f}) \cup {f} = H /\ f \notin H \ {f}
  OBVIOUS
<1>4. /\ Cardinality(PermitsOf((H \ {f}) \cup {f})) = Cardinality(PermitsOf(H \ {f})) + Need[f]
      /\ Cardinality(PermitsOf(H \ {f})) \in Nat
  BY <1>2, <1>3, PermitsGrow
<1> QED  BY <1>2, <1>3, <1>4

\* Core, and the books: what is free and what is handed out add up.
Books ==
  /\ Core /\ total \in 0 .. MaxPermits
  /\ IsFiniteSet(Out) /\ permits + Cardinality(Out) = total

\* The bounds of TypeOK follow from the books.
LEMMA BooksImply == Books => PermitsConserved
<1> SUFFICES ASSUME Books PROVE PermitsConserved
  OBVIOUS
<1>1. Cardinality(Out) \in Nat
  BY FS_CardinalityType DEF Books
<1>2. permits \in 0 .. MaxPermits
  BY <1>1, SemaphoreAssumption DEF Books, Core, Types
<1> QED  BY <1>2 DEF Books, Core, Types, Frames, TypeOK, PermitsConserved

\* A future gets its permits: from the free ones, one status change.
LEMMA BooksGrow ==
  ASSUME Books, Core', UNCHANGED total, NEW f \in Futures, f \notin Holders,
         permits' = permits - Need[f], Holders' = Holders \cup {f}
  PROVE  Books'
<1>1. Out = PermitsOf(Holders) /\ Out' = PermitsOf(Holders \cup {f})
  BY DEF Out, PermitsOf
<1>2. /\ IsFiniteSet(Out') /\ Cardinality(Out) \in Nat
      /\ Cardinality(Out') = Cardinality(Out) + Need[f]
  BY <1>1, PermitsGrow DEF Books
<1>3. permits \in Nat /\ Need[f] \in Nat
  BY SemaphoreAssumption DEF Books, Core, Types
<1>4. permits' + Cardinality(Out') = total'
  BY <1>2, <1>3 DEF Books
<1> QED  BY <1>2, <1>4 DEF Books

\* A future gives its permits up, to be free again or to leave circulation.
LEMMA BooksShrink ==
  ASSUME Books, Core', NEW f \in Futures, f \in Holders, Holders' = Holders \ {f},
         \/ permits' = permits + Need[f] /\ total' = total
         \/ permits' = permits /\ total' = total - Need[f]
  PROVE  Books'
<1>1. Out = PermitsOf(Holders) /\ Out' = PermitsOf(Holders \ {f})
  BY DEF Out, PermitsOf
<1>2. /\ IsFiniteSet(Out') /\ Cardinality(Out') \in Nat
      /\ Cardinality(Out) = Cardinality(Out') + Need[f]
  BY <1>1, PermitsShrink, Zenon DEF Books
<1>3. permits \in Nat /\ Need[f] \in Nat /\ MaxPermits \in Nat /\ total \in 0 .. MaxPermits
  BY SemaphoreAssumption DEF Books, Core, Types
<1>4. permits' + Cardinality(Out') = total' /\ total' \in 0 .. MaxPermits
  BY <1>2, <1>3 DEF Books
<1> QED  BY <1>2, <1>4 DEF Books

\* Nobody gets or gives up permits.
LEMMA BooksSame ==
  ASSUME Books, Core', Holders' = Holders, UNCHANGED <<permits, total>>
  PROVE  Books'
<1>1. Out' = Out
  BY DEF Out
<1> QED  BY <1>1 DEF Books

\* A call that is not in progress for f changes the status of f only.
LEMMA StatusKeepsCalls ==
  ASSUME Core, UNCHANGED stack, NEW f \in Futures, ~InCall(stack, f),
         \A g \in Futures : g # f => status'[g] = status[g]
  PROVE  CallInv'
<1>1. CallInv /\ status \in [Futures -> {"new", "waiting", "granted", "held"}]
  BY DEF Core, Types
<1> QED  BY <1>1, CallInvStep

\* A future that holds a permit has no call in progress.
LEMMA HeldNotInCall ==
  ASSUME Core, NEW f \in Futures, status[f] = "held"
  PROVE  ~InCall(stack, f)
<1> SUFFICES ASSUME InCall(stack, f) PROVE FALSE
  OBVIOUS
<1>1. PICK i \in DOMAIN stack : stack[i].fut = f
  BY DEF InCall
<1>2. stack[i] \in Frames
  BY <1>1 DEF Core, Types
<1>3. stack[i] = Frame(stack[i].op, f)
  BY <1>1, <1>2 DEF Frames, Frame
<1>4. Pending(stack, Frame(stack[i].op, f))
  BY <1>3 DEF Pending
<1>5. stack[i].op \in {"clone", "recheck", "cascade", "return", "cancel"}
  BY <1>2 DEF Frames
<1> QED  BY <1>4, <1>5 DEF Core, CallInv

\* Every step keeps the books, with wakers that change or not.
LEMMA StepKeepsBooks ==
  ASSUME Books, [Next]_vars
  PROVE  Books'
<1> USE SemaphoreAssumption
<1>0. Core /\ Types
  BY DEF Books, Core
<1>1. ASSUME NEW f \in Futures, NEW same \in BOOLEAN,
             \/ Poll(f, same) \/ Register(f) \/ Recheck(f) \/ Cascade(f)
             \/ Cancel(f) \/ CancelWake(f)
      PROVE  Books'
  <2>1. Core' /\ UNCHANGED total /\ (Takes(f) \/ NoneTaken(f))
    BY <1>0, <1>1, AcquireSteps
  <2>2. CASE Takes(f)
    <3>1. f \notin Holders /\ Holders' = Holders \cup {f} /\ permits' = permits - Need[f]
      BY <1>0, <2>2 DEF Takes, Holders, Types
    <3> QED  BY <2>1, <3>1, BooksGrow
  <2>3. CASE NoneTaken(f)
    <3>1. Holders' = Holders /\ UNCHANGED permits
      BY <1>0, <2>3 DEF NoneTaken, Holders, Types
    <3> QED  BY <2>1, <3>1, BooksSame
  <2> QED  BY <2>1, <2>2, <2>3
<1>2. ASSUME NEW f \in Futures, TryAcquire(f) PROVE Books'
  <2>1. /\ status[f] = "new" /\ ~InCall(stack, f) /\ status' = [status EXCEPT ![f] = "held"]
        /\ permits' = permits - Need[f] /\ permits >= Need[f]
        /\ UNCHANGED <<queue, woken, stack, total, line>>
    BY <1>2 DEF TryAcquire, SetStatus
  <2>2. \A g \in Futures : g # f => status'[g] = status[g]
    BY <1>0, <2>1 DEF Types
  <2>3. CallInv'
    BY <1>0, <2>1, <2>2, StatusKeepsCalls
  <2>4. permits' \in Nat
    BY <1>0, <2>1 DEF Types
  <2>5. Core'
    BY <1>0, <2>1, <2>3, <2>4 DEF Core, Types
  <2>6. f \notin Holders /\ Holders' = Holders \cup {f}
    BY <1>0, <2>1 DEF Holders, Types
  <2> QED  BY <2>1, <2>5, <2>6, BooksGrow
<1>3. ASSUME NEW f \in Futures, Release(f) \/ Forget(f) PROVE Books'
  <2>1. /\ status[f] = "held" /\ status' = [status EXCEPT ![f] = "new"]
        /\ UNCHANGED <<queue, stack, line>>
    BY <1>3 DEF Release, Forget, SetStatus
  <2>2. \/ permits' = permits + Need[f] /\ total' = total
        \/ permits' = permits /\ total' = total - Need[f]
    BY <1>3 DEF Release, Forget
  <2>3. ~InCall(stack, f) /\ \A g \in Futures : g # f => status'[g] = status[g]
    BY <1>0, <2>1, HeldNotInCall DEF Types
  <2>4. CallInv'
    BY <1>0, <2>1, <2>3, StatusKeepsCalls
  <2>5. permits' \in Nat
    BY <1>0, <2>2 DEF Types
  <2>6. woken' \subseteq Futures
    BY <1>0, <1>3, WakeNextType, Zenon DEF Core, Types, Release, Forget
  <2>7. Core'
    BY <1>0, <2>1, <2>4, <2>5, <2>6 DEF Core, Types
  <2>8. f \in Holders /\ Holders' = Holders \ {f}
    BY <1>0, <2>1 DEF Holders, Types
  <2> QED  BY <2>2, <2>7, <2>8, BooksShrink
<1>4. ASSUME NEW f \in Futures, Return(f) PROVE Books'
  <2>1. /\ Suspended(stack, "return", f) /\ stack' = Tail(stack)
        /\ status' = [status EXCEPT ![f] = "held"]
        /\ UNCHANGED <<permits, queue, woken, total, line>>
    BY <1>4 DEF Return, SetStatus
  <2>2. \A g \in Futures : g # f => status'[g] = status[g]
    BY <1>0, <2>1 DEF Types
  <2>3. stack' \in Seq(Frames) /\ OneCallEach(stack', Futures) /\ CallInv'
    BY <1>0, <2>1, <2>2, LeaveKeepsCalls
  <2>4. Core'
    BY <1>0, <2>1, <2>3 DEF Core, Types
  <2>5. status[f] = "granted"
    BY <1>0, <2>1, Left DEF Core, CallInv
  <2>6. Holders' = Holders
    BY <1>0, <2>1, <2>5 DEF Holders, Types
  <2> QED  BY <2>1, <2>4, <2>6, BooksSame
<1>5. ASSUME NEW n \in 1 .. MaxPermits, AddPermits(n) PROVE Books'
  <2>1. /\ total + n <= MaxPermits /\ total' = total + n /\ permits' = permits + n
        /\ UNCHANGED <<queue, status, stack, line>>
    BY <1>5 DEF AddPermits
  <2>2. woken' \subseteq Futures
    BY <1>0, <1>5, WakeNextType, ZenonT(40) DEF Core, Types, AddPermits
  <2>3. Core'
    BY <1>0, <2>1, <2>2 DEF Core, Types, CallInv
  <2>4. Out' = Out
    BY <2>1 DEF Out, Holders
  <2>5. Cardinality(Out) \in Nat
    BY FS_CardinalityType DEF Books
  <2>6. permits' + Cardinality(Out) = total' /\ total' \in 0 .. MaxPermits
    <3>1. /\ permits \in Nat /\ total \in Nat /\ MaxPermits \in Nat /\ n \in Nat
          /\ permits + Cardinality(Out) = total
      BY <1>0 DEF Books, Types
    <3> QED  BY <2>1, <2>5, <3>1
  <2> QED  BY <2>3, <2>4, <2>6 DEF Books
<1>6. CASE UNCHANGED vars
  <2>1. Core'
    BY <1>0, <1>6 DEF vars, Core, Types, CallInv
  <2> QED  BY <1>6, <2>1, BooksSame DEF vars, Holders
<1>7. \A same \in {TRUE, ~WakerChanges} : same \in BOOLEAN
  BY Zenon
<1>8. TRUE \in BOOLEAN
  OBVIOUS
<1> QED  BY <1>1, <1>2, <1>3, <1>4, <1>5, <1>6, <1>7, <1>8, ZenonT(40) DEF Next, GoOn

\* No permit is lost, duplicated or handed out twice, whatever polls, cancels and
\* releases re-enter from wakers, and whether a future's waker changes or not.
THEOREM PermitsAddUp == Spec => []PermitsConserved
<1>1. Init => Books
  <2> SUFFICES ASSUME Init PROVE Books
    OBVIOUS
  <2>1. Inv /\ woken = {} /\ line = <<>>
    BY InitInv DEF Init
  <2>2. \A fr : ~Pending(stack, fr)
    BY DEF Init, Pending
  <2>3. Core
    <3>1. CallInv
      BY <2>2, Zenon DEF CallInv
    <3>2. line \in Seq(Futures) /\ Distinct(line) /\ woken \subseteq Futures
      BY <2>1 DEF Inv, Types
    <3> QED  BY <2>1, <3>1, <3>2 DEF Inv, Core
  <2>4. Holders = {}
    BY DEF Init, Holders
  <2>5. Out = {}
    BY <2>4 DEF Out
  <2> QED  BY <2>3, <2>5, FS_EmptySet, SemaphoreAssumption DEF Books, Init
<1> QED  BY <1>1, StepKeepsBooks, BooksImply, PTL DEF Spec

-----------------------------------------------------------------------------
(* The pool. *)

\* One free buffer for each permit that is free or granted; a future has a buffer
\* while its status is "held".
PoolBooks ==
  /\ Core
  /\ free \in Seq(Buffers) /\ buffer \in [Futures -> Buffers \cup {NoBuffer}]
  /\ panicked = FALSE
  /\ IsFiniteSet(Granted)
  /\ Len(free) = permits + Cardinality(Granted) /\ total = Len(free)
  /\ \A f \in Futures : status[f] = "held" <=> buffer[f] # NoBuffer
  /\ BuffersConserved

\* A stack without duplicates is no longer than there are buffers.
LEMMA FreeFits ==
  ASSUME NEW s \in Seq(Buffers), \A i, j \in DOMAIN s : s[i] = s[j] => i = j
  PROVE  Len(s) <= Cardinality(Buffers)
<1>1. Len(s) \in Nat /\ DOMAIN s = 1 .. Len(s) /\ s \in [1 .. Len(s) -> Buffers]
  OBVIOUS
<1>2. s \in Injection(1 .. Len(s), Buffers)
  BY <1>1 DEF Injection, IsInjective
<1>3. Cardinality(1 .. Len(s)) <= Cardinality(Buffers)
  BY <1>2, FS_Injection, PoolAssumption
<1>4. Cardinality(1 .. Len(s)) = Len(s)
  <2>1. 1 \in Int /\ Len(s) \in Int
    BY <1>1
  <2>2. Cardinality(1 .. Len(s)) = IF 1 > Len(s) THEN 0 ELSE Len(s) - 1 + 1
    BY <2>1, FS_Interval
  <2> QED  BY <1>1, <2>2
<1> QED  BY <1>3, <1>4

\* The books imply both properties of the pool.
LEMMA PoolBooksImply == PoolBooks => PermitImpliesBuffer /\ BuffersConserved
<1> SUFFICES ASSUME PoolBooks PROVE PermitImpliesBuffer
  BY Zenon DEF PoolBooks
<1>1. Len(free) <= MaxPermits /\ MaxPermits \in Nat
  BY FreeFits, PoolAssumption, SemaphoreAssumption DEF PoolBooks, BuffersConserved
<1>2. Cardinality(Granted) \in Nat /\ Len(free) \in Nat /\ permits \in Nat
  BY FS_CardinalityType DEF PoolBooks, Core, Types
<1>3. Len(free) = permits + Cardinality(Granted) /\ total = Len(free)
  BY DEF PoolBooks
<1>4. permits \in 0 .. MaxPermits /\ total \in 0 .. MaxPermits
  BY <1>1, <1>2, <1>3
<1>5. TypeOK
  BY <1>4 DEF PoolBooks, Core, Types, Frames, TypeOK
<1> QED  BY <1>5, Zenon DEF PoolBooks, PoolTypeOK, PermitImpliesBuffer

\* check_out of a stack that is not empty moves its last buffer to f.
LEMMA Popped ==
  ASSUME PoolBooks, NEW f \in Futures, buffer[f] = NoBuffer, PopBuffer(f), Len(free) > 0
  PROVE  /\ free' \in Seq(Buffers) /\ Len(free') = Len(free) - 1
         /\ buffer' \in [Futures -> Buffers \cup {NoBuffer}] /\ panicked' = FALSE
         /\ buffer'[f] # NoBuffer /\ \A g \in Futures : g # f => buffer'[g] = buffer[g]
         /\ BuffersConserved'
<1> DEFINE n == Len(free)
<1>1. /\ free \in Seq(Buffers) /\ n \in Nat /\ n > 0 /\ DOMAIN free = 1 .. n
      /\ \A i \in 1 .. n : free[i] \in Buffers
      /\ buffer \in [Futures -> Buffers \cup {NoBuffer}]
  BY DEF PoolBooks
<1>2. free # <<>>
  BY <1>1
<1>3. /\ buffer' = [buffer EXCEPT ![f] = free[n]] /\ panicked' = FALSE
      /\ free' = SubSeq(free, 1, n - 1)
  BY <1>2, Zenon DEF PopBuffer, PoolBooks
<1>4. /\ free' \in Seq(Buffers) /\ Len(free') = n - 1 /\ DOMAIN free' = 1 .. n - 1
      /\ \A i \in 1 .. n - 1 : free'[i] = free[i]
  BY <1>1, <1>3
<1> HIDE DEF n
<1>5. free[n] \in Buffers /\ free[n] # NoBuffer /\ n \in DOMAIN free
  BY <1>1, PoolAssumption
<1>6. /\ buffer' \in [Futures -> Buffers \cup {NoBuffer}]
      /\ buffer'[f] = free[n] /\ \A g \in Futures : g # f => buffer'[g] = buffer[g]
  BY <1>1, <1>3, <1>5
<1>7. /\ \A b \in Buffers : Queued(free, b) \/ \E g \in Futures : buffer[g] = b
      /\ \A i, j \in DOMAIN free : free[i] = free[j] => i = j
      /\ \A g \in Futures : buffer[g] # NoBuffer =>
           /\ ~Queued(free, buffer[g])
           /\ \A h \in Futures \ {g} : buffer[h] # buffer[g]
  BY DEF PoolBooks, BuffersConserved
<1>8. \A b : Queued(free', b) <=> Queued(free, b) /\ b # free[n]
  <2>1. ASSUME NEW b, Queued(free', b) PROVE Queued(free, b) /\ b # free[n]
    <3>1. PICK i \in 1 .. n - 1 : free'[i] = b
      BY <1>4, <2>1 DEF Queued
    <3>2. i \in DOMAIN free /\ free[i] = b /\ i # n
      BY <1>1, <1>4, <3>1
    <3> QED  BY <1>5, <1>7, <3>2 DEF Queued
  <2>2. ASSUME NEW b, Queued(free, b), b # free[n] PROVE Queued(free', b)
    <3>1. PICK i \in 1 .. n : free[i] = b
      BY <1>1, <2>2 DEF Queued
    <3>2. i \in 1 .. n - 1
      BY <1>1, <2>2, <3>1
    <3> QED  BY <1>4, <3>1, <3>2 DEF Queued
  <2> QED  BY <2>1, <2>2
<1>9. BuffersConserved'
  <2>1. ASSUME NEW b \in Buffers PROVE Queued(free', b) \/ \E g \in Futures : buffer'[g] = b
    <3>1. CASE b = free[n]
      BY <1>6, <3>1
    <3>2. CASE b # free[n] /\ Queued(free, b)
      BY <1>8, <3>2
    <3>3. ASSUME NEW g \in Futures, buffer[g] = b PROVE \E h \in Futures : buffer'[h] = b
      <4>1. g # f
        BY <3>3, PoolAssumption
      <4> QED  BY <1>6, <3>3, <4>1
    <3> QED  BY ONLY <1>7, <2>1, <3>1, <3>2, <3>3, ZenonT(40)
  <2>2. \A i, j \in DOMAIN free' : free'[i] = free'[j] => i = j
    BY ONLY <1>1, <1>4, <1>7
  <2>3. ASSUME NEW g \in Futures, buffer'[g] # NoBuffer
        PROVE  /\ ~Queued(free', buffer'[g])
               /\ \A h \in Futures \ {g} : buffer'[h] # buffer'[g]
    <3>1. \A h \in Futures : h # f /\ buffer[h] # NoBuffer => buffer[h] # free[n]
      BY <1>5, <1>7 DEF Queued
    <3>2. CASE g = f
      BY ONLY <1>5, <1>6, <1>8, <3>1, <3>2, SMTT(30)
    <3>3. CASE g # f
      BY ONLY <1>5, <1>6, <1>7, <1>8, <2>3, <3>1, <3>3, SMTT(30)
    <3> QED  BY <3>2, <3>3
  <2> QED  BY <2>1, <2>2, <2>3 DEF BuffersConserved
<1> QED  BY <1>3, <1>4, <1>5, <1>6, <1>9 DEF n

\* PooledBuffer::drop moves the buffer of f back to the end of the stack.
LEMMA Pushed ==
  ASSUME PoolBooks, NEW f \in Futures, buffer[f] # NoBuffer,
         free' = Append(free, buffer[f]), buffer' = [buffer EXCEPT ![f] = NoBuffer]
  PROVE  /\ free' \in Seq(Buffers) /\ Len(free') = Len(free) + 1
         /\ buffer' \in [Futures -> Buffers \cup {NoBuffer}]
         /\ buffer'[f] = NoBuffer /\ \A g \in Futures : g # f => buffer'[g] = buffer[g]
         /\ BuffersConserved'
<1> DEFINE n == Len(free)
<1>1. /\ free \in Seq(Buffers) /\ n \in Nat /\ DOMAIN free = 1 .. n
      /\ buffer \in [Futures -> Buffers \cup {NoBuffer}] /\ buffer[f] \in Buffers
  BY DEF PoolBooks
<1>2. /\ free' \in Seq(Buffers) /\ Len(free') = n + 1 /\ DOMAIN free' = 1 .. n + 1
      /\ free'[n + 1] = buffer[f] /\ \A i \in 1 .. n : free'[i] = free[i]
  BY <1>1
<1> HIDE DEF n
<1>3. /\ buffer' \in [Futures -> Buffers \cup {NoBuffer}]
      /\ buffer'[f] = NoBuffer /\ \A g \in Futures : g # f => buffer'[g] = buffer[g]
  BY <1>1
<1>4. /\ \A b \in Buffers : Queued(free, b) \/ \E g \in Futures : buffer[g] = b
      /\ \A i, j \in DOMAIN free : free[i] = free[j] => i = j
      /\ \A g \in Futures : buffer[g] # NoBuffer =>
           /\ ~Queued(free, buffer[g])
           /\ \A h \in Futures \ {g} : buffer[h] # buffer[g]
  BY DEF PoolBooks, BuffersConserved
<1>5. \A b : Queued(free', b) <=> Queued(free, b) \/ b = buffer[f]
  BY <1>1, <1>2 DEF Queued
<1>6. \A i \in DOMAIN free : free[i] # buffer[f]
  BY <1>4 DEF Queued
<1>7. \A i, j \in DOMAIN free' : free'[i] = free'[j] => i = j
  BY <1>1, <1>2, <1>4, <1>6
<1>8. \A b \in Buffers : Queued(free', b) \/ \E g \in Futures : buffer'[g] = b
  BY <1>3, <1>4, <1>5, SMTT(30)
<1>9. \A g \in Futures : buffer'[g] # NoBuffer =>
           /\ ~Queued(free', buffer'[g])
           /\ \A h \in Futures \ {g} : buffer'[h] # buffer'[g]
  BY <1>3, <1>4, <1>5
<1>10. BuffersConserved'
  BY <1>7, <1>8, <1>9 DEF BuffersConserved
<1> QED  BY <1>2, <1>3, <1>10 DEF n

\* Granting a permit adds f to Granted.
LEMMA GrantedGrows ==
  ASSUME PoolBooks, NEW f \in Futures, f \notin Granted, Granted' = Granted \cup {f}
  PROVE  IsFiniteSet(Granted)' /\ Cardinality(Granted)' = Cardinality(Granted) + 1
BY FS_AddElement DEF PoolBooks

\* Checking out removes it; there was at least one.
LEMMA GrantedShrinks ==
  ASSUME PoolBooks, NEW f \in Futures, f \in Granted, Granted' = Granted \ {f}
  PROVE  /\ IsFiniteSet(Granted)' /\ Cardinality(Granted)' = Cardinality(Granted) - 1
         /\ Cardinality(Granted) > 0
<1>1. /\ IsFiniteSet(Granted) /\ Cardinality(Granted) \in Nat
      /\ Cardinality(Granted \ {f}) = Cardinality(Granted) - 1
  BY FS_RemoveElement, FS_CardinalityType DEF PoolBooks
<1>2. Cardinality(Granted \ {f}) \in Nat /\ IsFiniteSet(Granted \ {f})
  BY <1>1, FS_RemoveElement, FS_CardinalityType
<1> QED  BY <1>1, <1>2

\* Every step of the pool keeps the books.
LEMMA StepKeepsPoolBooks ==
  ASSUME PoolBooks, [PoolNext]_poolVars
  PROVE  PoolBooks'
<1> USE PoolAssumption
<1>0. /\ Core /\ Types /\ free \in Seq(Buffers)
      /\ buffer \in [Futures -> Buffers \cup {NoBuffer}]
      /\ panicked = FALSE
      /\ \A f \in Futures : status[f] = "held" <=> buffer[f] # NoBuffer
      /\ IsFiniteSet(Granted)
  BY DEF PoolBooks, Core
<1>n. /\ permits \in Nat /\ Len(free) \in Nat /\ Cardinality(Granted) \in Nat
      /\ Len(free) = permits + Cardinality(Granted) /\ total = Len(free)
  BY FS_CardinalityType DEF PoolBooks, Core, Types
<1>1. ASSUME NEW f \in Futures, AcquireStep(f) PROVE PoolBooks'
  <2>1. PICK same \in BOOLEAN : \/ Poll(f, same) \/ Register(f) \/ Recheck(f) \/ Cascade(f)
                                \/ Cancel(f) \/ CancelWake(f)
    BY <1>1, ZenonT(40) DEF AcquireStep
  <2>2. Core' /\ UNCHANGED total /\ (Takes(f) \/ NoneTaken(f))
    BY <1>0, <2>1, AcquireSteps
  <2>3. UNCHANGED <<free, buffer, panicked>>
    BY ONLY <1>1, Zenon DEF AcquireStep
  <2>4. BuffersConserved'
    BY ONLY PoolBooks, <2>3, Zenon DEF PoolBooks, BuffersConserved
  <2>5. CASE Takes(f)
    <3>1. /\ f \notin Granted /\ Granted' = Granted \cup {f}
          /\ \A g \in Futures : (status'[g] = "held") <=> (status[g] = "held")
      BY <1>0, <2>5 DEF Takes, Granted, Types
    <3>2. IsFiniteSet(Granted)' /\ Cardinality(Granted)' = Cardinality(Granted) + 1
      BY <3>1, GrantedGrows
    <3>3. permits' = permits - 1
      BY <2>5 DEF Takes
    <3>4. Len(free)' = permits' + Cardinality(Granted)' /\ total' = Len(free)'
      BY ONLY <1>n, <2>2, <2>3, <3>2, <3>3
    <3>5. \A g \in Futures : (status'[g] = "held") <=> (buffer'[g] # NoBuffer)
      BY ONLY <1>0, <2>3, <3>1, Zenon
    <3> QED  BY ONLY <1>0, <2>2, <2>3, <2>4, <3>2, <3>4, <3>5, ZenonT(40) DEF PoolBooks
  <2>6. CASE NoneTaken(f)
    <3>1. /\ Granted' = Granted /\ UNCHANGED permits
          /\ \A g \in Futures : (status'[g] = "held") <=> (status[g] = "held")
      BY ONLY <1>0, <1>1, <2>6 DEF NoneTaken, Granted, Types
    <3>2. \A g \in Futures : (status'[g] = "held") <=> (buffer'[g] # NoBuffer)
      BY ONLY <1>0, <2>3, <3>1, ZenonT(40)
    <3>3. /\ Len(free)' = permits' + Cardinality(Granted)' /\ total' = Len(free)'
          /\ IsFiniteSet(Granted)'
      BY ONLY <1>0, <1>n, <2>2, <2>3, <3>1, ZenonT(40)
    <3> QED  BY ONLY <1>0, <2>2, <2>3, <2>4, <3>2, <3>3, ZenonT(40) DEF PoolBooks
  <2> QED  BY <2>2, <2>5, <2>6
<1>2. ASSUME NEW f \in Futures, PoolTryAcquire(f) PROVE PoolBooks'
  <2>1. /\ status[f] = "new" /\ ~InCall(stack, f) /\ status' = [status EXCEPT ![f] = "held"]
        /\ permits' = permits - 1 /\ permits >= 1 /\ total' = total - 1
        /\ UNCHANGED <<queue, woken, stack, line>> /\ PopBuffer(f)
    BY <1>2 DEF PoolTryAcquire, SetStatus
  <2>2. status'[f] = "held" /\ \A g \in Futures : g # f => status'[g] = status[g]
    BY <1>0, <2>1, SMTT(30) DEF Types
  <2>3. CallInv'
    BY <1>0, <2>1, <2>2, StatusKeepsCalls, SMTT(30)
  <2>4. permits' \in Nat
    BY ONLY <1>n, <2>1
  <2>5. Core'
    BY ONLY <1>0, <1>2, <2>1, <2>3, <2>4, SMTT(30) DEF Core, Types
  <2>6. Granted' = Granted
    BY <1>0, <2>1, <2>2, SMTT(30) DEF Granted
  <2>7. buffer[f] = NoBuffer /\ Len(free) > 0
    BY <1>0, <1>n, <2>1
  <2>8. /\ free' \in Seq(Buffers) /\ Len(free') = Len(free) - 1
        /\ buffer' \in [Futures -> Buffers \cup {NoBuffer}] /\ panicked' = FALSE
        /\ buffer'[f] # NoBuffer /\ \A g \in Futures : g # f => buffer'[g] = buffer[g]
        /\ BuffersConserved'
    BY <2>1, <2>7, Popped, ZenonT(40)
  <2>9. Len(free') = permits' + Cardinality(Granted)' /\ total' = Len(free')
    BY ONLY <1>n, <2>1, <2>6, <2>8, SMTT(30)
  <2>10. \A g \in Futures : status'[g] = "held" <=> buffer'[g] # NoBuffer
    BY ONLY <1>0, <2>2, <2>8
  <2>11. IsFiniteSet(Granted)'
    BY ONLY <1>0, <2>6, Zenon
  <2> QED  BY ONLY <2>5, <2>8, <2>9, <2>10, <2>11, ZenonT(40) DEF PoolBooks
<1>3. ASSUME NEW f \in Futures, CheckOut(f) PROVE PoolBooks'
  <2>1. /\ Suspended(stack, "return", f) /\ stack' = Tail(stack)
        /\ status' = [status EXCEPT ![f] = "held"] /\ total' = total - 1
        /\ UNCHANGED <<permits, queue, woken, line>> /\ PopBuffer(f)
    BY <1>3 DEF CheckOut, SetStatus
  <2>2. status'[f] = "held" /\ \A g \in Futures : g # f => status'[g] = status[g]
    BY <1>0, <2>1, SMTT(30) DEF Types
  <2>3. stack' \in Seq(Frames) /\ OneCallEach(stack', Futures) /\ CallInv'
    BY <1>0, <2>1, <2>2, LeaveKeepsCalls, SMTT(30)
  <2>4. Core'
    BY ONLY <1>0, <1>3, <2>1, <2>3, SMTT(30) DEF Core, Types
  <2>5. status[f] = "granted"
    BY <1>0, <2>1, Left, SMTT(30) DEF Core, CallInv
  <2>6. f \in Granted /\ Granted' = Granted \ {f}
    BY <1>0, <2>2, <2>5 DEF Granted
  <2>7. /\ IsFiniteSet(Granted)' /\ Cardinality(Granted)' = Cardinality(Granted) - 1
        /\ Cardinality(Granted) > 0
    BY <2>6, GrantedShrinks
  <2>8. buffer[f] = NoBuffer /\ Len(free) > 0
    BY <1>0, <1>n, <2>5, <2>7
  <2>9. /\ free' \in Seq(Buffers) /\ Len(free') = Len(free) - 1
        /\ buffer' \in [Futures -> Buffers \cup {NoBuffer}] /\ panicked' = FALSE
        /\ buffer'[f] # NoBuffer /\ \A g \in Futures : g # f => buffer'[g] = buffer[g]
        /\ BuffersConserved'
    BY <2>1, <2>8, Popped, ZenonT(40)
  <2>10. Len(free') = permits' + Cardinality(Granted)' /\ total' = Len(free')
    BY ONLY <1>n, <2>1, <2>7, <2>9, SMTT(30)
  <2>11. \A g \in Futures : status'[g] = "held" <=> buffer'[g] # NoBuffer
    BY <1>0, <2>2, <2>9
  <2> QED  BY ONLY <2>4, <2>7, <2>9, <2>10, <2>11, ZenonT(40) DEF PoolBooks
<1>4. ASSUME NEW f \in Futures, PoolDrop(f) PROVE PoolBooks'
  <2>1. /\ status[f] = "held" /\ status' = [status EXCEPT ![f] = "new"]
        /\ free' = Append(free, buffer[f]) /\ buffer' = [buffer EXCEPT ![f] = NoBuffer]
        /\ total' = total + 1 /\ permits' = permits + 1 /\ WakeNext(permits + 1)
        /\ UNCHANGED <<queue, stack, line, panicked>>
    BY <1>4 DEF PoolDrop, SetStatus
  <2>2. status'[f] = "new" /\ \A g \in Futures : g # f => status'[g] = status[g]
    BY <1>0, <2>1, SMTT(30) DEF Types
  <2>3. CallInv'
    BY <1>0, <2>1, <2>2, HeldNotInCall, StatusKeepsCalls, SMTT(30)
  <2>4. permits' \in Nat
    BY <1>n, <2>1
  <2>5. woken' \subseteq Futures
    BY <1>0, <2>1, WakeNextType, SMTT(30) DEF Core, Types
  <2>6. Core'
    BY ONLY <1>0, <1>4, <2>1, <2>3, <2>4, <2>5, SMTT(30) DEF Core, Types
  <2>7. Granted' = Granted
    BY <1>0, <2>1, <2>2 DEF Granted
  <2>8. /\ free' \in Seq(Buffers) /\ Len(free') = Len(free) + 1
        /\ buffer' \in [Futures -> Buffers \cup {NoBuffer}]
        /\ buffer'[f] = NoBuffer /\ \A g \in Futures : g # f => buffer'[g] = buffer[g]
        /\ BuffersConserved'
    BY <1>0, <2>1, Pushed, ZenonT(40)
  <2>9. Len(free') = permits' + Cardinality(Granted)' /\ total' = Len(free')
    BY ONLY <1>n, <2>1, <2>7, <2>8, SMTT(30)
  <2>10. \A g \in Futures : status'[g] = "held" <=> buffer'[g] # NoBuffer
    BY <1>0, <2>2, <2>8
  <2>11. IsFiniteSet(Granted)' /\ panicked' = FALSE
    BY ONLY <1>0, <2>1, <2>7, Zenon
  <2> QED  BY ONLY <2>6, <2>8, <2>9, <2>10, <2>11, ZenonT(40) DEF PoolBooks
<1>5. CASE UNCHANGED poolVars
  <2>1. Core'
    BY <1>0, <1>5 DEF poolVars, vars, Core, Types, CallInv
  <2> QED  BY <1>5, <2>1, ZenonT(40) DEF poolVars, vars, PoolBooks, Granted, BuffersConserved
<1> QED  BY ONLY [PoolNext]_poolVars, <1>1, <1>2, <1>3, <1>4, <1>5, ZenonT(40) DEF PoolNext

\* The pool as built: every buffer is free, once.
LEMMA PoolInitBooks == PoolInit => PoolBooks
<1> USE PoolAssumption
<1> SUFFICES ASSUME PoolInit PROVE PoolBooks
  OBVIOUS
<1>1. /\ Init /\ free \in [1 .. Initial -> Buffers] /\ \A b \in Buffers : Queued(free, b)
      /\ buffer = [f \in Futures |-> NoBuffer] /\ panicked = FALSE
  BY DEF PoolInit
<1>2. Initial \in Nat
  BY SemaphoreAssumption
<1>3. free \in Seq(Buffers) /\ Len(free) = Initial /\ DOMAIN free = 1 .. Initial
  BY <1>1, <1>2
<1>4. Core
  <2>1. Inv /\ woken = {} /\ line = <<>>
    BY <1>1, InitInv DEF Init
  <2>2. \A fr : ~Pending(stack, fr)
    BY <1>1 DEF Init, Pending
  <2>3. CallInv
    BY <2>2, Zenon DEF CallInv
  <2>4. line \in Seq(Futures) /\ Distinct(line) /\ woken \subseteq Futures
    BY <2>1 DEF Inv, Types
  <2> QED  BY <2>1, <2>3, <2>4 DEF Inv, Core
<1>5. \A i, j \in DOMAIN free : free[i] = free[j] => i = j
  <2>1. free \in Surjection(1 .. Initial, Buffers)
    BY <1>1, <1>3 DEF Surjection, Queued
  <2>2. IsFiniteSet(1 .. Initial) /\ Cardinality(1 .. Initial) = Cardinality(Buffers)
    <3>1. 1 \in Int /\ Initial \in Int
      BY <1>2
    <3>2. /\ IsFiniteSet(1 .. Initial)
          /\ Cardinality(1 .. Initial) = IF 1 > Initial THEN 0 ELSE Initial - 1 + 1
      BY <3>1, FS_Interval, Zenon
    <3> QED  BY <1>2, <3>2
  <2>3. free \in Injection(1 .. Initial, Buffers)
    BY <2>1, <2>2, FS_SurjSameCardinalityImpliesInj
  <2> QED  BY <1>3, <2>3 DEF Injection, IsInjective
<1>6. BuffersConserved
  BY <1>1, <1>5 DEF BuffersConserved
<1>7. Granted = {}
  BY <1>1 DEF Init, Granted
<1>8. \A f \in Futures : status[f] = "held" <=> buffer[f] # NoBuffer
  BY <1>1 DEF Init
<1> QED  BY <1>1, <1>2, <1>3, <1>4, <1>6, <1>7, <1>8, FS_EmptySet, SMTT(30) DEF PoolBooks, Init

\* The expect of check_out never fires: a permit, free or granted, stands for a
\* free buffer, also while other tasks run between the grant and the pop.
THEOREM PermitsAreBuffers == PoolSpec => []PermitImpliesBuffer
BY PoolInitBooks, StepKeepsPoolBooks, PoolBooksImply, PTL DEF PoolSpec

\* No buffer is lost and none is lent to two borrowers.
THEOREM EachBufferInOnePlace == PoolSpec => []BuffersConserved
BY PoolInitBooks, StepKeepsPoolBooks, PoolBooksImply, PTL DEF PoolSpec
=============================================================================
