----------------------------- MODULE RwLockProofs -----------------------------
(***************************************************************************)
(* Proofs about module RwLock, for any finite sets of readers and writers  *)
(* and any depth of callbacks: a writer's guard excludes the others, the   *)
(* queues hold live futures only, and a free lock never leaves a queue     *)
(* without an heir that can empty it.                                      *)
(***************************************************************************)
EXTENDS RwLock, WaiterProofs, FiniteSetTheorems

Statuses == {"new", "waiting", "held"}

Frames == [op : {"clone", "recheck", "cancel", "readers"}, fut : Futures \cup {WakeLoop}]

\* f has a call in the stack s that goes on from o.
At(s, o, f) == Pending(s, Frame(o, f))

\* f is being polled and has not made its second attempt yet.
InPoll(f) == At(stack, "clone", f) \/ At(stack, "recheck", f)

Types ==
  /\ readers \in Nat /\ writer \in BOOLEAN
  /\ rq \in Seq(Readers) /\ wq \in Seq(Writers)
  /\ status \in [Futures -> Statuses]
  /\ woken \in SUBSET Futures
  /\ stack \in Seq(Frames)

\* The two fields count the guards, and a writer's guard is alone.
CountInv ==
  /\ readers = Cardinality(Held(Readers))
  /\ writer <=> \E f \in Writers : status[f] = "held"
  /\ \A f \in Writers, g \in Futures : status[f] = "held" /\ status[g] = "held" => f = g

\* An entry's future waits or is being polled.
EntryInv ==
  /\ Distinct(rq) /\ Distinct(wq)
  /\ \A f \in Futures : Queued(rq, f) \/ Queued(wq, f) => status[f] = "waiting" \/ InPoll(f)

\* A future has one call at a time, none while it is a guard.
CallInv ==
  /\ OneCallEach(stack, Futures)
  /\ \A f \in Futures : InCall(stack, f) => status[f] # "held"
  /\ \A f \in Futures : At(stack, "cancel", f) => status[f] = "new"

\* Something will bring a writer to the lock: a woken writer, one in its poll, or the
\* drop of a future, which passes the turn on.
WriterHeir ==
  \/ \E f \in Writers : f \in woken /\ status[f] = "waiting"
  \/ \E f \in Writers : InPoll(f)
  \/ \E f \in Futures : At(stack, "cancel", f)

\* Something will bring a reader to the lock, or wake the queued ones.
ReaderHeir ==
  \/ \E f \in Futures : f \in woken /\ status[f] = "waiting"
  \/ \E f \in Futures : InPoll(f)
  \/ At(stack, "readers", WakeLoop)

\* FreeLockHasHeir, with calls in progress.
HeirInv ==
  (~writer /\ readers = 0) =>
    /\ wq # <<>> => WriterHeir
    /\ rq # <<>> => WriterHeir \/ ReaderHeir

Inv == Types /\ CountInv /\ EntryInv /\ CallInv /\ HeirInv

-----------------------------------------------------------------------------
(* The stack. *)

\* A point of a call is in the stack only if the call is.
LEMMA AtInCall == \A s, o, f : At(s, o, f) => InCall(s, f)
BY DEF At, Pending, InCall, Frame

\* The frames this module pushes.
LEMMA FrameTypes ==
  /\ \A f \in Futures : /\ Frame("clone", f) \in Frames
                        /\ Frame("recheck", f) \in Frames
                        /\ Frame("cancel", f) \in Frames
  /\ Frame("readers", WakeLoop) \in Frames
BY DEF Frames, Frame

\* A call is entered.
LEMMA CallEnters ==
  ASSUME NEW s \in Seq(Frames), OneCallEach(s, Futures), NEW o, NEW f, Frame(o, f) \in Frames,
         f \in Futures => ~InCall(s, f)
  PROVE  /\ Enter(s, o, f) \in Seq(Frames)
         /\ OneCallEach(Enter(s, o, f), Futures)
         /\ \A g : InCall(Enter(s, o, f), g) <=> InCall(s, g) \/ g = f
         /\ \A p, g : At(Enter(s, o, f), p, g) <=> At(s, p, g) \/ (p = o /\ g = f)
<1>1. /\ Enter(s, o, f) \in Seq(Frames)
      /\ \A g : InCall(Enter(s, o, f), g) <=> InCall(s, g) \/ g = f
      /\ \A fr : Pending(Enter(s, o, f), fr) <=> Pending(s, fr) \/ fr = Frame(o, f)
      /\ \A F : OneCallEach(s, F) /\ (f \in F => ~InCall(s, f))
                 => OneCallEach(Enter(s, o, f), F)
  BY EnterAdds
<1>2. OneCallEach(Enter(s, o, f), Futures)
  BY <1>1
<1>3. \A p, g : Frame(p, g) = Frame(o, f) <=> p = o /\ g = f
  BY DEF Frame
<1>4. \A p, g : At(Enter(s, o, f), p, g) <=> At(s, p, g) \/ (p = o /\ g = f)
  BY <1>1, <1>3 DEF At
<1> QED  BY <1>1, <1>2, <1>4

\* The call of a future returns.
LEMMA CallReturns ==
  ASSUME stack \in Seq(Frames), OneCallEach(stack, Futures),
         NEW o, NEW f \in Futures, Suspended(stack, o, f)
  PROVE  /\ Tail(stack) \in Seq(Frames)
         /\ OneCallEach(Tail(stack), Futures)
         /\ InCall(stack, f) /\ At(stack, o, f)
         /\ \A p : At(stack, p, f) => p = o
         /\ \A g : InCall(Tail(stack), g) <=> InCall(stack, g) /\ g # f
         /\ \A p, g : At(Tail(stack), p, g) <=> At(stack, p, g) /\ g # f
<1>1. /\ Tail(stack) \in Seq(Frames)
      /\ InCall(stack, f) /\ Pending(stack, Frame(o, f))
      /\ OneCallEach(Tail(stack), Futures)
      /\ \A g : InCall(Tail(stack), g) <=> InCall(stack, g) /\ g # f
      /\ \A fr : Pending(Tail(stack), fr) <=> Pending(stack, fr) /\ fr # Frame(o, f)
  BY FutureReturns, ZenonT(30)
<1>2. \A p, g : Frame(p, g) = Frame(o, f) <=> p = o /\ g = f
  BY DEF Frame
<1>3. ~InCall(Tail(stack), f)
  BY <1>1
<1>4. \A p : ~At(Tail(stack), p, f)
  BY <1>3, AtInCall
<1>5. \A p : At(stack, p, f) => p = o
  BY <1>1, <1>2, <1>4 DEF At
<1>6. \A p, g : At(Tail(stack), p, g) <=> At(stack, p, g) /\ g # f
  BY <1>1, <1>2, <1>4 DEF At
<1>7. At(stack, o, f)
  BY <1>1 DEF At
<1> QED  BY <1>1, <1>5, <1>6, <1>7

\* wake_next's loop ends.
LEMMA LoopReturns ==
  ASSUME stack \in Seq(Frames), OneCallEach(stack, Futures),
         Suspended(stack, "readers", WakeLoop)
  PROVE  /\ Tail(stack) \in Seq(Frames)
         /\ OneCallEach(Tail(stack), Futures)
         /\ \A g \in Futures : InCall(Tail(stack), g) <=> InCall(stack, g)
         /\ \A p : \A g \in Futures : At(Tail(stack), p, g) <=> At(stack, p, g)
<1>1. /\ Tail(stack) \in Seq(Frames)
      /\ OneCallEach(Tail(stack), Futures)
      /\ \A g : InCall(Tail(stack), g) => InCall(stack, g)
      /\ \A g : InCall(stack, g) /\ g # WakeLoop => InCall(Tail(stack), g)
      /\ \A fr : Pending(Tail(stack), fr) => Pending(stack, fr)
      /\ \A fr : Pending(stack, fr) /\ fr # Frame("readers", WakeLoop) => Pending(Tail(stack), fr)
  BY ReturnRemoves, ZenonT(30)
<1>2. \A g \in Futures : g # WakeLoop
  BY RwLockAssumption
<1>3. \A p : \A g \in Futures : Frame(p, g) # Frame("readers", WakeLoop)
  BY <1>2 DEF Frame
<1>4. \A p : \A g \in Futures : At(Tail(stack), p, g) <=> At(stack, p, g)
  BY <1>1, <1>3 DEF At
<1> QED  BY <1>1, <1>2, <1>4
-----------------------------------------------------------------------------
(* The guards. *)

\* The number of reader guards is a number, and 0 when there is none.
LEMMA HeldReaders ==
  /\ IsFiniteSet(Held(Readers)) /\ Cardinality(Held(Readers)) \in 0 .. Cardinality(Futures)
  /\ Cardinality(Futures) \in Nat
  /\ Cardinality(Held(Readers)) = 0 <=> \A f \in Readers : status[f] # "held"
<1>1. Held(Readers) \in SUBSET Futures
  BY DEF Held, Futures
<1>2. IsFiniteSet(Held(Readers)) /\ Cardinality(Held(Readers)) <= Cardinality(Futures)
  BY <1>1, FS_Subset, RwLockAssumption
<1>3. Cardinality(Held(Readers)) \in Nat /\ Cardinality(Futures) \in Nat
  BY <1>2, FS_CardinalityType, RwLockAssumption
<1>4. Cardinality(Held(Readers)) = 0 <=> Held(Readers) = {}
  BY <1>2, FS_EmptySet
<1>5. Held(Readers) = {} <=> \A f \in Readers : status[f] # "held"
  BY DEF Held
<1> QED  BY <1>2, <1>3, <1>4, <1>5

\* The lock is taken by a future that is not a guard.
LEMMA TakeCounts ==
  ASSUME Types, CountInv, NEW f \in Futures, status[f] # "held",
         ~writer, f \in Writers => readers = 0, Take(f)
  PROVE  /\ readers' \in Nat /\ writer' \in BOOLEAN
         /\ status' \in [Futures -> Statuses] /\ status' = [status EXCEPT ![f] = "held"]
         /\ CountInv' /\ ~(~writer' /\ readers' = 0)
<1> USE DEF Types
<1>1. status' = [status EXCEPT ![f] = "held"]
  BY DEF Take, SetStatus
<1>2. status' \in [Futures -> Statuses] /\ status'[f] = "held"
      /\ \A g \in Futures : g # f => status'[g] = status[g]
  BY <1>1 DEF Statuses
<1>3. \A g \in Writers : status[g] # "held"
  BY DEF CountInv
<1>4. CASE f \in Readers
  <2>1. f \notin Writers /\ readers' = readers + 1 /\ writer' = FALSE
    BY <1>4, RwLockAssumption DEF Take
  <2>2. Held(Readers)' = Held(Readers) \cup {f} /\ f \notin Held(Readers)
    BY <1>2, <1>4 DEF Held, Futures
  <2>3. Cardinality(Held(Readers) \cup {f}) = Cardinality(Held(Readers)) + 1
    BY <2>2, HeldReaders, FS_AddElement, ZenonT(40)
  <2>4. readers' = Cardinality(Held(Readers)')
    BY <2>1, <2>2, <2>3 DEF CountInv
  <2>5. \A g \in Writers : status'[g] # "held"
    BY <1>2, <1>3, <2>1 DEF Futures
  <2>6. CountInv'
    BY <2>1, <2>4, <2>5 DEF CountInv
  <2>7. readers' \in Nat /\ readers' # 0
    BY <2>1
  <2> QED  BY <1>1, <1>2, <2>1, <2>6, <2>7, ZenonT(40)
<1>5. CASE f \notin Readers
  <2>1. f \in Writers /\ readers = 0 /\ readers' = readers /\ writer' = TRUE
    BY <1>5, ZenonT(40) DEF Take, Futures
  <2>2. \A g \in Readers : status[g] # "held"
    BY <2>1, HeldReaders DEF CountInv
  <2>3. Held(Readers)' = Held(Readers)
    BY <1>2, <1>5 DEF Held, Futures
  <2>4. \A g \in Futures : status'[g] = "held" => g = f
    BY <1>2, <1>3, <2>2 DEF Futures
  <2>5. CountInv'
    <3>1. writer' <=> \E g \in Writers : status'[g] = "held"
      BY <1>2, <2>1
    <3>2. readers' = Cardinality(Held(Readers)')
      BY <2>1, <2>3, ZenonT(40) DEF CountInv
    <3>3. \A h \in Writers, g \in Futures : status'[h] = "held" /\ status'[g] = "held" => h = g
      BY <2>4 DEF Futures
    <3> QED  BY <3>1, <3>2, <3>3 DEF CountInv
  <2> QED  BY <1>1, <1>2, <2>1, <2>5
<1> QED  BY <1>4, <1>5

\* A future that is not a guard changes its state otherwise.
LEMMA NoGuardChanges ==
  ASSUME Types, CountInv, NEW f \in Futures, status[f] # "held",
         NEW v \in Statuses \ {"held"}, status' = [status EXCEPT ![f] = v],
         UNCHANGED <<readers, writer>>
  PROVE  CountInv' /\ status' \in [Futures -> Statuses]
<1>1. status' \in [Futures -> Statuses]
      /\ \A g \in Futures : status'[g] = "held" <=> status[g] = "held"
  BY DEF Types, Statuses
<1>2. Held(Readers)' = Held(Readers)
  BY <1>1 DEF Held, Futures
<1> QED  BY <1>1, <1>2 DEF CountInv, Futures

\* A guard is dropped.
LEMMA DropCounts ==
  ASSUME Types, CountInv, NEW f \in Futures, status[f] = "held",
         status' = [status EXCEPT ![f] = "new"],
         \/ f \in Readers /\ readers' = readers - 1 /\ UNCHANGED writer
         \/ f \in Writers /\ writer' = FALSE /\ UNCHANGED readers
  PROVE  /\ readers' \in Nat /\ writer' \in BOOLEAN
         /\ status' \in [Futures -> Statuses] /\ CountInv'
<1> USE DEF Types
<1>1. /\ status' \in [Futures -> Statuses] /\ status'[f] = "new"
      /\ \A g \in Futures : g # f => status'[g] = status[g]
  BY DEF Statuses
<1>2. CASE f \in Readers
  <2>1. f \notin Writers /\ readers' = readers - 1 /\ UNCHANGED writer
    BY <1>2, RwLockAssumption
  <2>2. Held(Readers)' = Held(Readers) \ {f} /\ f \in Held(Readers)
    BY <1>1, <1>2 DEF Held, Futures
  <2>3. Cardinality(Held(Readers) \ {f}) = Cardinality(Held(Readers)) - 1
    BY <2>2, HeldReaders, FS_RemoveElement, ZenonT(40)
  <2>4. readers' = Cardinality(Held(Readers)')
    BY <2>1, <2>2, <2>3 DEF CountInv
  <2>5. readers' \in Nat
    BY <1>2, <2>1, HeldReaders DEF CountInv
  <2>6. CountInv'
    BY <1>1, <2>1, <2>4 DEF CountInv, Futures
  <2> QED  BY <1>1, <2>1, <2>5, <2>6
<1>3. CASE f \notin Readers
  <2>1. f \in Writers /\ writer' = FALSE /\ UNCHANGED readers
    BY <1>3
  <2>2. \A g \in Writers : status'[g] # "held"
    BY <1>1, <2>1 DEF CountInv, Futures
  <2>3. Held(Readers)' = Held(Readers)
    BY <1>1, <1>3 DEF Held, Futures
  <2>4. CountInv'
    BY <2>1, <2>2, <2>3 DEF CountInv
  <2> QED  BY <1>1, <2>1, <2>4, ZenonT(40)
<1> QED  BY <1>2, <1>3

-----------------------------------------------------------------------------
(* The queues. *)

\* deregister removes f's entry and no other.
LEMMA DeregisterStep ==
  ASSUME Types, EntryInv, NEW f, Deregister(f)
  PROVE  /\ rq' \in Seq(Readers) /\ wq' \in Seq(Writers) /\ Distinct(rq') /\ Distinct(wq')
         /\ \A g : Queued(rq', g) <=> Queued(rq, g) /\ g # f
         /\ \A g : Queued(wq', g) <=> Queued(wq, g) /\ g # f
BY WithoutRemoves DEF Types, EntryInv, Deregister

\* wake_next wakes the first writer in the queue, or starts on the readers.
LEMMA WakeNextStep ==
  ASSUME Types, EntryInv, NEW n \in Nat, NEW w \in BOOLEAN, NEW s \in Seq(Frames),
         OneCallEach(s, Futures), WakeNext(n, w, rq, wq, s)
  PROVE  /\ rq' \in Seq(Readers) /\ wq' \in Seq(Writers) /\ Distinct(rq') /\ Distinct(wq')
         /\ \A g : Queued(rq', g) => Queued(rq, g)
         /\ \A g : Queued(wq', g) => Queued(wq, g)
         /\ woken' \in SUBSET Futures /\ woken \subseteq woken'
         /\ stack' \in Seq(Frames) /\ OneCallEach(stack', Futures)
         /\ \A g \in Futures : InCall(stack', g) <=> InCall(s, g)
         /\ \A p : \A g \in Futures : At(stack', p, g) <=> At(s, p, g)
         /\ ~w /\ n = 0 =>
              \/ \E g \in Writers : g \in woken' /\ Queued(wq, g)
              \/ wq' = <<>> /\ (rq' = <<>> \/ At(stack', "readers", WakeLoop))
<1> USE DEF Types
<1>0. Readers \subseteq Futures /\ Writers \subseteq Futures
  BY DEF Futures
<1>1. CASE w \/ n > 0 \/ (wq = <<>> /\ rq = <<>>)
  BY <1>1 DEF WakeNext, EntryInv
<1>2. CASE ~w /\ n = 0 /\ wq # <<>>
  <2>1. /\ Tail(wq) \in Seq(Writers) /\ Head(wq) \in Writers /\ Distinct(Tail(wq))
        /\ Queued(wq, Head(wq))
        /\ \A g : Queued(Tail(wq), g) <=> Queued(wq, g) /\ g # Head(wq)
    BY <1>2, TailRemoves DEF EntryInv
  <2>2. woken' = woken \cup {Head(wq)} /\ rq' = rq /\ wq' = Tail(wq) /\ stack' = s
    BY <1>2 DEF WakeNext
  <2>3. \E g \in Writers : g \in woken' /\ Queued(wq, g)
    BY <2>1, <2>2
  <2> QED  BY <1>0, <2>1, <2>2, <2>3 DEF EntryInv
<1>3. CASE ~w /\ n = 0 /\ wq = <<>> /\ rq # <<>>
  <2>1. /\ Tail(rq) \in Seq(Readers) /\ Head(rq) \in Readers /\ Distinct(Tail(rq))
        /\ \A g : Queued(Tail(rq), g) <=> Queued(rq, g) /\ g # Head(rq)
    BY <1>3, TailRemoves DEF EntryInv
  <2>2. /\ woken' = woken \cup {Head(rq)} /\ rq' = Tail(rq) /\ wq' = wq
        /\ stack' = Enter(s, "readers", WakeLoop)
    BY <1>3 DEF WakeNext
  <2>3. WakeLoop \notin Futures /\ Frame("readers", WakeLoop) \in Frames
    BY RwLockAssumption, FrameTypes
  <2>4. /\ stack' \in Seq(Frames) /\ OneCallEach(stack', Futures)
        /\ \A g : InCall(stack', g) <=> InCall(s, g) \/ g = WakeLoop
        /\ \A p, g : At(stack', p, g) <=> At(s, p, g) \/ (p = "readers" /\ g = WakeLoop)
    BY <2>2, <2>3, CallEnters
  <2>5. /\ \A g \in Futures : InCall(stack', g) <=> InCall(s, g)
        /\ \A p : \A g \in Futures : At(stack', p, g) <=> At(s, p, g)
        /\ At(stack', "readers", WakeLoop)
    BY <2>3, <2>4
  <2> QED  BY <1>0, <1>3, <2>1, <2>2, <2>4, <2>5 DEF EntryInv
<1> QED  BY <1>1, <1>2, <1>3
-----------------------------------------------------------------------------
(* The steps. *)

\* The steps of Next one by one.
LEMMA NextCases ==
  ASSUME [Next]_vars
  PROVE  \/ \E f \in Futures : \/ TryTake(f) \/ ReleaseRead(f) \/ ReleaseWrite(f) \/ Cancel(f)
                               \/ Register(f) \/ Recheck(f) \/ CancelWake(f)
                               \/ \E same \in BOOLEAN : Poll(f, same)
         \/ WakeReaders
         \/ UNCHANGED vars
BY DEF Next, Resume, GoOn, Release

\* After wake_next the lock has an heir: the writer it woke waits or is in its poll.
LEMMA TurnPassed ==
  ASSUME Types, EntryInv, NEW n \in Nat, NEW w \in BOOLEAN, NEW s \in Seq(Frames),
         OneCallEach(s, Futures), WakeNext(n, w, rq, wq, s), readers' = n, writer' = w,
         \A g \in Writers : Queued(wq, g) =>
            status'[g] = "waiting" \/ At(s, "clone", g) \/ At(s, "recheck", g)
  PROVE  HeirInv'
<1> SUFFICES ASSUME ~w, n = 0 PROVE HeirInv'
  BY DEF HeirInv
<1>1. /\ \A p : \A g \in Futures : At(stack', p, g) <=> At(s, p, g)
      /\ \/ \E g \in Writers : g \in woken' /\ Queued(wq, g)
         \/ wq' = <<>> /\ (rq' = <<>> \/ At(stack', "readers", WakeLoop))
  BY WakeNextStep
<1>2. CASE \E g \in Writers : g \in woken' /\ Queued(wq, g)
  <2>1. PICK g \in Writers : g \in woken' /\ Queued(wq, g)
    BY <1>2
  <2>2. status'[g] = "waiting" \/ At(stack', "clone", g) \/ At(stack', "recheck", g)
    BY <1>1, <2>1 DEF Futures
  <2>3. WriterHeir'
    BY <2>1, <2>2 DEF WriterHeir, InPoll
  <2> QED  BY <2>3 DEF HeirInv
<1>3. CASE wq' = <<>> /\ (rq' = <<>> \/ At(stack', "readers", WakeLoop))
  BY <1>3 DEF HeirInv, ReaderHeir
<1> QED  BY <1>1, <1>2, <1>3

\* try_read, try_write.
LEMMA TryTakeKeeps == ASSUME Inv, NEW f \in Futures, TryTake(f) PROVE Inv'
<1> USE DEF Inv
<1>1. /\ status[f] = "new" /\ ~InCall(stack, f) /\ UNCHANGED <<rq, wq, woken, stack>>
      /\ ~writer /\ (f \in Writers => readers = 0) /\ Take(f)
  BY DEF TryTake
<1>2. /\ readers' \in Nat /\ writer' \in BOOLEAN
      /\ status' \in [Futures -> Statuses] /\ status' = [status EXCEPT ![f] = "held"]
      /\ CountInv' /\ ~(~writer' /\ readers' = 0)
  BY <1>1, TakeCounts
<1>3. \A g \in Futures : g # f => status'[g] = status[g]
  BY <1>2 DEF Types
<1>4. ~InPoll(f) /\ ~At(stack, "cancel", f)
  BY <1>1, AtInCall DEF InPoll
<1>5. ~Queued(rq, f) /\ ~Queued(wq, f)
  BY <1>1, <1>4 DEF EntryInv
<1>6. EntryInv'
  BY <1>1, <1>3, <1>5 DEF EntryInv, InPoll
<1>7. CallInv'
  BY <1>1, <1>3, <1>4 DEF CallInv
<1> QED  BY <1>1, <1>2, <1>6, <1>7 DEF Types, HeirInv

\* The drop of a guard.
LEMMA ReleaseKeeps ==
  ASSUME Inv, NEW f \in Futures, ReleaseRead(f) \/ ReleaseWrite(f) PROVE Inv'
<1> USE DEF Inv
<1>1. /\ status[f] = "held" /\ status' = [status EXCEPT ![f] = "new"]
      /\ \/ f \in Readers /\ readers' = readers - 1 /\ UNCHANGED writer
         \/ f \in Writers /\ writer' = FALSE /\ UNCHANGED readers
      /\ WakeNext(readers', writer', rq, wq, stack)
  BY ZenonT(40) DEF ReleaseRead, ReleaseWrite, SetStatus
<1>2. /\ readers' \in Nat /\ writer' \in BOOLEAN
      /\ status' \in [Futures -> Statuses] /\ CountInv'
  BY <1>1, DropCounts, ZenonT(40)
<1>3. stack \in Seq(Frames) /\ OneCallEach(stack, Futures)
  BY DEF Types, CallInv
<1>4. /\ rq' \in Seq(Readers) /\ wq' \in Seq(Writers) /\ Distinct(rq') /\ Distinct(wq')
      /\ \A g : Queued(rq', g) => Queued(rq, g)
      /\ \A g : Queued(wq', g) => Queued(wq, g)
      /\ woken' \in SUBSET Futures
      /\ stack' \in Seq(Frames) /\ OneCallEach(stack', Futures)
      /\ \A g \in Futures : InCall(stack', g) <=> InCall(stack, g)
      /\ \A p : \A g \in Futures : At(stack', p, g) <=> At(stack, p, g)
  BY <1>1, <1>2, <1>3, WakeNextStep
<1>5. /\ status'[f] = "new" /\ \A g \in Futures : g # f => status'[g] = status[g]
  BY <1>1 DEF Types
<1>6. ~InCall(stack, f) /\ ~InPoll(f)
  BY <1>1, AtInCall DEF CallInv, InPoll
<1>7. ~Queued(rq, f) /\ ~Queued(wq, f)
  BY <1>1, <1>6 DEF EntryInv
<1>8. EntryInv'
  BY <1>4, <1>5, <1>7 DEF EntryInv, InPoll
<1>9. CallInv'
  BY <1>4, <1>5 DEF CallInv
<1>10. \A g \in Writers : Queued(wq, g) =>
          status'[g] = "waiting" \/ At(stack, "clone", g) \/ At(stack, "recheck", g)
  BY <1>5, <1>7 DEF EntryInv, InPoll, Futures
<1>11. HeirInv'
  BY <1>1, <1>2, <1>3, <1>10, TurnPassed, SMTT(30)
<1> QED  BY <1>2, <1>4, <1>8, <1>9, <1>11 DEF Types

\* The drop of a future: its entry is removed.
LEMMA CancelKeeps == ASSUME Inv, NEW f \in Futures, Cancel(f) PROVE Inv'
<1> USE DEF Inv
<1>1. /\ status[f] = "waiting" /\ ~InCall(stack, f) /\ Deregister(f)
      /\ status' = [status EXCEPT ![f] = "new"] /\ woken' = woken \ {f}
      /\ stack' = Enter(stack, "cancel", f) /\ UNCHANGED <<readers, writer>>
  BY DEF Cancel, SetStatus
<1>2. CountInv' /\ status' \in [Futures -> Statuses]
  BY <1>1, NoGuardChanges, ZenonT(40) DEF Statuses
<1>3. /\ rq' \in Seq(Readers) /\ wq' \in Seq(Writers) /\ Distinct(rq') /\ Distinct(wq')
      /\ \A g : Queued(rq', g) <=> Queued(rq, g) /\ g # f
      /\ \A g : Queued(wq', g) <=> Queued(wq, g) /\ g # f
  BY <1>1, DeregisterStep
<1>4. Frame("cancel", f) \in Frames /\ stack \in Seq(Frames) /\ OneCallEach(stack, Futures)
  BY FrameTypes DEF Types, CallInv
<1>5. /\ stack' \in Seq(Frames) /\ OneCallEach(stack', Futures)
      /\ \A g : InCall(stack', g) <=> InCall(stack, g) \/ g = f
      /\ \A p, g : At(stack', p, g) <=> At(stack, p, g) \/ (p = "cancel" /\ g = f)
  BY <1>1, <1>4, CallEnters
<1>6. status'[f] = "new" /\ \A g \in Futures : g # f => status'[g] = status[g]
  BY <1>1 DEF Types
<1>7. EntryInv'
  BY <1>3, <1>5, <1>6 DEF EntryInv, InPoll
<1>8. CallInv'
  BY <1>5, <1>6 DEF CallInv
<1>9. WriterHeir'
  BY <1>5 DEF WriterHeir
<1> QED  BY <1>1, <1>2, <1>3, <1>5, <1>7, <1>8, <1>9 DEF Types, HeirInv

\* The drop of a future goes on and passes the turn.
LEMMA CancelWakeKeeps == ASSUME Inv, NEW f \in Futures, CancelWake(f) PROVE Inv'
<1> USE DEF Inv
<1> DEFINE t == Tail(stack)
<1>1. /\ Suspended(stack, "cancel", f) /\ UNCHANGED <<readers, writer, status>>
      /\ WakeNext(readers, writer, rq, wq, t)
  BY DEF CancelWake
<1>2. /\ t \in Seq(Frames) /\ OneCallEach(t, Futures)
      /\ At(stack, "cancel", f) /\ \A p : At(stack, p, f) => p = "cancel"
      /\ \A g : InCall(t, g) <=> InCall(stack, g) /\ g # f
      /\ \A p, g : At(t, p, g) <=> At(stack, p, g) /\ g # f
  BY <1>1, CallReturns DEF Types, CallInv
<1> HIDE DEF t
<1>3. /\ rq' \in Seq(Readers) /\ wq' \in Seq(Writers) /\ Distinct(rq') /\ Distinct(wq')
      /\ \A g : Queued(rq', g) => Queued(rq, g)
      /\ \A g : Queued(wq', g) => Queued(wq, g)
      /\ woken' \in SUBSET Futures
      /\ stack' \in Seq(Frames) /\ OneCallEach(stack', Futures)
      /\ \A g \in Futures : InCall(stack', g) <=> InCall(t, g)
      /\ \A p : \A g \in Futures : At(stack', p, g) <=> At(t, p, g)
  BY <1>1, <1>2, WakeNextStep DEF Types
<1>4. ~Queued(rq, f) /\ ~Queued(wq, f)
  <2>1. status[f] = "new" /\ ~InPoll(f)
    BY <1>2 DEF CallInv, InPoll
  <2> QED  BY <2>1 DEF EntryInv
<1>5. EntryInv'
  BY <1>1, <1>2, <1>3, <1>4 DEF EntryInv, InPoll
<1>6. CallInv'
  BY <1>1, <1>2, <1>3 DEF CallInv
<1>7. CountInv'
  BY <1>1, SMTT(30) DEF CountInv, Held
<1>8. \A g \in Writers : Queued(wq, g) =>
         status'[g] = "waiting" \/ At(t, "clone", g) \/ At(t, "recheck", g)
  BY <1>1, <1>2, <1>4 DEF EntryInv, InPoll, Futures
<1>9. HeirInv'
  BY <1>1, <1>2, <1>8, TurnPassed, SMTT(30) DEF Types
<1> QED  BY <1>1, <1>3, <1>5, <1>6, <1>7, <1>9 DEF Types

\* A poll finds the lock free and takes it, in whatever stack it returns to.
LEMMA PollTakes ==
  ASSUME Inv, NEW f \in Futures, status[f] # "held", CanTake(f), Take(f), Deregister(f),
         woken' \in SUBSET Futures, stack' \in Seq(Frames), OneCallEach(stack', Futures),
         \A g : InCall(stack', g) => InCall(stack, g) /\ g # f,
         \A p, g : At(stack', p, g) <=> At(stack, p, g) /\ g # f
  PROVE  Inv'
<1> USE DEF Inv
<1>1. ~writer /\ (f \in Writers => readers = 0)
  BY RwLockAssumption DEF CanTake
<1>2. /\ readers' \in Nat /\ writer' \in BOOLEAN
      /\ status' \in [Futures -> Statuses] /\ status' = [status EXCEPT ![f] = "held"]
      /\ CountInv' /\ ~(~writer' /\ readers' = 0)
  BY <1>1, TakeCounts
<1>3. /\ rq' \in Seq(Readers) /\ wq' \in Seq(Writers) /\ Distinct(rq') /\ Distinct(wq')
      /\ \A g : Queued(rq', g) <=> Queued(rq, g) /\ g # f
      /\ \A g : Queued(wq', g) <=> Queued(wq, g) /\ g # f
  BY DeregisterStep
<1>4. \A g \in Futures : g # f => status'[g] = status[g]
  BY <1>2 DEF Types
<1>5. EntryInv'
  BY <1>3, <1>4 DEF EntryInv, InPoll
<1>6. CallInv'
  BY <1>4 DEF CallInv
<1> QED  BY <1>2, <1>3, <1>5, <1>6 DEF Types, HeirInv

\* On a free lock only a reader behind a queued writer is turned away.
LEMMA TurnedAway ==
  ASSUME Inv, NEW f \in Futures, ~CanTake(f), ~writer, readers = 0
  PROVE  f \notin Writers /\ wq # <<>> /\ WriterHeir
<1>1. f \in Readers /\ wq # <<>>
  BY DEF CanTake, Futures
<1> QED  BY <1>1, RwLockAssumption DEF Inv, HeirInv

\* The first attempt of a poll.
LEMMA PollKeeps ==
  ASSUME Inv, NEW f \in Futures, NEW same \in BOOLEAN, Poll(f, same) PROVE Inv'
<1> USE DEF Inv
<1>1. status[f] # "held" /\ ~InCall(stack, f) /\ woken' = woken \ {f}
  BY DEF Poll
<1>2. stack \in Seq(Frames) /\ OneCallEach(stack, Futures)
  BY DEF Types, CallInv
<1>3. CASE CanTake(f) /\ Take(f) /\ Deregister(f) /\ UNCHANGED stack
  <2>1. woken' \in SUBSET Futures /\ stack' \in Seq(Frames) /\ OneCallEach(stack', Futures)
    BY <1>1, <1>2, <1>3 DEF Types
  <2>2. \A g : InCall(stack', g) => InCall(stack, g) /\ g # f
    BY <1>1, <1>3
  <2>3. \A p, g : At(stack', p, g) <=> At(stack, p, g) /\ g # f
    BY <1>1, <1>3, AtInCall
  <2> QED  BY <1>1, <1>3, <2>1, <2>2, <2>3, PollTakes
<1>4. CASE ~CanTake(f) /\ UNCHANGED <<readers, writer, rq, wq, status>>
           /\ (stack' = stack \/ stack' = Enter(stack, "clone", f))
  <2>1. /\ stack' \in Seq(Frames) /\ OneCallEach(stack', Futures)
        /\ \A g : InCall(stack', g) => InCall(stack, g) \/ g = f
        /\ \A p, g : At(stack, p, g) => At(stack', p, g)
        /\ \A p, g : At(stack', p, g) => At(stack, p, g) \/ (p = "clone" /\ g = f)
    <3>1. CASE stack' = stack
      BY <1>2, <3>1
    <3>2. CASE stack' = Enter(stack, "clone", f)
      <4>1. Frame("clone", f) \in Frames
        BY FrameTypes
      <4> QED  BY <1>1, <1>2, <3>2, <4>1, CallEnters
    <3> QED  BY <1>4, <3>1, <3>2
  <2>2. CountInv'
    BY <1>4 DEF CountInv, Held
  <2>3. EntryInv'
    BY <1>4, <2>1 DEF EntryInv, InPoll
  <2>4. CallInv'
    BY <1>1, <1>4, <2>1 DEF CallInv
  <2>5. HeirInv'
    <3> SUFFICES ASSUME ~writer, readers = 0 PROVE WriterHeir'
      BY <1>4 DEF HeirInv
    <3>1. f \notin Writers /\ WriterHeir
      BY <1>4, TurnedAway
    <3> QED  BY <1>1, <1>4, <2>1, <3>1 DEF WriterHeir, InPoll
  <2> QED  BY <1>1, <1>4, <2>1, <2>2, <2>3, <2>4, <2>5, SMTT(30) DEF Types
<1> QED  BY <1>3, <1>4 DEF Poll

\* register_in, after the clone of the waker.
LEMMA RegisterKeeps == ASSUME Inv, NEW f \in Futures, Register(f) PROVE Inv'
<1> USE DEF Inv
<1> DEFINE t == Tail(stack)
<1>1. /\ Suspended(stack, "clone", f) /\ woken' = woken \ {f}
      /\ rq' = IF f \in Readers THEN Requeue(rq, f) ELSE rq
      /\ wq' = IF f \in Writers THEN Requeue(wq, f) ELSE wq
      /\ stack' = Enter(t, "recheck", f) /\ UNCHANGED <<readers, writer, status>>
  BY DEF Register
<1>2. /\ t \in Seq(Frames) /\ OneCallEach(t, Futures) /\ InCall(stack, f)
      /\ \A p : At(stack, p, f) => p = "clone"
      /\ \A g : InCall(t, g) <=> InCall(stack, g) /\ g # f
      /\ \A p, g : At(t, p, g) <=> At(stack, p, g) /\ g # f
  BY <1>1, CallReturns DEF Types, CallInv
<1> HIDE DEF t
<1>3. /\ stack' \in Seq(Frames) /\ OneCallEach(stack', Futures)
      /\ \A g : InCall(stack', g) <=> InCall(t, g) \/ g = f
      /\ \A p, g : At(stack', p, g) <=> At(t, p, g) \/ (p = "recheck" /\ g = f)
  <2>1. Frame("recheck", f) \in Frames /\ ~InCall(t, f)
    BY <1>2, FrameTypes
  <2> QED  BY <1>1, <1>2, <2>1, CallEnters
<1>4. /\ rq' \in Seq(Readers) /\ Distinct(rq')
      /\ \A g : Queued(rq', g) => Queued(rq, g) \/ g = f
  BY <1>1, RequeueAdds DEF Types, EntryInv
<1>5. /\ wq' \in Seq(Writers) /\ Distinct(wq')
      /\ \A g : Queued(wq', g) => Queued(wq, g) \/ g = f
  BY <1>1, RequeueAdds DEF Types, EntryInv
<1>6. /\ \A p, g : g # f => (At(stack', p, g) <=> At(stack, p, g))
      /\ At(stack', "recheck", f) /\ ~At(stack', "cancel", f)
      /\ \A g : InCall(stack', g) <=> InCall(stack, g)
  BY <1>2, <1>3
<1>7. CountInv'
  BY <1>1 DEF CountInv, Held
<1>8. EntryInv'
  BY <1>1, <1>4, <1>5, <1>6 DEF EntryInv, InPoll
<1>9. CallInv'
  BY <1>1, <1>3, <1>6 DEF CallInv
<1>10. CASE f \in Writers
  <2>1. WriterHeir'
    BY <1>6, <1>10 DEF WriterHeir, InPoll
  <2> QED  BY <1>1, <1>3, <1>4, <1>5, <1>7, <1>8, <1>9, <2>1 DEF Types, HeirInv
<1>11. CASE f \notin Writers
  <2>1. ReaderHeir'
    BY <1>6 DEF ReaderHeir, InPoll
  <2>2. WriterHeir => WriterHeir'
    <3>1. ~At(stack, "cancel", f)
      BY <1>2
    <3> QED  BY <1>1, <1>6, <1>11, <3>1 DEF WriterHeir, InPoll
  <2>3. HeirInv'
    BY <1>1, <1>11, <2>1, <2>2 DEF HeirInv
  <2> QED  BY <1>1, <1>3, <1>4, <1>5, <1>7, <1>8, <1>9, <2>3 DEF Types
<1> QED  BY <1>10, <1>11

\* The second attempt of a poll.
LEMMA RecheckKeeps == ASSUME Inv, NEW f \in Futures, Recheck(f) PROVE Inv'
<1> USE DEF Inv
<1>1. Suspended(stack, "recheck", f) /\ stack' = Tail(stack) /\ UNCHANGED woken
  BY DEF Recheck
<1>2. /\ Tail(stack) \in Seq(Frames) /\ OneCallEach(Tail(stack), Futures) /\ InCall(stack, f)
      /\ \A p : At(stack, p, f) => p = "recheck"
      /\ \A g : InCall(Tail(stack), g) <=> InCall(stack, g) /\ g # f
      /\ \A p, g : At(Tail(stack), p, g) <=> At(stack, p, g) /\ g # f
  BY <1>1, CallReturns DEF Types, CallInv
<1>3. /\ stack' \in Seq(Frames) /\ OneCallEach(stack', Futures) /\ InCall(stack, f)
      /\ \A p : At(stack, p, f) => p = "recheck"
      /\ \A g : InCall(stack', g) <=> InCall(stack, g) /\ g # f
      /\ \A p, g : At(stack', p, g) <=> At(stack, p, g) /\ g # f
  BY <1>1, <1>2
<1>4. status[f] # "held"
  BY <1>3 DEF CallInv
<1>5. CASE CanTake(f) /\ Take(f) /\ Deregister(f)
  <2>1. woken' \in SUBSET Futures
    BY <1>1 DEF Types
  <2> QED  BY <1>3, <1>4, <1>5, <2>1, PollTakes
<1>6. CASE ~CanTake(f) /\ SetStatus(f, "waiting") /\ UNCHANGED <<readers, writer, rq, wq>>
  <2>1. status' = [status EXCEPT ![f] = "waiting"] /\ UNCHANGED <<readers, writer, rq, wq>>
    BY <1>6 DEF SetStatus
  <2>2. CountInv' /\ status' \in [Futures -> Statuses]
    BY <1>4, <2>1, NoGuardChanges, ZenonT(40) DEF Statuses
  <2>3. status'[f] = "waiting" /\ \A g \in Futures : g # f => status'[g] = status[g]
    BY <2>1 DEF Types
  <2>4. EntryInv'
    BY <1>3, <2>1, <2>3 DEF EntryInv, InPoll
  <2>5. CallInv'
    BY <1>3, <2>3 DEF CallInv
  <2>6. HeirInv'
    <3> SUFFICES ASSUME ~writer, readers = 0 PROVE WriterHeir'
      BY <2>1 DEF HeirInv
    <3>1. f \notin Writers /\ WriterHeir
      BY <1>6, TurnedAway
    <3>2. ~At(stack, "cancel", f)
      BY <1>3
    <3> QED  BY <1>1, <1>3, <2>3, <3>1, <3>2 DEF WriterHeir, InPoll, Futures
  <2> QED  BY <1>1, <1>3, <2>1, <2>2, <2>4, <2>5, <2>6 DEF Types
<1> QED  BY <1>5, <1>6 DEF Recheck

\* A turn of wake_next's loop over the readers.
LEMMA WakeReadersKeeps == ASSUME Inv, WakeReaders PROVE Inv'
<1> USE DEF Inv
<1>1. Suspended(stack, "readers", WakeLoop) /\ UNCHANGED <<readers, writer, wq, status>>
  BY DEF WakeReaders
<1>2. CASE rq # <<>> /\ woken' = woken \cup {Head(rq)} /\ rq' = Tail(rq) /\ UNCHANGED stack
  <2>1. /\ Tail(rq) \in Seq(Readers) /\ Head(rq) \in Readers /\ Distinct(Tail(rq))
        /\ \A g : Queued(Tail(rq), g) <=> Queued(rq, g) /\ g # Head(rq)
    BY <1>2, TailRemoves DEF Types, EntryInv
  <2>2. CountInv'
    BY <1>1 DEF CountInv, Held
  <2>3. EntryInv'
    BY <1>1, <1>2, <2>1 DEF EntryInv, InPoll
  <2>4. CallInv'
    BY <1>1, <1>2 DEF CallInv
  <2>5. At(stack, "readers", WakeLoop)
    BY <1>1 DEF At, Pending, Suspended, Types
  <2>6. WriterHeir => WriterHeir'
    BY <1>1, <1>2 DEF WriterHeir, InPoll
  <2>7. HeirInv'
    BY <1>1, <1>2, <2>5, <2>6 DEF HeirInv, ReaderHeir
  <2>8. woken' \in SUBSET Futures
    BY <1>2, <2>1 DEF Types, Futures
  <2> QED  BY <1>1, <1>2, <2>1, <2>2, <2>3, <2>4, <2>7, <2>8 DEF Types
<1>3. CASE rq = <<>> /\ stack' = Tail(stack) /\ UNCHANGED <<woken, rq>>
  <2>1. /\ Tail(stack) \in Seq(Frames) /\ OneCallEach(Tail(stack), Futures)
        /\ \A g \in Futures : InCall(Tail(stack), g) <=> InCall(stack, g)
        /\ \A p : \A g \in Futures : At(Tail(stack), p, g) <=> At(stack, p, g)
    BY <1>1, LoopReturns DEF Types, CallInv
  <2>2. /\ stack' \in Seq(Frames) /\ OneCallEach(stack', Futures)
        /\ \A g \in Futures : InCall(stack', g) <=> InCall(stack, g)
        /\ \A p : \A g \in Futures : At(stack', p, g) <=> At(stack, p, g)
    BY <1>3, <2>1, SMTT(30)
  <2>3. CountInv'
    BY <1>1 DEF CountInv, Held
  <2>4. EntryInv'
    BY <1>1, <1>3, <2>2 DEF EntryInv, InPoll
  <2>5. CallInv'
    BY <1>1, <2>2 DEF CallInv
  <2>6. WriterHeir => WriterHeir'
    BY <1>1, <1>3, <2>2 DEF WriterHeir, InPoll, Futures
  <2>7. HeirInv'
    BY <1>1, <1>3, <2>6 DEF HeirInv
  <2> QED  BY <1>1, <1>3, <2>2, <2>3, <2>4, <2>5, <2>7, SMTT(30) DEF Types
<1> QED  BY <1>2, <1>3 DEF WakeReaders

-----------------------------------------------------------------------------
(* The theorems. *)

\* Reads, writes, drops and releases from inside any waker callback keep the two
\* fields, the queues and the calls in agreement.
THEOREM CallsKeepInv == Spec => []Inv
<1>1. Init => Inv
  <2> SUFFICES ASSUME Init PROVE Inv
    OBVIOUS
  <2>1. Types
    <3>1. <<>> \in Seq(Readers) /\ <<>> \in Seq(Writers) /\ <<>> \in Seq(Frames)
      OBVIOUS
    <3> QED  BY <3>1, ZenonT(40) DEF Init, Types, Statuses
  <2>2. CountInv
    <3>1. \A f \in Futures : status[f] # "held"
      BY DEF Init
    <3> QED  BY <3>1, HeldReaders DEF Init, CountInv, Futures
  <2>3. EntryInv
    BY DEF Init, EntryInv, Distinct, Queued
  <2>4. CallInv
    BY DEF Init, CallInv, OneCallEach, InCall, At, Pending
  <2>5. HeirInv
    BY DEF Init, HeirInv
  <2> QED  BY <2>1, <2>2, <2>3, <2>4, <2>5 DEF Inv
<1>2. Inv /\ [Next]_vars => Inv'
  <2> SUFFICES ASSUME Inv, [Next]_vars PROVE Inv'
    OBVIOUS
  <2>1. CASE UNCHANGED vars
    BY <2>1 DEF vars, Inv, Types, CountInv, Held, EntryInv, CallInv, HeirInv,
                WriterHeir, ReaderHeir, InPoll
  <2> QED  BY SMTT(30), <2>1, NextCases, TryTakeKeeps, ReleaseKeeps, CancelKeeps, CancelWakeKeeps,
              PollKeeps, RegisterKeeps, RecheckKeeps, WakeReadersKeeps
<1> QED  BY <1>1, <1>2, PTL DEF Spec

\* "multiple concurrent readers or a single exclusive writer", for any number of
\* futures.
THEOREM WriterIsAlone == Spec => []GuardsExclude
<1>1. Inv => GuardsExclude
  <2> SUFFICES ASSUME Inv PROVE GuardsExclude
    OBVIOUS
  <2>1. TypeOK
    BY HeldReaders DEF Inv, Types, CountInv, Statuses, Frames, TypeOK
  <2>2. Held(Writers) # {} => Held(Readers) = {}
    BY RwLockAssumption DEF Inv, CountInv, Held, Futures
  <2>3. Cardinality(Held(Writers)) <= 1
    <3>1. CASE Held(Writers) = {}
      BY <3>1, FS_EmptySet
    <3>2. CASE Held(Writers) # {}
      <4>1. PICK f : f \in Held(Writers)
        BY <3>2
      <4>2. Held(Writers) = {f}
        BY <4>1 DEF Inv, CountInv, Held, Futures
      <4> QED  BY <4>2, FS_Singleton
    <3> QED  BY <3>1, <3>2
  <2>4. readers = Cardinality(Held(Readers)) /\ (writer <=> Held(Writers) # {})
    BY DEF Inv, CountInv, Held
  <2> QED  BY <2>1, <2>2, <2>3, <2>4 DEF GuardsExclude
<1> QED  BY <1>1, CallsKeepInv, PTL

\* "a non-empty `write_waiters` always means a *live* writer is queued", for any
\* number of futures.
THEOREM NoDeadEntries == Spec => []EntriesAreLive
<1>1. Inv => EntriesAreLive
  BY AtInCall DEF Inv, EntryInv, InPoll, Distinct, EntriesAreLive
<1> QED  BY <1>1, CallsKeepInv, PTL

\* A free lock never leaves its queues stranded, nor a queued writer to a reader that
\* would only defer to it, for any number of futures.
THEOREM HeirNeverMissing == Spec => []FreeLockHasHeir
<1>1. Inv => FreeLockHasHeir
  <2> SUFFICES ASSUME Inv, ~writer, readers = 0, stack = <<>>
               PROVE  /\ wq # <<>> => \E f \in woken \cap Writers : status[f] = "waiting"
                      /\ rq # <<>> => \E f \in woken : status[f] = "waiting"
    BY DEF FreeLockHasHeir
  <2>1. \A o, f : ~At(stack, o, f)
    BY DEF At, Pending
  <2> QED  BY <2>1 DEF Inv, HeirInv, WriterHeir, ReaderHeir, InPoll
<1> QED  BY <1>1, CallsKeepInv, PTL
=============================================================================
