---------------------------- MODULE WaiterProofs ----------------------------
(***************************************************************************)
(* Lemmas about the operators that several models share.                   *)
(*   LocalWaiters: what they do to a queue without duplicates and to a     *)
(*     stack with at most one call of each future.                         *)
(*   WaiterSlot, for every set of wakers and threads: they keep a slot a   *)
(*     slot, and what each does to a stored waker.                         *)
(***************************************************************************)
EXTENDS LocalWaiters, WaiterSlot, TLAPS

(* The queues and the calls of the single-threaded primitives. *)

\* No future has two entries in q.
Distinct(q) == \A i, j \in DOMAIN q : q[i] = q[j] => i = j

\* No future of F has two calls in progress.
OneCallEach(stack, F) ==
  \A i, j \in DOMAIN stack : stack[i].fut \in F /\ stack[i].fut = stack[j].fut => i = j

\* take_where on f's token removes f's entry and no other.
LEMMA WithoutRemoves ==
  ASSUME NEW S, NEW q \in Seq(S), Distinct(q), NEW f
  PROVE  /\ Without(q, f) \in Seq(S)
         /\ Distinct(Without(q, f))
         /\ \A g : Queued(Without(q, f), g) <=> Queued(q, g) /\ g # f
<1>1. CASE ~Queued(q, f)
  BY <1>1 DEF Without, Queued
<1>2. CASE Queued(q, f)
  <2> DEFINE i == CHOOSE i \in DOMAIN q : q[i] = f
             r == Without(q, f)
  <2>1. i \in DOMAIN q /\ q[i] = f
    BY <1>2 DEF Queued
  <2>2. r = [j \in 1 .. Len(q) - 1 |-> IF j < i THEN q[j] ELSE q[j + 1]]
    BY <1>2 DEF Without
  <2> HIDE DEF i, r
  <2>3. /\ DOMAIN q = 1 .. Len(q) /\ Len(q) \in Nat /\ i \in 1 .. Len(q)
        /\ \A j \in 1 .. Len(q) : q[j] \in S
    BY <2>1
  <2>4. r \in Seq(S) /\ DOMAIN r = 1 .. Len(q) - 1
    <3>1. Len(q) - 1 \in Nat
      BY <2>3
    <3>2. \A j \in 1 .. Len(q) - 1 : r[j] \in S
      BY <2>2, <2>3
    <3> QED  BY <2>2, <3>1, <3>2
  <2>5. \A j \in DOMAIN r : r[j] = q[IF j < i THEN j ELSE j + 1]
    BY <2>2, <2>4
  <2>6. Distinct(r)
    <3> SUFFICES ASSUME NEW j \in DOMAIN r, NEW k \in DOMAIN r, r[j] = r[k] PROVE j = k
      BY DEF Distinct
    <3>1. (IF j < i THEN j ELSE j + 1) = (IF k < i THEN k ELSE k + 1)
      BY <2>3, <2>4, <2>5 DEF Distinct
    <3> QED  BY <3>1, <2>3, <2>4
  <2>7. ASSUME NEW g, Queued(r, g) PROVE Queued(q, g) /\ g # f
    <3>1. PICK j \in DOMAIN r : r[j] = g
      BY <2>7 DEF Queued
    <3> DEFINE k == IF j < i THEN j ELSE j + 1
    <3>2. k \in DOMAIN q /\ k # i /\ q[k] = g
      BY <2>3, <2>4, <2>5, <3>1
    <3> QED  BY <2>1, <3>2 DEF Queued, Distinct
  <2>8. ASSUME NEW g, Queued(q, g), g # f PROVE Queued(r, g)
    <3>1. PICK k \in DOMAIN q : q[k] = g
      BY <2>8 DEF Queued
    <3> DEFINE j == IF k < i THEN k ELSE k - 1
    <3>2. k # i
      BY <2>1, <2>8, <3>1
    <3>3. j \in DOMAIN r /\ (IF j < i THEN j ELSE j + 1) = k
      BY <2>3, <2>4, <3>2
    <3>4. r[j] = g
      BY <2>5, <3>1, <3>3
    <3> QED  BY <3>3, <3>4 DEF Queued
  <2> QED  BY <2>4, <2>6, <2>7, <2>8 DEF r
<1> QED  BY <1>1, <1>2

\* register() leaves f with one entry and the others with theirs.
LEMMA RequeueAdds ==
  ASSUME NEW S, NEW q \in Seq(S), Distinct(q), NEW f \in S
  PROVE  /\ Requeue(q, f) \in Seq(S)
         /\ Distinct(Requeue(q, f))
         /\ \A g : Queued(Requeue(q, f), g) <=> Queued(q, g) \/ g = f
<1> DEFINE r == Without(q, f)
<1>1. r \in Seq(S) /\ Distinct(r) /\ \A g : Queued(r, g) <=> Queued(q, g) /\ g # f
  BY WithoutRemoves
<1>2. Requeue(q, f) = Append(r, f)
  BY DEF Requeue
<1> HIDE DEF r
<1>3. /\ Append(r, f) \in Seq(S) /\ DOMAIN Append(r, f) = 1 .. Len(r) + 1
      /\ DOMAIN r = 1 .. Len(r) /\ Len(r) \in Nat
      /\ \A i \in 1 .. Len(r) : Append(r, f)[i] = r[i]
      /\ Append(r, f)[Len(r) + 1] = f
  BY <1>1
<1>4. \A i \in DOMAIN r : r[i] # f
  BY <1>1 DEF Queued
<1>5. Distinct(Append(r, f))
  BY <1>1, <1>3, <1>4 DEF Distinct
<1>6. \A g : Queued(Append(r, f), g) <=> Queued(r, g) \/ g = f
  BY <1>3 DEF Queued
<1> QED  BY <1>1, <1>2, <1>3, <1>5, <1>6

\* Popping the front entry removes that future and no other.
LEMMA TailRemoves ==
  ASSUME NEW S, NEW q \in Seq(S), Distinct(q), q # <<>>
  PROVE  /\ Tail(q) \in Seq(S) /\ Head(q) \in S
         /\ Distinct(Tail(q))
         /\ Queued(q, Head(q))
         /\ \A g : Queued(Tail(q), g) <=> Queued(q, g) /\ g # Head(q)
<1>1. /\ Tail(q) \in Seq(S) /\ Head(q) \in S /\ Head(q) = q[1]
      /\ Len(q) \in Nat /\ Len(q) > 0 /\ DOMAIN q = 1 .. Len(q)
      /\ DOMAIN Tail(q) = 1 .. Len(q) - 1
      /\ \A i \in 1 .. Len(q) - 1 : Tail(q)[i] = q[i + 1]
  OBVIOUS
<1>2. Distinct(Tail(q))
  BY <1>1 DEF Distinct
<1>3. Queued(q, Head(q))
  BY <1>1 DEF Queued
<1>4. ASSUME NEW g, Queued(Tail(q), g) PROVE Queued(q, g) /\ g # Head(q)
  <2>1. PICK i \in DOMAIN Tail(q) : Tail(q)[i] = g
    BY <1>4 DEF Queued
  <2>2. i + 1 \in DOMAIN q /\ q[i + 1] = g /\ 1 \in DOMAIN q /\ i + 1 # 1
    BY <1>1, <2>1
  <2> QED  BY <1>1, <2>2 DEF Queued, Distinct
<1>5. ASSUME NEW g, Queued(q, g), g # Head(q) PROVE Queued(Tail(q), g)
  <2>1. PICK i \in DOMAIN q : q[i] = g
    BY <1>5 DEF Queued
  <2>2. i - 1 \in DOMAIN Tail(q) /\ Tail(q)[i - 1] = g
    BY <1>1, <1>5, <2>1
  <2> QED  BY <2>2 DEF Queued
<1> QED  BY <1>1, <1>2, <1>3, <1>4, <1>5
-----------------------------------------------------------------------------
(* The stack of calls. *)

\* A call of a future that has none is entered above the others.
LEMMA EnterAdds ==
  ASSUME NEW S, NEW stack \in Seq(S), NEW o, NEW f, Frame(o, f) \in S
  PROVE  /\ Enter(stack, o, f) \in Seq(S)
         /\ Enter(stack, o, f) # <<>>
         /\ \A g : InCall(Enter(stack, o, f), g) <=> InCall(stack, g) \/ g = f
         /\ \A fr : Pending(Enter(stack, o, f), fr) <=> Pending(stack, fr) \/ fr = Frame(o, f)
         /\ \A F : OneCallEach(stack, F) /\ (f \in F => ~InCall(stack, f))
                    => OneCallEach(Enter(stack, o, f), F)
<1> DEFINE fr == Frame(o, f)
           s == Enter(stack, o, f)
<1>1. fr \in S /\ fr.fut = f
  BY DEF Frame
<1>2. s = <<fr>> \o stack
  BY DEF Enter
<1> HIDE DEF fr, s
<1>3. /\ s \in Seq(S) /\ Len(stack) \in Nat
      /\ DOMAIN stack = 1 .. Len(stack) /\ DOMAIN s = 1 .. Len(stack) + 1
      /\ s[1] = fr /\ s # <<>>
      /\ \A i \in 1 .. Len(stack) : s[i + 1] = stack[i]
  BY <1>1, <1>2
<1>4. \A j \in DOMAIN s : j = 1 \/ (j - 1 \in DOMAIN stack /\ s[j] = stack[j - 1])
  BY <1>3
<1>5. \A i \in DOMAIN stack : i + 1 \in DOMAIN s /\ s[i + 1] = stack[i]
  BY <1>3
<1>6. 1 \in DOMAIN s
  BY <1>3
<1>7. ASSUME NEW g PROVE InCall(s, g) <=> InCall(stack, g) \/ g = f
  <2>1. InCall(s, g) => InCall(stack, g) \/ g = f
    BY <1>1, <1>3, <1>4 DEF InCall
  <2>2. InCall(stack, g) => InCall(s, g)
    BY <1>5 DEF InCall
  <2>3. g = f => InCall(s, g)
    BY <1>1, <1>3, <1>6 DEF InCall
  <2> QED  BY <2>1, <2>2, <2>3
<1>8. ASSUME NEW x PROVE Pending(s, x) <=> Pending(stack, x) \/ x = fr
  <2>1. Pending(s, x) => Pending(stack, x) \/ x = fr
    BY <1>3, <1>4 DEF Pending
  <2>2. Pending(stack, x) => Pending(s, x)
    BY <1>5 DEF Pending
  <2>3. x = fr => Pending(s, x)
    BY <1>3, <1>6 DEF Pending
  <2> QED  BY <2>1, <2>2, <2>3
<1>9. ASSUME NEW F, OneCallEach(stack, F), f \in F => ~InCall(stack, f) PROVE OneCallEach(s, F)
  <2> SUFFICES ASSUME NEW j \in DOMAIN s, NEW k \in DOMAIN s,
                      s[j].fut \in F, s[j].fut = s[k].fut
               PROVE  j = k
    BY DEF OneCallEach
  <2>1. f \in F => \A i \in DOMAIN stack : stack[i].fut # f
    BY <1>9 DEF InCall
  <2>2. CASE j = 1 \/ k = 1
    BY <1>1, <1>3, <1>4, <2>1, <2>2
  <2>3. CASE j # 1 /\ k # 1
    <3>1. j - 1 = k - 1
      BY <1>4, <1>9, <2>3 DEF OneCallEach
    <3> QED  BY <1>3, <3>1
  <2> QED  BY <2>2, <2>3
<1> QED  BY <1>3, <1>7, <1>8, <1>9 DEF fr, s

\* The call on top returns: its frame is gone and, if it is of a future, that future
\* has no call in progress any more.
LEMMA ReturnRemoves ==
  ASSUME NEW S, NEW F, NEW stack \in Seq(S), NEW o, NEW f, Suspended(stack, o, f),
         OneCallEach(stack, F)
  PROVE  /\ Tail(stack) \in Seq(S)
         /\ InCall(stack, f) /\ Pending(stack, Frame(o, f))
         /\ OneCallEach(Tail(stack), F)
         /\ \A g : InCall(Tail(stack), g) => InCall(stack, g)
         /\ \A g : InCall(stack, g) /\ g # f => InCall(Tail(stack), g)
         /\ \A fr : Pending(Tail(stack), fr) => Pending(stack, fr)
         /\ \A fr : Pending(stack, fr) /\ fr # Frame(o, f) => Pending(Tail(stack), fr)
         /\ f \in F => ~InCall(Tail(stack), f) /\ ~Pending(Tail(stack), Frame(o, f))
<1> DEFINE t == Tail(stack)
<1>1. /\ t \in Seq(S) /\ Len(stack) \in Nat /\ Len(stack) > 0
      /\ DOMAIN stack = 1 .. Len(stack) /\ DOMAIN t = 1 .. Len(stack) - 1
      /\ \A i \in 1 .. Len(stack) - 1 : t[i] = stack[i + 1]
      /\ stack[1] = Frame(o, f)
  BY DEF Suspended
<1> HIDE DEF t
<1>2. stack[1].fut = f /\ 1 \in DOMAIN stack
  BY <1>1 DEF Frame
<1>3. \A i \in DOMAIN t : i + 1 \in DOMAIN stack /\ i + 1 # 1 /\ t[i] = stack[i + 1]
  BY <1>1
<1>4. \A j \in DOMAIN stack : j = 1 \/ (j - 1 \in DOMAIN t /\ stack[j] = t[j - 1])
  BY <1>1
<1>5. f \in F => \A i \in DOMAIN t : t[i].fut # f /\ t[i] # Frame(o, f)
  <2>1. f \in F => \A i \in DOMAIN t : t[i].fut # f
    BY <1>2, <1>3 DEF OneCallEach
  <2> QED  BY <2>1 DEF Frame
<1>6. InCall(stack, f) /\ Pending(stack, Frame(o, f))
  BY <1>1, <1>2 DEF InCall, Pending
<1>7. OneCallEach(t, F)
  <2> SUFFICES ASSUME NEW j \in DOMAIN t, NEW k \in DOMAIN t,
                      t[j].fut \in F, t[j].fut = t[k].fut
               PROVE  j = k
    BY DEF OneCallEach
  <2>1. j + 1 = k + 1
    BY <1>3 DEF OneCallEach
  <2> QED  BY <1>1, <2>1
<1>8. \A g : InCall(t, g) => InCall(stack, g)
  BY <1>3 DEF InCall
<1>9. \A g : InCall(stack, g) /\ g # f => InCall(t, g)
  BY <1>2, <1>4 DEF InCall
<1>10. \A fr : Pending(t, fr) => Pending(stack, fr)
  BY <1>3 DEF Pending
<1>11. \A fr : Pending(stack, fr) /\ fr # Frame(o, f) => Pending(t, fr)
  BY <1>1, <1>4 DEF Pending
<1>12. f \in F => ~InCall(t, f) /\ ~Pending(t, Frame(o, f))
  BY <1>5 DEF InCall, Pending
<1> QED  BY <1>1, <1>6, <1>7, <1>8, <1>9, <1>10, <1>11, <1>12 DEF t

\* The same for the call of a future, where only that future's calls change.
LEMMA FutureReturns ==
  ASSUME NEW S, NEW F, NEW stack \in Seq(S), NEW o, NEW f \in F, Suspended(stack, o, f),
         OneCallEach(stack, F)
  PROVE  /\ Tail(stack) \in Seq(S)
         /\ InCall(stack, f) /\ Pending(stack, Frame(o, f))
         /\ OneCallEach(Tail(stack), F)
         /\ \A g : InCall(Tail(stack), g) <=> InCall(stack, g) /\ g # f
         /\ \A fr : Pending(Tail(stack), fr) <=> Pending(stack, fr) /\ fr # Frame(o, f)
<1>1. /\ Tail(stack) \in Seq(S)
      /\ InCall(stack, f) /\ Pending(stack, Frame(o, f))
      /\ OneCallEach(Tail(stack), F)
      /\ \A g : InCall(Tail(stack), g) => InCall(stack, g)
      /\ \A g : InCall(stack, g) /\ g # f => InCall(Tail(stack), g)
      /\ \A fr : Pending(Tail(stack), fr) => Pending(stack, fr)
      /\ \A fr : Pending(stack, fr) /\ fr # Frame(o, f) => Pending(Tail(stack), fr)
      /\ ~InCall(Tail(stack), f) /\ ~Pending(Tail(stack), Frame(o, f))
  BY ReturnRemoves
<1>2. \A g : InCall(Tail(stack), g) <=> InCall(stack, g) /\ g # f
  BY <1>1, Zenon
<1>3. \A fr : Pending(Tail(stack), fr) <=> Pending(stack, fr) /\ fr # Frame(o, f)
  BY <1>1, Zenon
<1> QED  BY <1>1, <1>2, <1>3

-----------------------------------------------------------------------------
(* The wakeup slots of the primitives that cross threads. *)

\* Every operation of a slot returns a slot.
LEMMA SlotOpsType ==
  ASSUME NEW Wakers, NEW Threads, NEW s \in SlotType(Wakers, Threads),
         NEW t \in Threads, NEW w \in Wakers
  PROVE  /\ SignalLoad(s, t) \in SlotType(Wakers, Threads)
         /\ SignalStep(s, t) \in SlotType(Wakers, Threads)
         /\ Polled(s, w) \in SlotType(Wakers, Threads)
         /\ \A n \in RegisterWaker(s, w) : n \in SlotType(Wakers, Threads)
         /\ SetArmed(s) \in SlotType(Wakers, Threads)
         /\ Disarm(s) \in SlotType(Wakers, Threads)
<1> USE DEF SlotType, SigPhase
<1>1. SignalLoad(s, t) \in SlotType(Wakers, Threads)
  BY DEF SignalLoad
<1>2. SignalSwap(s, t) \in SlotType(Wakers, Threads)
  BY DEF SignalSwap
<1>3. SignalWake(s, t) \in SlotType(Wakers, Threads)
  <2>1. (s.woken \cup {s.waker}) \ {NoWaker} \in SUBSET Wakers
    OBVIOUS
  <2> QED  BY <2>1 DEF SignalWake
<1>4. SignalStep(s, t) \in SlotType(Wakers, Threads)
  BY <1>2, <1>3 DEF SignalStep
<1>5. Polled(s, w) \in SlotType(Wakers, Threads)
  BY DEF Polled
<1>6. ASSUME NEW n \in RegisterWaker(s, w) PROVE n \in SlotType(Wakers, Threads)
  BY <1>6 DEF RegisterWaker
<1>7. SetArmed(s) \in SlotType(Wakers, Threads) /\ Disarm(s) \in SlotType(Wakers, Threads)
  BY DEF SetArmed, Disarm
<1> QED  BY <1>1, <1>4, <1>5, <1>6, <1>7

\* The waker of w is stored, or has fired since w was last polled.
Registered(s, w) == s.waker = w \/ w \in s.woken

\* The flag load of signal() sees a waiter that is armed, and then is bound to wake it.
LEMMA SignalLoadWakes ==
  ASSUME NEW Wakers, NEW Threads, NEW s \in SlotType(Wakers, Threads),
         NEW t \in Threads, NEW w \in Wakers, Quiet(s, t)
  PROVE  /\ SignalLoad(s, t).armed <=> s.armed
         /\ Registered(s, w) => Registered(SignalLoad(s, t), w)
         /\ WakeComing(s, w) => WakeComing(SignalLoad(s, t), w)
         /\ s.armed /\ Registered(s, w) => WakeComing(SignalLoad(s, t), w)
<1> DEFINE n == SignalLoad(s, t)
<1>1. CASE ~s.armed
  <2>1. n = s
    BY <1>1 DEF SignalLoad
  <2> QED  BY <1>1, <2>1
<1>2. CASE s.armed
  <2>1. n = [s EXCEPT !.sig[t] = "swap"]
    BY <1>2 DEF SignalLoad
  <2>2. n.armed = s.armed /\ n.waker = s.waker /\ n.woken = s.woken
    BY <2>1 DEF SlotType
  <2>3. n.sig = [s.sig EXCEPT ![t] = "swap"] /\ s.sig \in [Threads -> SigPhase]
    BY <2>1 DEF SlotType
  <2>4. DOMAIN n.sig = DOMAIN s.sig /\ t \in DOMAIN n.sig /\ n.sig[t] = "swap"
        /\ \A u \in DOMAIN s.sig : u # t => n.sig[u] = s.sig[u]
    BY <2>3
  <2> HIDE DEF n
  <2>5. Registered(s, w) => Registered(n, w)
    BY <2>2 DEF Registered
  <2>6. s.armed /\ Registered(s, w) => WakeComing(n, w)
    BY <1>2, <2>2, <2>4, Zenon DEF Registered, WakeComing
  <2>7. WakeComing(s, w) => WakeComing(n, w)
    BY <1>2, <2>6, Zenon DEF Registered, WakeComing
  <2> QED  BY <2>2, <2>5, <2>6, <2>7, Zenon DEF n
<1> QED  BY <1>1, <1>2

\* The rest of signal() wakes the waiter, or leaves it armed.
LEMMA SignalStepWakes ==
  ASSUME NEW Wakers, NEW Threads, NEW s \in SlotType(Wakers, Threads),
         NEW t \in Threads, NEW w \in Wakers, w # NoWaker, ~Quiet(s, t), Registered(s, w)
  PROVE  /\ Registered(SignalStep(s, t), w)
         /\ WakeComing(s, w) => WakeComing(SignalStep(s, t), w)
         /\ s.armed => SignalStep(s, t).armed \/ WakeComing(SignalStep(s, t), w)
<1>1. s.sig \in [Threads -> SigPhase] /\ DOMAIN s.sig = Threads
  BY DEF SlotType
<1>2. CASE s.sig[t] = "swap" /\ s.armed
  <2> DEFINE n == [s EXCEPT !.armed = FALSE, !.sig[t] = "wake"]
  <2>1. SignalStep(s, t) = n
    BY <1>2 DEF SignalStep, SignalSwap
  <2>2. n.waker = s.waker /\ n.woken = s.woken
    BY DEF SlotType
  <2>3. n.sig = [s.sig EXCEPT ![t] = "wake"]
    BY DEF SlotType
  <2>4. t \in DOMAIN n.sig /\ n.sig[t] = "wake"
    BY <1>1, <2>3
  <2> HIDE DEF n
  <2>5. WakeComing(n, w) /\ Registered(n, w)
    BY <2>2, <2>4, Zenon DEF Registered, WakeComing
  <2> QED  BY <2>1, <2>5, Zenon
<1>3. CASE s.sig[t] = "swap" /\ ~s.armed
  <2> DEFINE n == [s EXCEPT !.sig[t] = "idle"]
  <2>1. SignalStep(s, t) = n
    BY <1>3 DEF SignalStep, SignalSwap
  <2>2. n.waker = s.waker /\ n.woken = s.woken
    BY DEF SlotType
  <2>3. n.sig = [s.sig EXCEPT ![t] = "idle"]
    BY DEF SlotType
  <2>4. DOMAIN n.sig = DOMAIN s.sig /\ \A u \in DOMAIN s.sig : u # t => n.sig[u] = s.sig[u]
    BY <1>1, <2>3
  <2> HIDE DEF n
  <2>5. "swap" # "wake"
    OBVIOUS
  <2>6. WakeComing(s, w) => WakeComing(n, w)
    BY <1>3, <2>2, <2>4, <2>5, Zenon DEF WakeComing
  <2>7. Registered(n, w)
    BY <2>2 DEF Registered
  <2> QED  BY <1>3, <2>1, <2>6, <2>7, Zenon
<1>4. CASE s.sig[t] # "swap"
  <2> DEFINE n == [s EXCEPT !.woken = (@ \cup {s.waker}) \ {NoWaker},
                            !.waker = NoWaker, !.sig[t] = "idle"]
  <2>1. SignalStep(s, t) = n
    BY <1>4 DEF SignalStep, SignalWake
  <2>2. n.woken = (s.woken \cup {s.waker}) \ {NoWaker}
    BY DEF SlotType
  <2> HIDE DEF n
  <2>3. w \in n.woken
    BY <2>2 DEF Registered
  <2>4. WakeComing(n, w) /\ Registered(n, w)
    BY <2>3, Zenon DEF Registered, WakeComing
  <2> QED  BY <2>1, <2>4, Zenon
<1> QED  BY <1>2, <1>3, <1>4

\* What the waiting side does to its slot.
LEMMA WaiterOps ==
  ASSUME NEW Wakers, NEW Threads, NEW s \in SlotType(Wakers, Threads), NEW w \in Wakers
  PROVE  /\ \A n \in RegisterWaker(s, w) : Registered(n, w) /\ n.sig = s.sig
         /\ SetArmed(s).armed /\ SetArmed(s).sig = s.sig
         /\ Registered(s, w) => Registered(SetArmed(s), w)
         /\ Disarm(s).sig = s.sig /\ Polled(s, w).sig = s.sig
<1>1. ASSUME NEW n \in RegisterWaker(s, w) PROVE Registered(n, w) /\ n.sig = s.sig
  BY <1>1 DEF RegisterWaker, Registered, SlotType
<1>2. SetArmed(s).armed
  BY DEF SetArmed, SlotType
<1>3. SetArmed(s).sig = s.sig /\ Disarm(s).sig = s.sig /\ Polled(s, w).sig = s.sig
  BY DEF SetArmed, Disarm, Polled, SlotType
<1>4. Registered(s, w) => Registered(SetArmed(s), w)
  BY DEF SetArmed, Registered, SlotType
<1> QED  BY <1>1, <1>2, <1>3, <1>4, Zenon
=============================================================================
