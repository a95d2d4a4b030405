----------------------------- MODULE LocalWaiters -----------------------------
(***************************************************************************)
(* The waiter queues of the single-threaded primitives (LocalMutex,        *)
(* LocalRwLock, LocalSemaphore): each entry carries the token of the       *)
(* future it belongs to, here the future itself.  The wait-list of the     *)
(* light channel is kept in the same way.                                  *)
(*                                                                         *)
(* These primitives run on one thread, but Waker::clone, Waker::drop and   *)
(* Waker::wake are user code that may call back into the primitive.  The   *)
(* calls that are suspended in such a callback form a stack of frames      *)
(* [op, fut]; only the call on top can go on, and any new call may start   *)
(* above it.                                                               *)
(***************************************************************************)
EXTENDS Naturals, Sequences

Queued(q, f) == \E i \in DOMAIN q : q[i] = f

\* f's entry is at the front.
Front(q, f) == q # <<>> /\ Head(q) = f

\* take_where on the token of f: its entry is removed, the others keep their order.
Without(q, f) ==
  IF Queued(q, f)
  THEN LET i == CHOOSE i \in DOMAIN q : q[i] = f
       IN  [j \in 1 .. Len(q) - 1 |-> IF j < i THEN q[j] ELSE q[j + 1]]
  ELSE q

\* The end of register(): an old entry is removed and the new one goes to the back.
Requeue(q, f) == Append(Without(q, f), f)

Frame(o, f) == [op |-> o, fut |-> f]

\* The call on top of the stack is f's, suspended at o.
Suspended(stack, o, f) == stack # <<>> /\ Head(stack) = Frame(o, f)

Enter(stack, o, f) == <<Frame(o, f)>> \o stack

InCall(stack, f) == \E i \in DOMAIN stack : stack[i].fut = f

\* A call has still to go on from this point.
Pending(stack, frame) == \E i \in DOMAIN stack : stack[i] = frame
=============================================================================
