------------------------------ MODULE Semaphore ------------------------------
(***************************************************************************)
(* src/site_c/semaphore.rs: LocalSemaphore, its acquire futures and its    *)
(* permits, with calls re-entering from the waker callbacks.               *)
(***************************************************************************)
EXTENDS LocalWaiters, FiniteSets

CONSTANTS Futures,      \* the futures and permits that may exist at a time
          Need,         \* how many permits each of them asks for
          Initial,      \* permits the semaphore is created with
          MaxPermits,   \* bound on the permits in circulation
          WakerChanges  \* whether a queued future may be polled with another waker

ASSUME SemaphoreAssumption ==
  /\ Need \in [Futures -> Nat] /\ Initial \in Nat /\ MaxPermits \in Nat
  /\ Initial <= MaxPermits /\ WakerChanges \in BOOLEAN

VARIABLES permits,   \* LocalSemaphore.permits
          queue,     \* LocalSemaphore.waiters, by token
          status,    \* of each future; "granted" from taking its permits to Ready
          woken,     \* futures whose waker fired since they were last polled
          stack,     \* calls suspended in a waker callback
          total,     \* permits in circulation (history)
          line       \* waiting futures in the order they first queued (history)

vars == <<permits, queue, status, woken, stack, total, line>>

TypeOK ==
  /\ permits \in 0 .. MaxPermits /\ total \in 0 .. MaxPermits
  /\ queue \in Seq(Futures) /\ line \in Seq(Futures)
  /\ status \in [Futures -> {"new", "waiting", "granted", "held"}]
  /\ woken \in SUBSET Futures
  /\ stack \in Seq([op : {"clone", "recheck", "cascade", "return", "cancel"},
                    fut : Futures])

Init ==
  /\ permits = Initial /\ queue = <<>> /\ status = [f \in Futures |-> "new"]
  /\ woken = {} /\ stack = <<>> /\ total = Initial /\ line = <<>>

SetStatus(f, s) == status' = [status EXCEPT ![f] = s]

\* wake_next, with p permits: the front is woken if p is enough for it, and stays
\* queued until it has acquired.
WakeNext(p) ==
  woken' = IF queue # <<>> /\ p >= Need[Head(queue)]
           THEN woken \cup {Head(queue)} ELSE woken

\* try_acquire, try_acquire_many: barges past any waiter.
TryAcquire(f) ==
  /\ status[f] = "new" /\ ~InCall(stack, f)
  /\ permits >= Need[f]
  /\ permits' = permits - Need[f] /\ SetStatus(f, "held")
  /\ UNCHANGED <<queue, woken, stack, total, line>>

\* A slip: a queued future may overtake the front.
CanAcquireFair_Unfair(f) == permits >= Need[f]

\* can_acquire_fair
CanAcquireFair(f) == permits >= Need[f] /\ (queue = <<>> \/ Front(queue, f))

\* poll: take the permits and deregister, which drops the waker; s is the stack
\* below this call.
Grant(f, s) ==
  /\ permits' = permits - Need[f] /\ SetStatus(f, "granted")
  /\ queue' = Without(queue, f) /\ line' = Without(line, f)
  /\ stack' = Enter(s, "cascade", f)

\* poll: acquire, or find the entry still good (`same` waker and queued), or go on
\* to clone the waker.
Poll(f, same) ==
  /\ status[f] \in {"new", "waiting"} /\ ~InCall(stack, f)
  /\ woken' = woken \ {f}
  /\ \/ CanAcquireFair(f) /\ Grant(f, stack)
     \/ /\ ~CanAcquireFair(f)
        /\ stack' = IF Queued(queue, f) /\ same THEN stack ELSE Enter(stack, "clone", f)
        /\ UNCHANGED <<permits, queue, status, line>>
  /\ UNCHANGED total

\* register: the entry goes to the back; then the old waker is dropped.  A wake
\* that came in before may have gone to the waker the entry held until now.
Register(f) ==
  /\ Suspended(stack, "clone", f)
  /\ queue' = Requeue(queue, f) /\ woken' = woken \ {f}
  /\ line' = IF Queued(line, f) THEN line ELSE Append(line, f)
  /\ stack' = Enter(Tail(stack), "recheck", f)
  /\ UNCHANGED <<permits, status, total>>

\* poll: the second look.
Recheck(f) ==
  /\ Suspended(stack, "recheck", f)
  /\ \/ CanAcquireFair(f) /\ Grant(f, Tail(stack))
     \/ /\ ~CanAcquireFair(f)
        /\ stack' = Tail(stack) /\ SetStatus(f, "waiting")
        /\ UNCHANGED <<permits, queue, line>>
  /\ UNCHANGED <<woken, total>>

\* A slip: what is left of the permits is offered to nobody.
Cascade_Skipped(f) ==
  /\ Suspended(stack, "cascade", f)
  /\ stack' = Enter(Tail(stack), "return", f)
  /\ UNCHANGED <<permits, queue, status, woken, total, line>>

\* poll: "remaining permits may satisfy the next waiter".
Cascade(f) ==
  /\ Suspended(stack, "cascade", f)
  /\ WakeNext(permits) /\ stack' = Enter(Tail(stack), "return", f)
  /\ UNCHANGED <<permits, queue, status, total, line>>

\* poll: Ready(Permit).
Return(f) ==
  /\ Suspended(stack, "return", f)
  /\ stack' = Tail(stack) /\ SetStatus(f, "held")
  /\ UNCHANGED <<permits, queue, woken, total, line>>

\* Acquire::drop: deregister, which drops the waker ...
Cancel(f) ==
  /\ status[f] = "waiting" /\ ~InCall(stack, f)
  /\ queue' = Without(queue, f) /\ line' = Without(line, f)
  /\ SetStatus(f, "new") /\ woken' = woken \ {f}
  /\ stack' = Enter(stack, "cancel", f)
  /\ UNCHANGED <<permits, total>>

\* ... then pass the turn on.
CancelWake(f) ==
  /\ Suspended(stack, "cancel", f)
  /\ WakeNext(permits) /\ stack' = Tail(stack)
  /\ UNCHANGED <<permits, queue, status, total, line>>

\* A slip: a permit for several gives one back.
Release_One(f) ==
  /\ status[f] = "held" /\ SetStatus(f, "new")
  /\ permits' = permits + 1 /\ WakeNext(permits + 1)
  /\ UNCHANGED <<queue, stack, total, line>>

\* Permit::drop: release.
Release(f) ==
  /\ status[f] = "held" /\ SetStatus(f, "new")
  /\ permits' = permits + Need[f] /\ WakeNext(permits + Need[f])
  /\ UNCHANGED <<queue, stack, total, line>>

\* Permit::forget: the permits leave circulation.
Forget(f) ==
  /\ status[f] = "held" /\ SetStatus(f, "new")
  /\ total' = total - Need[f]
  /\ UNCHANGED <<permits, queue, woken, stack, line>>

\* add_permits
AddPermits(n) ==
  /\ total + n <= MaxPermits
  /\ total' = total + n /\ permits' = permits + n /\ WakeNext(permits + n)
  /\ UNCHANGED <<queue, status, stack, line>>

-----------------------------------------------------------------------------

GoOn(f) ==
  Register(f) \/ Recheck(f) \/ Cascade(f) \/ Return(f) \/ CancelWake(f)

Next ==
  \/ \E f \in Futures :
       \/ TryAcquire(f) \/ Cancel(f) \/ Release(f) \/ Forget(f) \/ GoOn(f)
       \/ \E same \in {TRUE, ~WakerChanges} : Poll(f, same)
  \/ \E n \in 1 .. MaxPermits : AddPermits(n)

Spec == Init /\ [][Next]_vars

-----------------------------------------------------------------------------
(* Properties. *)

Holders == {f \in Futures : status[f] \in {"granted", "held"}}

\* The permits that are handed out, each with the future that has it.
Out == UNION {{f} \X (1 .. Need[f]) : f \in Holders}

\* No permit is lost, duplicated or handed out twice, whatever polls, cancels and
\* releases re-enter: what is free and what is held add up to what was put in.
PermitsConserved == TypeOK /\ permits + Cardinality(Out) = total

\* Whenever the front waiter could be satisfied it has been woken, or a call in
\* progress is about to look again: acquire waits only "until it is available".
SatisfiableFrontIsWoken ==
  (queue # <<>> /\ permits >= Need[Head(queue)]) =>
    \/ Head(queue) \in woken
    \/ Pending(stack, Frame("recheck", Head(queue)))
    \/ \E f \in Futures : Pending(stack, Frame("cascade", f)) \/ Pending(stack, Frame("cancel", f))

\* "the front waiter is satisfied before any later one": an acquire future takes
\* permits only if no other future has been waiting longer.
FifoFair ==
  [][\A f \in Futures :
       (status[f] # "granted" /\ status'[f] = "granted") =>
         line = <<>> \/ Front(line, f)]_vars
=============================================================================
