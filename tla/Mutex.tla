-------------------------------- MODULE Mutex --------------------------------
(***************************************************************************)
(* src/site_c/mutex.rs: LocalMutex, its lock futures (polled, woken,       *)
(* polled again with the same or another waker, dropped) and its guards,   *)
(* with calls re-entering from the waker callbacks.                        *)
(***************************************************************************)
EXTENDS LocalWaiters

CONSTANT Futures     \* the futures and guards that may exist at a time

VARIABLES locked,    \* LocalMutex.locked
          queue,     \* LocalMutex.waiters, by token
          status,    \* of each future: not polled yet, waiting, or turned into a guard
          woken,     \* futures whose waker fired since they were last polled
          stack      \* calls suspended in a waker callback

vars == <<locked, queue, status, woken, stack>>

TypeOK ==
  /\ locked \in BOOLEAN
  /\ queue \in Seq(Futures)
  /\ status \in [Futures -> {"new", "waiting", "held"}]
  /\ woken \in SUBSET Futures
  /\ stack \in Seq([op : {"clone", "recheck", "cancel"}, fut : Futures])

Init ==
  /\ locked = FALSE /\ queue = <<>> /\ status = [f \in Futures |-> "new"]
  /\ woken = {} /\ stack = <<>>

SetStatus(f, s) == status' = [status EXCEPT ![f] = s]

\* wake_next, for a lock and a queue in the given state.
WakeNext(l, q) ==
  IF l \/ q = <<>>
  THEN queue' = q /\ UNCHANGED woken
  ELSE queue' = Tail(q) /\ woken' = woken \cup {Head(q)}

\* try_lock (also the one Debug::fmt makes): barges past any waiter.
TryLock(f) ==
  /\ status[f] = "new" /\ ~InCall(stack, f)
  /\ ~locked /\ locked' = TRUE /\ SetStatus(f, "held")
  /\ UNCHANGED <<queue, woken, stack>>

\* The lock is taken and f's entry is removed: Ready(guard).
Acquire(f) == locked' = TRUE /\ queue' = Without(queue, f) /\ SetStatus(f, "held")

\* poll: take the lock, or find the entry still good (`same` waker and queued), or
\* go on to clone the waker.
Poll(f, same) ==
  /\ status[f] \in {"new", "waiting"} /\ ~InCall(stack, f)
  /\ woken' = woken \ {f}
  /\ \/ ~locked /\ Acquire(f) /\ UNCHANGED stack
     \/ /\ locked /\ Queued(queue, f) /\ same
        /\ UNCHANGED <<locked, queue, status, stack>>
     \/ /\ locked /\ ~(Queued(queue, f) /\ same)
        /\ stack' = Enter(stack, "clone", f)
        /\ UNCHANGED <<locked, queue, status>>

\* register: the entry goes to the back; then the old waker is dropped.  A wake
\* that came in before may have gone to the waker the entry held until now.
Register(f) ==
  /\ Suspended(stack, "clone", f)
  /\ queue' = Requeue(queue, f) /\ woken' = woken \ {f}
  /\ stack' = Enter(Tail(stack), "recheck", f)
  /\ UNCHANGED <<locked, status>>

\* A slip: the future takes its turn without looking at the lock.
Recheck_Unchecked(f) ==
  /\ Suspended(stack, "recheck", f)
  /\ stack' = Tail(stack) /\ Acquire(f)
  /\ UNCHANGED woken

\* A slip: poll returns Pending without trying the lock again.
Recheck_Skipped(f) ==
  /\ Suspended(stack, "recheck", f)
  /\ stack' = Tail(stack) /\ SetStatus(f, "waiting")
  /\ UNCHANGED <<locked, queue, woken>>

\* poll: the second try_lock.
Recheck(f) ==
  /\ Suspended(stack, "recheck", f)
  /\ stack' = Tail(stack)
  /\ \/ ~locked /\ Acquire(f)
     \/ locked /\ SetStatus(f, "waiting") /\ UNCHANGED <<locked, queue>>
  /\ UNCHANGED woken

\* A slip: the entry of a dropped future stays in the queue.
Cancel_LeaveEntry(f) ==
  /\ status[f] = "waiting" /\ ~InCall(stack, f)
  /\ SetStatus(f, "new") /\ woken' = woken \ {f}
  /\ stack' = Enter(stack, "cancel", f)
  /\ UNCHANGED <<locked, queue>>

\* LocalMutexLockFuture::drop: deregister, which drops the waker ...
Cancel(f) ==
  /\ status[f] = "waiting" /\ ~InCall(stack, f)
  /\ queue' = Without(queue, f) /\ SetStatus(f, "new") /\ woken' = woken \ {f}
  /\ stack' = Enter(stack, "cancel", f)
  /\ UNCHANGED locked

\* A slip: a cancelled future keeps the turn it was given.
CancelWake_Skipped(f) ==
  /\ Suspended(stack, "cancel", f)
  /\ stack' = Tail(stack)
  /\ UNCHANGED <<locked, queue, status, woken>>

\* ... then pass the turn on.
CancelWake(f) ==
  /\ Suspended(stack, "cancel", f)
  /\ WakeNext(locked, queue) /\ stack' = Tail(stack)
  /\ UNCHANGED <<locked, status>>

\* LocalMutexGuard::drop: unlock.
Unlock(f) ==
  /\ status[f] = "held"
  /\ locked' = FALSE /\ WakeNext(FALSE, queue) /\ SetStatus(f, "new")
  /\ UNCHANGED stack

-----------------------------------------------------------------------------

GoOn(f) == Register(f) \/ Recheck(f) \/ CancelWake(f)

Next ==
  \E f \in Futures :
    \/ TryLock(f) \/ Unlock(f) \/ Cancel(f) \/ GoOn(f)
    \/ \E same \in BOOLEAN : Poll(f, same)

Spec == Init /\ [][Next]_vars

\* Callbacks return, guards are dropped, and a woken task is polled.
Fairness ==
  /\ WF_vars(\E f \in Futures : GoOn(f))
  /\ \A f \in Futures :
       WF_vars(Unlock(f)) /\ WF_vars(f \in woken /\ Poll(f, TRUE))

FairSpec == Spec /\ Fairness

-----------------------------------------------------------------------------
(* Properties. *)

\* At most one guard exists, and the lock is marked taken exactly while one does
\* (the SAFETY comment of Deref: "We hold the lock, guaranteeing exclusive
\* access"), however polls re-enter.
GuardIsExclusive ==
  LET holders == {f \in Futures : status[f] = "held"}
  IN  /\ TypeOK
      /\ \A f, g \in holders : f = g
      /\ locked <=> holders # {}

\* "Keeps at most one queue entry per live future": no future is queued twice and
\* no entry outlives its future, so no wake is spent on the dead.
EntriesAreLive ==
  /\ \A i, j \in DOMAIN queue : queue[i] = queue[j] => i = j
  /\ \A i \in DOMAIN queue :
       status[queue[i]] = "waiting" \/ InCall(stack, queue[i])

\* When the lock is free and futures are queued, one of those popped before has
\* been woken and is still alive to take the lock or pass the turn on, or a call
\* in progress will do so: waking exactly one waiter never strands the rest.
FreeLockHasHeir ==
  (~locked /\ queue # <<>>) =>
    \/ \E f \in woken : status[f] = "waiting"
    \/ stack # <<>>

\* A free lock does not stay free while futures are queued for it.
FreeLockIsTaken == (~locked /\ queue # <<>>) ~> (locked \/ queue = <<>>)
=============================================================================
