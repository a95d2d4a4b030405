-------------------------------- MODULE RwLock --------------------------------
(***************************************************************************)
(* src/site_c/rwlock.rs: LocalRwLock, its read and write futures and its   *)
(* guards, with calls re-entering from the waker callbacks.                *)
(***************************************************************************)
EXTENDS LocalWaiters, FiniteSets

CONSTANTS Readers, Writers,   \* the futures and guards that may exist at a time
          MaxDepth            \* bound on the calls suspended in callbacks

Futures == Readers \cup Writers

\* The frame of wake_next's loop over the readers belongs to no future in particular.
WakeLoop == "wake loop"

ASSUME RwLockAssumption ==
  /\ IsFiniteSet(Futures) /\ Readers \cap Writers = {} /\ WakeLoop \notin Futures
  /\ MaxDepth \in Nat

VARIABLES readers, writer,    \* LocalRwLock.readers, .writer
          rq, wq,             \* read_waiters and write_waiters, by token
          status,             \* of each future: not polled yet, waiting, or a guard
          woken,              \* futures whose waker fired since they were last polled
          stack               \* calls suspended in a waker callback

vars == <<readers, writer, rq, wq, status, woken, stack>>

TypeOK ==
  /\ readers \in 0 .. Cardinality(Futures) /\ writer \in BOOLEAN
  /\ rq \in Seq(Readers) /\ wq \in Seq(Writers)
  /\ status \in [Futures -> {"new", "waiting", "held"}]
  /\ woken \in SUBSET Futures
  /\ stack \in Seq([op : {"clone", "recheck", "cancel", "readers"},
                    fut : Futures \cup {WakeLoop}])

Init ==
  /\ readers = 0 /\ writer = FALSE /\ rq = <<>> /\ wq = <<>>
  /\ status = [f \in Futures |-> "new"] /\ woken = {} /\ stack = <<>>

SetStatus(f, s) == status' = [status EXCEPT ![f] = s]

\* wake_next, for the given readers and writer and queues, in a call whose stack is
\* s.  Woken readers may call back before the loop pops the next one.
WakeNext(n, w, r, q, s) ==
  \/ /\ w \/ n > 0 \/ (q = <<>> /\ r = <<>>)
     /\ rq' = r /\ wq' = q /\ stack' = s /\ UNCHANGED woken
  \/ /\ ~w /\ n = 0 /\ q # <<>>
     /\ woken' = woken \cup {Head(q)}
     /\ rq' = r /\ wq' = Tail(q) /\ stack' = s
  \/ /\ ~w /\ n = 0 /\ q = <<>> /\ r # <<>>
     /\ woken' = woken \cup {Head(r)}
     /\ rq' = Tail(r) /\ wq' = q /\ stack' = Enter(s, "readers", WakeLoop)

\* wake_next: the next turn of its loop, which looks at nothing but the queue.
WakeReaders ==
  /\ Suspended(stack, "readers", WakeLoop)
  /\ \/ /\ rq # <<>>
        /\ woken' = woken \cup {Head(rq)} /\ rq' = Tail(rq) /\ UNCHANGED stack
     \/ rq = <<>> /\ stack' = Tail(stack) /\ UNCHANGED <<woken, rq>>
  /\ UNCHANGED <<readers, writer, wq, status>>

\* A slip: a writer looks at the writer flag only.
CanTake_IgnoreReaders(f) == ~writer /\ (f \in Readers => wq = <<>>)

\* try_read_fair for a reader, try_write for a writer.
CanTake(f) == ~writer /\ (IF f \in Readers THEN wq = <<>> ELSE readers = 0)

\* The lock is taken and f becomes a guard.
Take(f) ==
  /\ readers' = IF f \in Readers THEN readers + 1 ELSE readers
  /\ writer' = (f \in Writers)
  /\ SetStatus(f, "held")

Deregister(f) == rq' = Without(rq, f) /\ wq' = Without(wq, f)

\* try_read (opportunistic: also past queued writers; the one of Debug::fmt too)
\* and try_write.
TryTake(f) ==
  /\ status[f] = "new" /\ ~InCall(stack, f)
  /\ ~writer /\ (f \in Writers => readers = 0)
  /\ Take(f)
  /\ UNCHANGED <<rq, wq, woken, stack>>

\* poll of a read or a write future: take the lock, or find the entry still good
\* (`same` waker and queued), or go on to clone the waker.
Poll(f, same) ==
  /\ status[f] \in {"new", "waiting"} /\ ~InCall(stack, f)
  /\ woken' = woken \ {f}
  /\ \/ CanTake(f) /\ Take(f) /\ Deregister(f) /\ UNCHANGED stack
     \/ /\ ~CanTake(f)
        /\ stack' = IF same /\ (Queued(rq, f) \/ Queued(wq, f))
                    THEN stack ELSE Enter(stack, "clone", f)
        /\ UNCHANGED <<readers, writer, rq, wq, status>>

\* register_in: the entry goes to the back; then the old waker is dropped.  A wake
\* that came in before may have gone to the waker the entry held until now.
Register(f) ==
  /\ Suspended(stack, "clone", f)
  /\ rq' = IF f \in Readers THEN Requeue(rq, f) ELSE rq
  /\ wq' = IF f \in Writers THEN Requeue(wq, f) ELSE wq
  /\ woken' = woken \ {f} /\ stack' = Enter(Tail(stack), "recheck", f)
  /\ UNCHANGED <<readers, writer, status>>

\* poll: the second attempt.
Recheck(f) ==
  /\ Suspended(stack, "recheck", f)
  /\ stack' = Tail(stack)
  /\ \/ CanTake(f) /\ Take(f) /\ Deregister(f)
     \/ ~CanTake(f) /\ SetStatus(f, "waiting") /\ UNCHANGED <<readers, writer, rq, wq>>
  /\ UNCHANGED woken

\* A slip: the entry of a dropped future stays in its queue.
Cancel_LeaveEntry(f) ==
  /\ status[f] = "waiting" /\ ~InCall(stack, f)
  /\ SetStatus(f, "new") /\ woken' = woken \ {f}
  /\ stack' = Enter(stack, "cancel", f)
  /\ UNCHANGED <<readers, writer, rq, wq>>

\* LocalRwLockReadFuture::drop, LocalRwLockWriteFuture::drop: deregister, which
\* drops the waker ...
Cancel(f) ==
  /\ status[f] = "waiting" /\ ~InCall(stack, f)
  /\ Deregister(f) /\ SetStatus(f, "new") /\ woken' = woken \ {f}
  /\ stack' = Enter(stack, "cancel", f)
  /\ UNCHANGED <<readers, writer>>

\* A slip: a cancelled future keeps the turn it was given.
CancelWake_Skipped(f) ==
  /\ Suspended(stack, "cancel", f)
  /\ stack' = Tail(stack)
  /\ UNCHANGED <<readers, writer, rq, wq, status, woken>>

\* ... then pass the turn on.
CancelWake(f) ==
  /\ Suspended(stack, "cancel", f)
  /\ WakeNext(readers, writer, rq, wq, Tail(stack))
  /\ UNCHANGED <<readers, writer, status>>

\* LocalRwLockReadGuard::drop: release_read.
ReleaseRead(f) ==
  /\ f \in Readers /\ status[f] = "held"
  /\ readers' = readers - 1 /\ SetStatus(f, "new")
  /\ WakeNext(readers - 1, writer, rq, wq, stack)
  /\ UNCHANGED writer

\* LocalRwLockWriteGuard::drop: release_write.
ReleaseWrite(f) ==
  /\ f \in Writers /\ status[f] = "held"
  /\ writer' = FALSE /\ SetStatus(f, "new")
  /\ WakeNext(readers, FALSE, rq, wq, stack)
  /\ UNCHANGED readers

-----------------------------------------------------------------------------

GoOn(f) == Register(f) \/ Recheck(f) \/ CancelWake(f)

Release(f) == ReleaseRead(f) \/ ReleaseWrite(f)

\* The call on top of the stack goes on.
Resume == WakeReaders \/ \E f \in Futures : GoOn(f)

Next ==
  \/ Resume
  \/ /\ Len(stack) < MaxDepth
     /\ \E f \in Futures :
          \/ TryTake(f) \/ Release(f) \/ Cancel(f)
          \/ \E same \in BOOLEAN : Poll(f, same)

Spec == Init /\ [][Next]_vars

\* The same lock used through read().await and write().await alone, by wakers that
\* do not call back: every guard is dropped, and every woken task polled.
AsyncNext ==
  \/ Resume
  \/ stack = <<>> /\ \E f \in Futures : Poll(f, TRUE) \/ Release(f) \/ Cancel(f)

AsyncSpec ==
  /\ Init /\ [][AsyncNext]_vars /\ WF_vars(Resume)
  /\ \A f \in Futures :
       /\ SF_vars(stack = <<>> /\ Release(f))
       /\ SF_vars(stack = <<>> /\ f \in woken /\ Poll(f, TRUE))

-----------------------------------------------------------------------------
(* Properties. *)

Held(S) == {f \in S : status[f] = "held"}

\* A writer's guard excludes every other guard, and the two fields count the
\* guards that exist ("multiple concurrent readers or a single exclusive writer").
GuardsExclude ==
  /\ TypeOK
  /\ Cardinality(Held(Writers)) <= 1
  /\ Held(Writers) # {} => Held(Readers) = {}
  /\ readers = Cardinality(Held(Readers)) /\ (writer <=> Held(Writers) # {})

\* "a non-empty `write_waiters` always means a *live* writer is queued": entries are
\* unique, and each one's future is alive.
EntriesAreLive ==
  /\ \A i, j \in DOMAIN wq : wq[i] = wq[j] => i = j
  /\ \A i, j \in DOMAIN rq : rq[i] = rq[j] => i = j
  /\ \A f \in Futures : (Queued(wq, f) \/ Queued(rq, f)) =>
       status[f] = "waiting" \/ InCall(stack, f)

\* When the lock is free and futures are queued, some future popped before has been
\* woken and is alive to take the lock or pass the turn on, or a call in progress
\* will do so.  If a writer is queued that future is a writer: readers would only
\* defer to the queue.
FreeLockHasHeir ==
  (~writer /\ readers = 0 /\ stack = <<>>) =>
    /\ wq # <<>> => \E f \in woken \cap Writers : status[f] = "waiting"
    /\ rq # <<>> => \E f \in woken : status[f] = "waiting"

\* "so writers are not starved by a stream of readers": a waiting writer gets the
\* lock, or is dropped by its owner.
WriterNotStarved ==
  \A f \in Writers : status[f] = "waiting" ~> status[f] # "waiting"
=============================================================================
