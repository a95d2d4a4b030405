--------------------------------- MODULE Pool ---------------------------------
(***************************************************************************)
(* src/site_c/pool.rs: LocalBufferPool, a stack of free buffers guarded by *)
(* a LocalSemaphore with one permit per free buffer.  A pool's acquire     *)
(* awaits the semaphore's (module Semaphore, every Need being 1), forgets  *)
(* the permit and pops a buffer; dropping the buffer returns both.         *)
(***************************************************************************)
EXTENDS Semaphore

CONSTANT Buffers      \* the buffers the pool is built with

NoBuffer == "no buffer"

ASSUME PoolAssumption ==
  /\ IsFiniteSet(Buffers) /\ NoBuffer \notin Buffers
  /\ Initial = Cardinality(Buffers) /\ MaxPermits = Initial
  /\ \A f \in Futures : Need[f] = 1

VARIABLES free,       \* PoolInner.free
          buffer,     \* the buffer each PooledBuffer holds
          panicked    \* check_out found no free buffer

poolVars == <<vars, free, buffer, panicked>>

PoolTypeOK ==
  /\ TypeOK
  /\ free \in Seq(Buffers)
  /\ buffer \in [Futures -> Buffers \cup {NoBuffer}]
  /\ panicked \in BOOLEAN

\* build
PoolInit ==
  /\ Init
  /\ free \in {s \in [1 .. Initial -> Buffers] : \A b \in Buffers : Queued(s, b)}
  /\ buffer = [f \in Futures |-> NoBuffer] /\ panicked = FALSE

\* A slip: the last free buffer is handed out but not removed.
PopBuffer_Peek(f) ==
  /\ panicked' = (panicked \/ free = <<>>)
  /\ buffer' = [buffer EXCEPT ![f] = IF free = <<>> THEN NoBuffer ELSE free[Len(free)]]
  /\ UNCHANGED free

\* check_out: pop the last free buffer, or panic.
PopBuffer(f) ==
  /\ panicked' = (panicked \/ free = <<>>)
  /\ buffer' = [buffer EXCEPT ![f] = IF free = <<>> THEN NoBuffer ELSE free[Len(free)]]
  /\ free' = SubSeq(free, 1, Len(free) - 1)

\* try_acquire: take a permit, forget it, check a buffer out.
PoolTryAcquire(f) ==
  /\ status[f] = "new" /\ ~InCall(stack, f)
  /\ permits >= 1 /\ permits' = permits - 1 /\ total' = total - 1
  /\ SetStatus(f, "held") /\ PopBuffer(f)
  /\ UNCHANGED <<queue, woken, stack, line>>

\* acquire, after the semaphore's future is Ready: forget the permit, check out.
CheckOut(f) ==
  /\ Suspended(stack, "return", f)
  /\ stack' = Tail(stack) /\ SetStatus(f, "held") /\ total' = total - 1
  /\ PopBuffer(f)
  /\ UNCHANGED <<permits, queue, woken, line>>

\* A slip: a buffer dropped while futures wait goes straight back to the pool's
\* count, but the buffer itself is kept.
PoolDrop_PermitOnly(f) ==
  /\ status[f] = "held" /\ SetStatus(f, "new")
  /\ buffer' = [buffer EXCEPT ![f] = NoBuffer]
  /\ total' = total + 1 /\ permits' = permits + 1 /\ WakeNext(permits + 1)
  /\ UNCHANGED <<queue, stack, line, free, panicked>>

\* PooledBuffer::drop: push the buffer, then add_permits(1).
PoolDrop(f) ==
  /\ status[f] = "held" /\ SetStatus(f, "new")
  /\ free' = Append(free, buffer[f]) /\ buffer' = [buffer EXCEPT ![f] = NoBuffer]
  /\ total' = total + 1 /\ permits' = permits + 1 /\ WakeNext(permits + 1)
  /\ UNCHANGED <<queue, stack, line, panicked>>

\* The steps of the semaphore's own future, up to its Ready.
AcquireStep(f) ==
  /\ \/ \E same \in {TRUE, ~WakerChanges} : Poll(f, same)
     \/ Register(f) \/ Recheck(f) \/ Cascade(f) \/ Cancel(f) \/ CancelWake(f)
  /\ UNCHANGED <<free, buffer, panicked>>

PoolNext ==
  \E f \in Futures :
    PoolTryAcquire(f) \/ AcquireStep(f) \/ CheckOut(f) \/ PoolDrop(f)

PoolSpec == PoolInit /\ [][PoolNext]_poolVars

-----------------------------------------------------------------------------
(* Properties. *)

Granted == {f \in Futures : status[f] = "granted"}

\* The `expect` of check_out never fires, although tasks may run (re-entering from
\* the cascade's wake) between the grant of a permit and the pop: there is a free
\* buffer for every permit, granted ones included; hence
\* "`free.len() == sem.available()` at every suspension point".
PermitImpliesBuffer ==
  PoolTypeOK /\ ~panicked /\ Len(free) = permits + Cardinality(Granted)

\* Every buffer is in exactly one place: free, or held by one borrower.
BuffersConserved ==
  /\ \A b \in Buffers :
       Queued(free, b) \/ \E f \in Futures : buffer[f] = b
  /\ \A i, j \in DOMAIN free : free[i] = free[j] => i = j
  /\ \A f \in Futures : buffer[f] # NoBuffer =>
       /\ ~Queued(free, buffer[f])
       /\ \A g \in Futures \ {f} : buffer[g] # buffer[f]
=============================================================================
