-------------------------------- MODULE Notify --------------------------------
(***************************************************************************)
(* src/site_d/notify.rs, one atomic access (or one access to the waker     *)
(* cell) per step: AtomicWaker's three-state lock, WaiterSlot's armed flag *)
(* and the handshake its documentation asks of callers.  The caller's own  *)
(* published state is the flag `ready`: a signaller sets it before         *)
(* signal(), the waiter consumes it, checks it before arm() and once more  *)
(* after.  A parked future may be polled again with another waker, polled  *)
(* without having been woken, or dropped without disarm().                 *)
(***************************************************************************)
EXTENDS WaiterSlot

CONSTANTS Wakers,       \* the wakers the waiting future may be polled with
          Signallers    \* the threads that publish and signal

Waiter == "waiter"

ASSUME NotifyAssumption == NoWaker \notin Wakers /\ Waiter \notin Signallers

VARIABLES state,   \* AtomicWaker.state, as the set of its bits; {} is WAITING
          cell,    \* AtomicWaker.waker
          armed,   \* WaiterSlot.armed
          ready,   \* the caller's published state
          fired,   \* wakers whose wake() was called and whose task was not polled since
          cur,     \* the waker of the poll in progress, or of the last one
          wpc,     \* where the waiting thread is
          spc,     \* where each signaller is
          held     \* the waker a thread has taken out of the cell

vars == <<state, cell, armed, ready, fired, cur, wpc, spc, held>>

REGISTERING == "REGISTERING"
WAKING == "WAKING"

TypeOK ==
  /\ state \in SUBSET {REGISTERING, WAKING}
  /\ cell \in Wakers \cup {NoWaker}
  /\ armed \in BOOLEAN
  /\ ready \in BOOLEAN
  /\ fired \in SUBSET Wakers
  /\ cur \in Wakers
  /\ wpc \in {"idle", "check", "lock", "store", "unlock", "grab", "reset",
              "fire", "direct", "arm", "recheck", "disarm", "parked"}
  /\ spc \in [Signallers -> {"idle", "load", "swap", "lock", "take", "unlock", "fire"}]
  /\ held \in [Signallers \cup {Waiter} -> Wakers \cup {NoWaker}]

Init ==
  /\ state = {} /\ cell = NoWaker /\ armed = FALSE /\ ready = FALSE /\ fired = {}
  /\ cur \in Wakers
  /\ wpc = "idle"
  /\ spc = [s \in Signallers |-> "idle"]
  /\ held = [t \in Signallers \cup {Waiter} |-> NoWaker]

-----------------------------------------------------------------------------
(* The waiting side: the caller's poll. *)

\* A poll starts: a new future, one whose waker fired, or a spurious poll.
Poll(w) ==
  /\ wpc \in {"idle", "parked"}
  /\ wpc' = "check" /\ cur' = w /\ fired' = fired \ {w}
  /\ UNCHANGED <<state, cell, armed, ready, spc, held>>

\* The check before arming: consume what is published, or go on to arm().
Check ==
  /\ wpc = "check"
  /\ wpc' = IF ready THEN "idle" ELSE "lock"
  /\ ready' = FALSE
  /\ UNCHANGED <<state, cell, armed, fired, cur, spc, held>>

\* register: compare_exchange(WAITING, REGISTERING).
RegisterLock ==
  /\ wpc = "lock"
  /\ \/ state = {} /\ state' = {REGISTERING} /\ wpc' = "store"
     \/ state # {} /\ wpc' = "direct" /\ UNCHANGED state
  /\ UNCHANGED <<cell, armed, ready, fired, cur, spc, held>>

\* register: the waker goes into the cell (skipping the clone of the same waker
\* leaves the cell holding that waker all the same).
RegisterStore ==
  /\ wpc = "store"
  /\ cell' = cur /\ wpc' = "unlock"
  /\ UNCHANGED <<state, armed, ready, fired, cur, spc, held>>

\* A slip: the lock is released by a plain store, so a racing wake is not seen.
RegisterUnlock_Unconditional ==
  /\ wpc = "unlock"
  /\ state' = {} /\ wpc' = "arm"
  /\ UNCHANGED <<cell, armed, ready, fired, cur, spc, held>>

\* register: compare_exchange(REGISTERING, WAITING); failure means a wake raced.
RegisterUnlock ==
  /\ wpc = "unlock"
  /\ \/ state = {REGISTERING} /\ state' = {} /\ wpc' = "arm"
     \/ state # {REGISTERING} /\ wpc' = "grab" /\ UNCHANGED state
  /\ UNCHANGED <<cell, armed, ready, fired, cur, spc, held>>

\* register, after a raced wake: take the waker back out of the cell ...
RegisterGrab ==
  /\ wpc = "grab"
  /\ held' = [held EXCEPT ![Waiter] = cell] /\ cell' = NoWaker /\ wpc' = "reset"
  /\ UNCHANGED <<state, armed, ready, fired, cur, spc>>

\* ... release both bits ...
RegisterReset ==
  /\ wpc = "reset"
  /\ state' = {} /\ wpc' = "fire"
  /\ UNCHANGED <<cell, armed, ready, fired, cur, spc, held>>

\* ... and fire it.
RegisterFire ==
  /\ wpc = "fire"
  /\ fired' = fired \cup {held[Waiter]}
  /\ held' = [held EXCEPT ![Waiter] = NoWaker] /\ wpc' = "arm"
  /\ UNCHANGED <<state, cell, armed, ready, cur, spc>>

\* A slip: nothing is done when a wake is in progress.
RegisterDirect_Ignored ==
  /\ wpc = "direct"
  /\ wpc' = "arm"
  /\ UNCHANGED <<state, cell, armed, ready, fired, cur, spc, held>>

\* register, the other branch: a wake is in progress, so wake_by_ref.
RegisterDirect ==
  /\ wpc = "direct"
  /\ fired' = fired \cup {cur} /\ wpc' = "arm"
  /\ UNCHANGED <<state, cell, armed, ready, cur, spc, held>>

\* arm: armed.store(true) after register.
Arm ==
  /\ wpc = "arm"
  /\ armed' = TRUE /\ wpc' = "recheck"
  /\ UNCHANGED <<state, cell, ready, fired, cur, spc, held>>

\* A slip: the future parks without looking again after arm().
Recheck_Skipped ==
  /\ wpc = "recheck"
  /\ wpc' = "parked"
  /\ UNCHANGED <<state, cell, armed, ready, fired, cur, spc, held>>

\* The caller's second look after arm(): consume and disarm, or park.
Recheck ==
  /\ wpc = "recheck"
  /\ wpc' = IF ready THEN "disarm" ELSE "parked"
  /\ ready' = FALSE
  /\ UNCHANGED <<state, cell, armed, fired, cur, spc, held>>

DisarmStep ==
  /\ wpc = "disarm"
  /\ armed' = FALSE /\ wpc' = "idle"
  /\ UNCHANGED <<state, cell, ready, fired, cur, spc, held>>

\* A parked future is dropped: the slot stays armed, the waker stays stored.
Cancel ==
  /\ wpc = "parked" /\ wpc' = "idle"
  /\ UNCHANGED <<state, cell, armed, ready, fired, cur, spc, held>>

WaiterNext ==
  \/ Check \/ RegisterLock \/ RegisterStore \/ RegisterUnlock \/ RegisterGrab
  \/ RegisterReset \/ RegisterFire \/ RegisterDirect \/ Arm \/ Recheck \/ DisarmStep

-----------------------------------------------------------------------------
(* The signalling side. *)

Goto(s, from, to) == spc[s] = from /\ spc' = [spc EXCEPT ![s] = to]

\* The caller makes the resource available, then calls signal().
Publish(s) ==
  /\ Goto(s, "idle", "load")
  /\ ready' = TRUE
  /\ UNCHANGED <<state, cell, armed, fired, cur, wpc, held>>

\* signal: the SeqCst load of the armed flag.
Load(s) ==
  /\ Goto(s, "load", IF armed THEN "swap" ELSE "idle")
  /\ UNCHANGED <<state, cell, armed, ready, fired, cur, wpc, held>>

\* signal_slow: armed.swap(false) claims the wake.
Swap(s) ==
  /\ Goto(s, "swap", IF armed THEN "lock" ELSE "idle")
  /\ armed' = FALSE
  /\ UNCHANGED <<state, cell, ready, fired, cur, wpc, held>>

\* A slip: the wake takes the cell whatever bits it found set.
TakeLock_Unguarded(s) ==
  /\ Goto(s, "lock", "take")
  /\ state' = state \cup {WAKING}
  /\ UNCHANGED <<cell, armed, ready, fired, cur, wpc, held>>

\* take: fetch_or(WAKING); only who found WAITING may touch the cell.
TakeLock(s) ==
  /\ Goto(s, "lock", IF state = {} THEN "take" ELSE "idle")
  /\ state' = state \cup {WAKING}
  /\ UNCHANGED <<cell, armed, ready, fired, cur, wpc, held>>

\* take: the waker moves out of the cell.
TakeCell(s) ==
  /\ Goto(s, "take", "unlock")
  /\ held' = [held EXCEPT ![s] = cell] /\ cell' = NoWaker
  /\ UNCHANGED <<state, armed, ready, fired, cur, wpc>>

\* take: fetch_and(!WAKING).
TakeUnlock(s) ==
  /\ Goto(s, "unlock", IF held[s] = NoWaker THEN "idle" ELSE "fire")
  /\ state' = state \ {WAKING}
  /\ UNCHANGED <<cell, armed, ready, fired, cur, wpc, held>>

\* wake: call wake() on the waker taken.
WakeFire(s) ==
  /\ Goto(s, "fire", "idle")
  /\ fired' = fired \cup {held[s]} /\ held' = [held EXCEPT ![s] = NoWaker]
  /\ UNCHANGED <<state, cell, armed, ready, cur, wpc>>

SignallerNext(s) ==
  Load(s) \/ Swap(s) \/ TakeLock(s) \/ TakeCell(s) \/ TakeUnlock(s) \/ WakeFire(s)

-----------------------------------------------------------------------------

Next ==
  \/ \E w \in Wakers : Poll(w)
  \/ Cancel
  \/ WaiterNext
  \/ \E s \in Signallers : Publish(s) \/ SignallerNext(s)

\* Threads run on, and the executor polls a task whose waker has fired.  Nothing
\* obliges anyone to publish, to cancel, or to poll spuriously.
Fairness ==
  /\ WF_vars(WaiterNext)
  /\ WF_vars(wpc = "parked" /\ cur \in fired /\ Poll(cur))
  /\ \A s \in Signallers : WF_vars(SignallerNext(s))

Spec == Init /\ [][Next]_vars
FairSpec == Spec /\ Fairness

-----------------------------------------------------------------------------
(* Properties. *)

\* The threads between taking and giving up the right to touch the cell.
CellUsers ==
  {s \in Signallers : spc[s] \in {"take", "unlock"}}
    \cup (IF wpc \in {"store", "unlock", "grab", "reset"} THEN {Waiter} ELSE {})

\* "all access to `waker` is gated by the `state` lock bits, so it is never
\* aliased concurrently" (the SAFETY comment of AtomicWaker): at most one thread
\* is between acquiring and releasing the cell, whatever register and wake race.
CellExclusive ==
  TypeOK /\ \A t, u \in CellUsers : t = u

\* The wakers that have been fired or that some thread is bound to fire.
Owed ==
  fired
    \cup ({held[t] : t \in DOMAIN held} \ {NoWaker})
    \cup (IF \E s \in Signallers : spc[s] = "take" THEN {cell} \ {NoWaker} ELSE {})
    \cup (IF {REGISTERING, WAKING} \subseteq state \/ wpc = "direct"
          THEN {cur} ELSE {})

\* The waker that the next wake() will take.
Stored ==
  IF WAKING \in state THEN NoWaker ELSE IF REGISTERING \in state THEN cur ELSE cell

\* The wakeup is never lost (the contract of WaiterSlot): when a future has
\* parked and the resource is available, its waker is owed a wake, or a
\* signaller has yet to look at the armed flag or to act on it.
NoLostWakeup ==
  (wpc = "parked" /\ ready) =>
    \/ cur \in Owed
    \/ \E s \in Signallers :
         spc[s] = "lock" \/ (armed /\ spc[s] \in {"load", "swap"})

\* Every available resource eventually reaches a parked future.
ParkedIsServed == (wpc = "parked" /\ ready) ~> (wpc # "parked")

\* The file implements the slot its users rely on: register takes effect when
\* the REGISTERING lock is won or found taken, wake at the fetch_or.
Atomic == INSTANCE AtomicSlot WITH
  slot <- [armed |-> armed, waker |-> Stored, woken |-> Owed,
           sig |-> [s \in Signallers |->
                     IF spc[s] = "swap" THEN "swap"
                     ELSE IF spc[s] = "lock" THEN "wake" ELSE "idle"]]

ImplementsAtomicSlot == Atomic!Spec

\* From arm()'s store to the next poll, the drop of the future, or disarm().
Waiting == wpc \in {"recheck", "disarm", "parked"}

\* What one waiting task sees of the slot.
Flag == INSTANCE AtomicFlag WITH
  slot <- [armed |-> armed, waiting |-> Waiting,
           woken |-> /\ Waiting
                     /\ \/ cur \in Owed
                        \/ Stored = cur /\ \E s \in Signallers : spc[s] = "lock"]

\* Seen by one waiting task, signal() takes effect at the swap of the armed flag,
\* or at the load that finds it clear: whoever claims the flag while the task waits
\* owes it a wake, whatever wakers, signallers and cancelled futures came before.
ImplementsAtomicFlag == Flag!Spec
=============================================================================
