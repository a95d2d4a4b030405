-------------------------- MODULE WaiterStoreProofs --------------------------
(***************************************************************************)
(* Proofs about the two stores that keep waiters.                          *)
(*   Notify, the slot of the thread-safe primitives, for every set of      *)
(*     wakers and of signalling threads: the waker cell is never touched   *)
(*     by two threads at once, no wakeup is lost, and the file implements  *)
(*     both slots its users rely on.                                       *)
(*   Queue, the queue of the single-threaded primitives, for every set of  *)
(*     elements and every inline size: the cursors of the ring stay        *)
(*     consistent and every call is a call of a plain sequence.  Its loops *)
(*     are recursive functions; what they compute is proved by induction,  *)
(*     through the least element of a set of numbers.                      *)
(***************************************************************************)
EXTENDS Notify, Queue, WellFoundedInduction, TLAPS

(* The notify slot. *)

\* The waiting thread is inside register, with the REGISTERING lock.
Registering == wpc \in {"store", "unlock", "grab", "reset"}

\* A signaller has the WAKING lock.
Taking(s) == spc[s] \in {"take", "unlock"}

\* Who has the lock, read off the bits, and never more than one.  WAKING next to
\* REGISTERING is a wake left for the registering thread to deliver.
LockInv ==
  /\ REGISTERING \in state <=> Registering
  /\ \A s \in Signallers : Taking(s) => state = {WAKING}
  /\ \A s, t \in Signallers : Taking(s) /\ Taking(t) => s = t
  /\ wpc \in {"grab", "reset"} => WAKING \in state
  /\ WAKING \in state /\ ~Registering => \E s \in Signallers : Taking(s)

\* Where the waker is during a register and during a wake.
HandInv ==
  /\ wpc \in {"unlock", "grab"} => cell = cur
  /\ wpc = "reset" => cell = NoWaker
  /\ held[Waiter] = IF wpc \in {"reset", "fire"} THEN cur ELSE NoWaker
  /\ \A s \in Signallers :
       /\ spc[s] \notin {"unlock", "fire"} => held[s] = NoWaker
       /\ spc[s] = "fire" => held[s] # NoWaker
       /\ spc[s] = "unlock" => cell = NoWaker

\* From register to the end of the poll the waker is stored or owed a wake; from
\* the store of the armed flag on, whoever clears it is on the way to the cell.
WakeInv ==
  /\ wpc = "arm" => Stored = cur \/ cur \in Owed
  /\ Waiting =>
       \/ cur \in Owed
       \/ Stored = cur /\ (armed \/ \E s \in Signallers : spc[s] = "lock")

Inv == TypeOK /\ LockInv /\ HandInv

-----------------------------------------------------------------------------
\* The steps of Next one by one, for case splits.
LEMMA NextCases ==
  ASSUME [Next]_vars
  PROVE  \/ \E w \in Wakers : Poll(w)
         \/ Cancel \/ Check \/ RegisterLock \/ RegisterStore \/ RegisterUnlock
         \/ RegisterGrab \/ RegisterReset \/ RegisterFire \/ RegisterDirect
         \/ Arm \/ Recheck \/ DisarmStep
         \/ \E s \in Signallers :
              \/ Publish(s) \/ Load(s) \/ Swap(s) \/ TakeLock(s)
              \/ TakeCell(s) \/ TakeUnlock(s) \/ WakeFire(s)
         \/ UNCHANGED vars
BY DEF Next, WaiterNext, SignallerNext

\* The bits of `state` name the one thread that may touch the waker cell, and the
\* waker is where that thread's position says it is.
THEOREM LockIsHeld == Spec => []Inv
<1> USE NotifyAssumption DEF Inv, TypeOK, LockInv, HandInv, Registering, Taking,
       REGISTERING, WAKING
<1>1. Init => Inv
  BY Zenon DEF Init
<1>2. Inv /\ [Next]_vars => Inv'
  <2> SUFFICES ASSUME Inv, [Next]_vars PROVE Inv'
    OBVIOUS
  <2>1. ASSUME NEW w \in Wakers, Poll(w) PROVE Inv'  BY <2>1 DEF Poll
  <2>2. CASE Cancel  BY <2>2 DEF Cancel
  <2>3. CASE Check  BY Zenon, <2>3 DEF Check
  <2>4. CASE RegisterLock  BY Zenon, <2>4 DEF RegisterLock
  <2>5. CASE RegisterStore  BY <2>5 DEF RegisterStore
  <2>6. CASE RegisterUnlock  BY ZenonT(40), <2>6 DEF RegisterUnlock
  <2>7. CASE RegisterGrab  BY <2>7 DEF RegisterGrab
  <2>8. CASE RegisterReset  BY <2>8 DEF RegisterReset
  <2>9. CASE RegisterFire  BY <2>9 DEF RegisterFire
  <2>10. CASE RegisterDirect  BY <2>10 DEF RegisterDirect
  <2>11. CASE Arm  BY <2>11 DEF Arm
  <2>12. CASE Recheck  BY Zenon, <2>12 DEF Recheck
  <2>13. CASE DisarmStep  BY ZenonT(40), <2>13 DEF DisarmStep
  <2>14. ASSUME NEW s \in Signallers, Publish(s) PROVE Inv'  BY <2>14 DEF Publish, Goto
  <2>15. ASSUME NEW s \in Signallers, Load(s) PROVE Inv'  BY <2>15 DEF Load, Goto
  <2>16. ASSUME NEW s \in Signallers, Swap(s) PROVE Inv'  BY ZenonT(40), <2>16 DEF Swap, Goto
  <2>17. ASSUME NEW s \in Signallers, TakeLock(s) PROVE Inv'
    <3>1. CASE state = {}
      <4>1. state' = {WAKING} /\ spc' = [spc EXCEPT ![s] = "take"]
        BY <2>17, <3>1 DEF TakeLock, Goto
      <4> QED  BY <2>17, <3>1, <4>1 DEF TakeLock, Goto
    <3>2. CASE state # {}
      <4>1. spc' = [spc EXCEPT ![s] = "idle"] /\ spc[s] = "lock"
        BY Zenon, <2>17, <3>2 DEF TakeLock, Goto
      <4>2. TypeOK'
        BY <2>17, <4>1 DEF TakeLock
      <4>3. \A t \in Signallers : Taking(t)' <=> Taking(t)
        BY <4>1
      <4>4. \A t \in Signallers : Taking(t)' => state' = {WAKING}
        BY <2>17, <4>3 DEF TakeLock
      <4>5. ~Registering => \E t \in Signallers : Taking(t)'
        <5>1. ~Registering => WAKING \in state
          BY ZenonT(40), <3>2
        <5> QED  BY <5>1, <4>3
      <4>6. LockInv'
        BY <2>17, <4>3, <4>4, <4>5 DEF TakeLock
      <4> QED  BY <2>17, <4>1, <4>2, <4>6 DEF TakeLock
    <3> QED  BY <3>1, <3>2
  <2>18. ASSUME NEW s \in Signallers, TakeCell(s) PROVE Inv'  BY <2>18 DEF TakeCell, Goto
  <2>19. ASSUME NEW s \in Signallers, TakeUnlock(s) PROVE Inv'  BY <2>19 DEF TakeUnlock, Goto
  <2>20. ASSUME NEW s \in Signallers, WakeFire(s) PROVE Inv'  BY <2>20 DEF WakeFire, Goto
  <2>21. CASE UNCHANGED vars  BY <2>21 DEF vars
  <2> QED
    BY ZenonT(40), NextCases, <2>1, <2>2, <2>3, <2>4, <2>5, <2>6, <2>7, <2>8, <2>9, <2>10, <2>11, <2>12,
       <2>13, <2>14, <2>15, <2>16, <2>17, <2>18, <2>19, <2>20, <2>21
<1> QED  BY <1>1, <1>2, PTL DEF Spec

\* The SAFETY comment of AtomicWaker holds for any number of signalling threads.
THEOREM CellNeverAliased == Spec => []CellExclusive
<1>1. Inv => CellExclusive
  BY DEF Inv, LockInv, Registering, Taking, CellExclusive, CellUsers, REGISTERING, WAKING
<1> QED  BY <1>1, LockIsHeld, PTL
-----------------------------------------------------------------------------
(* What each step does to the waker that is stored and to the wakes that are owed. *)

\* The ways a waker can be owed a wake.
OwedBy(x) ==
  \/ x \in fired
  \/ x # NoWaker /\ \E t \in Signallers \cup {Waiter} : held[t] = x
  \/ x # NoWaker /\ x = cell /\ \E s \in Signallers : spc[s] = "take"
  \/ x = cur /\ (wpc = "direct" \/ {REGISTERING, WAKING} \subseteq state)

\* Owed is the set of the wakers that are owed one.
LEMMA OwedMeans ==
  ASSUME TypeOK, TypeOK', NEW x
  PROVE  /\ x \in Owed <=> OwedBy(x)
         /\ x \in Owed' <=> OwedBy(x)'
BY DEF TypeOK, Owed, OwedBy

\* The steps that leave the slot's users nothing to see.
Silent ==
  \/ Cancel \/ Check \/ RegisterStore \/ RegisterUnlock \/ RegisterGrab \/ RegisterReset
  \/ RegisterFire \/ RegisterDirect \/ Arm \/ Recheck \/ DisarmStep
  \/ \E s \in Signallers :
       Publish(s) \/ Load(s) \/ Swap(s) \/ TakeCell(s) \/ TakeUnlock(s) \/ WakeFire(s)
  \/ UNCHANGED vars

\* They keep the stored waker and the wakes that are owed.
LEMMA SilentSteps ==
  ASSUME Inv, Inv', Silent
  PROVE  Owed' = Owed /\ Stored' = Stored
<1> USE NotifyAssumption DEF Inv, TypeOK, LockInv, HandInv, Registering, Taking,
       REGISTERING, WAKING
<1>1. Stored' = Stored
  BY DEF Silent, Stored, Cancel, Check, RegisterStore, RegisterUnlock, RegisterGrab,
         RegisterReset, RegisterFire, RegisterDirect, Arm, Recheck, DisarmStep, Publish,
         Load, Swap, TakeCell, TakeUnlock, WakeFire, Goto, vars
<1>2. ASSUME NEW x PROVE OwedBy(x)' <=> OwedBy(x)
  <2>1. CASE Cancel \/ Check \/ Arm \/ Recheck \/ DisarmStep \/ UNCHANGED vars
    BY <2>1 DEF OwedBy, Cancel, Check, Arm, Recheck, DisarmStep, vars
  <2>2. CASE RegisterStore  BY <2>2 DEF OwedBy, RegisterStore
  <2>3. CASE RegisterUnlock  BY <2>3 DEF OwedBy, RegisterUnlock
  <2>4. CASE RegisterGrab  BY <2>4 DEF OwedBy, RegisterGrab
  <2>5. CASE RegisterReset  BY <2>5 DEF OwedBy, RegisterReset
  <2>6. CASE RegisterFire  BY <2>6 DEF OwedBy, RegisterFire
  <2>7. CASE RegisterDirect  BY <2>7, SMTT(30) DEF OwedBy, RegisterDirect
  <2>8. ASSUME NEW s \in Signallers, Publish(s) \/ Load(s) \/ Swap(s)
        PROVE  OwedBy(x)' <=> OwedBy(x)
    BY <2>8 DEF OwedBy, Publish, Load, Swap, Goto
  <2>9. ASSUME NEW s \in Signallers, TakeCell(s) PROVE OwedBy(x)' <=> OwedBy(x)
    BY <2>9 DEF OwedBy, TakeCell, Goto
  <2>10. ASSUME NEW s \in Signallers, TakeUnlock(s) PROVE OwedBy(x)' <=> OwedBy(x)
    BY <2>10 DEF OwedBy, TakeUnlock, Goto
  <2>11. ASSUME NEW s \in Signallers, WakeFire(s) PROVE OwedBy(x)' <=> OwedBy(x)
    BY <2>11 DEF OwedBy, WakeFire, Goto
  <2> QED  BY <2>1, <2>2, <2>3, <2>4, <2>5, <2>6, <2>7, <2>8, <2>9, <2>10, <2>11, SMTT(30) DEF Silent
<1>3. \A x : x \in Owed' <=> x \in Owed
  BY <1>2, OwedMeans
<1> QED  BY <1>1, <1>3, SMTT(30) DEF Owed
\* A poll uses up the wakes its waker got so far, but for one still on its way.
LEMMA PollStep ==
  ASSUME Inv, Inv', NEW w \in Wakers, Poll(w)
  PROVE  Stored' = Stored /\ Owed' \in {Owed, Owed \ {w}}
<1> USE NotifyAssumption DEF Inv, TypeOK, LockInv, Registering, Taking, REGISTERING, WAKING
<1>1. Stored' = Stored
  BY DEF Poll, Stored
<1>2. \A x : x # w => (OwedBy(x)' <=> OwedBy(x))
  BY DEF OwedBy, Poll
<1>3. OwedBy(w)' => OwedBy(w)
  BY DEF OwedBy, Poll
<1>4. CASE OwedBy(w)'
  <2>1. \A x : x \in Owed' <=> x \in Owed
    BY <1>2, <1>3, <1>4, OwedMeans, SMTT(30)
  <2> QED  BY <1>1, <2>1 DEF Owed
<1>5. CASE ~OwedBy(w)'
  <2>1. \A x : x \in Owed' <=> x \in Owed \ {w}
    BY <1>2, <1>5, OwedMeans
  <2> QED  BY <1>1, <2>1 DEF Owed
<1> QED  BY <1>4, <1>5

\* register takes effect when it wins the lock or finds it taken.
LEMMA RegisterStep ==
  ASSUME Inv, Inv', RegisterLock
  PROVE  \/ Stored' = cur /\ Owed' = Owed
         \/ Stored' = Stored /\ Owed' = Owed \cup {cur}
<1> USE NotifyAssumption DEF Inv, TypeOK, LockInv, HandInv, Registering, Taking,
       REGISTERING, WAKING
<1>1. CASE state = {}
  <2>1. Stored' = cur
    BY <1>1 DEF RegisterLock, Stored
  <2>2. \A x : OwedBy(x)' <=> OwedBy(x)
    BY <1>1 DEF RegisterLock, OwedBy
  <2>3. \A x : x \in Owed' <=> x \in Owed
    BY <2>2, OwedMeans
  <2> QED  BY <2>1, <2>3 DEF Owed
<1>2. CASE state # {}
  <2>1. Stored' = Stored
    BY Zenon, <1>2 DEF RegisterLock, Stored
  <2>2. \A x : OwedBy(x)' <=> OwedBy(x) \/ x = cur
    BY Zenon, <1>2 DEF RegisterLock, OwedBy
  <2>3. \A x : x \in Owed' <=> x \in Owed \cup {cur}
    BY <2>2, OwedMeans
  <2> QED  BY <2>1, <2>3 DEF Owed
<1> QED  BY <1>1, <1>2

\* wake takes effect at its fetch_or: from there on the stored waker, if any, is owed.
LEMMA WakeStep ==
  ASSUME Inv, Inv', NEW s \in Signallers, TakeLock(s)
  PROVE  Stored' = NoWaker /\ Owed' = (Owed \cup {Stored}) \ {NoWaker}
<1> USE NotifyAssumption DEF Inv, TypeOK, LockInv, HandInv, Registering, Taking,
       REGISTERING, WAKING
<1>1. Stored' = NoWaker
  BY DEF TakeLock, Stored
<1>2. \A x : OwedBy(x) => x # NoWaker
  BY DEF OwedBy
<1>3. ASSUME NEW x PROVE OwedBy(x)' <=> OwedBy(x) \/ (x = Stored /\ x # NoWaker)
  <2>1. CASE state = {}  BY <2>1, SMTT(30) DEF TakeLock, Goto, OwedBy, Stored
  <2>2. CASE WAKING \in state  BY <2>2 DEF TakeLock, Goto, OwedBy, Stored
  <2>3. CASE state = {REGISTERING}
    <3>1. Stored = cur /\ cur # NoWaker /\ \A t \in Signallers : spc[t] # "take"
      BY <2>3 DEF Stored
    <3>2. {REGISTERING, WAKING} \subseteq state' /\ spc' = [spc EXCEPT ![s] = "idle"]
      BY Zenon, <2>3 DEF TakeLock, Goto
    <3> QED  BY <3>1, <3>2, <2>3 DEF TakeLock, OwedBy
  <2>4. ASSUME state # {}, WAKING \notin state PROVE state = {REGISTERING}
    <3>1. \A y \in state : y = REGISTERING
      BY <2>4
    <3>2. REGISTERING \in state
      <4>1. PICK y : y \in state
        BY <2>4, Zenon
      <4> QED  BY <3>1, <4>1
    <3>3. \A y : y \in state <=> y \in {REGISTERING}
      BY ZenonT(40), <3>1, <3>2
    <3> QED  BY <3>3
  <2> QED  BY <2>1, <2>2, <2>3, <2>4, SMTT(30)
<1>4. \A x : x \in Owed' <=> x \in (Owed \cup {Stored}) \ {NoWaker}
  BY <1>2, <1>3, OwedMeans
<1> QED  BY <1>1, <1>4 DEF Owed
-----------------------------------------------------------------------------
(* No lost wakeup. *)

\* Every step is one of the four above.
LEMMA StepKinds ==
  ASSUME [Next]_vars
  PROVE  \/ \E w \in Wakers : Poll(w)
         \/ RegisterLock
         \/ \E s \in Signallers : TakeLock(s)
         \/ Silent
BY NextCases DEF Silent

\* WakeInv is kept, and NoLostWakeup with it: a resource published while a task is
\* parked finds the armed flag up or its wake under way.
THEOREM WakeupNeverLost == Spec => [](WakeInv /\ NoLostWakeup)
<1>1. Init => WakeInv /\ NoLostWakeup
  BY DEF Init, WakeInv, Waiting, NoLostWakeup
<1>2. Inv /\ Inv' /\ WakeInv /\ NoLostWakeup /\ [Next]_vars => WakeInv' /\ NoLostWakeup'
  <2> SUFFICES ASSUME Inv, Inv', WakeInv, NoLostWakeup, [Next]_vars
               PROVE  WakeInv' /\ NoLostWakeup'
    OBVIOUS
  <2> USE NotifyAssumption DEF WakeInv, Waiting, NoLostWakeup, Inv, TypeOK
  <2>1. ASSUME NEW w \in Wakers, Poll(w) PROVE WakeInv' /\ NoLostWakeup'
    BY <2>1 DEF Poll
  <2>2. CASE RegisterLock
    BY <2>2 DEF RegisterLock
  <2>3. ASSUME NEW s \in Signallers, TakeLock(s) PROVE WakeInv' /\ NoLostWakeup'
    <3>1. Stored' = NoWaker /\ Owed' = (Owed \cup {Stored}) \ {NoWaker}
      BY <2>3, WakeStep
    <3>2. UNCHANGED <<wpc, cur, armed, ready>> /\ cur # NoWaker
      BY <2>3 DEF TakeLock
    <3>3. cur \in Owed \/ Stored = cur => cur' \in Owed'
      BY <3>1, <3>2, SMTT(30)
    <3> QED  BY <3>2, <3>3
  <2>4. CASE Silent
    <3>1. Owed' = Owed /\ Stored' = Stored
      BY <2>4, SilentSteps
    <3>2. CASE Cancel \/ Check \/ RegisterStore \/ RegisterGrab \/ RegisterReset
      BY <3>2, SMTT(30) DEF Cancel, Check, RegisterStore, RegisterGrab, RegisterReset
    <3>3. CASE RegisterUnlock
      BY <3>1, <3>3 DEF RegisterUnlock, Stored, HandInv, LockInv, Registering, REGISTERING, WAKING
    <3>4. CASE RegisterFire \/ RegisterDirect
      <4>1. cur' \in Owed'
        BY <3>1, <3>4 DEF RegisterFire, RegisterDirect, Owed, HandInv
      <4> QED  BY <3>4, <4>1, SMTT(30) DEF RegisterFire, RegisterDirect
    <3>5. CASE Arm  BY <3>1, <3>5 DEF Arm
    <3>6. CASE Recheck  BY <3>1, <3>6 DEF Recheck
    <3>7. CASE DisarmStep  BY <3>7 DEF DisarmStep
    <3>8. ASSUME NEW s \in Signallers, Publish(s) PROVE WakeInv' /\ NoLostWakeup'
      BY <3>1, <3>8 DEF Publish, Goto
    <3>9. ASSUME NEW s \in Signallers, Load(s) PROVE WakeInv' /\ NoLostWakeup'
      BY <3>1, <3>9 DEF Load, Goto
    <3>10. ASSUME NEW s \in Signallers, Swap(s) PROVE WakeInv' /\ NoLostWakeup'
      BY <3>1, <3>10, SMTT(30) DEF Swap, Goto
    <3>11. ASSUME NEW s \in Signallers, TakeCell(s) \/ TakeUnlock(s) \/ WakeFire(s)
           PROVE  WakeInv' /\ NoLostWakeup'
      BY <3>1, <3>11 DEF TakeCell, TakeUnlock, WakeFire, Goto
    <3>12. CASE UNCHANGED vars  BY <3>1, <3>12, SMTT(30) DEF vars
    <3> QED  BY <2>4, <3>2, <3>3, <3>4, <3>5, <3>6, <3>7, <3>8, <3>9, <3>10, <3>11, <3>12, ZenonT(40)
             DEF Silent
  <2> QED  BY StepKinds, <2>1, <2>2, <2>3, <2>4
<1> QED  BY <1>1, <1>2, LockIsHeld, PTL DEF Spec
-----------------------------------------------------------------------------
(* The file implements the slot its users rely on. *)

\* The record AtomicSlot is instantiated with.
Phase == [s \in Signallers |->
           IF spc[s] = "swap" THEN "swap"
           ELSE IF spc[s] = "lock" THEN "wake" ELSE "idle"]
SlotState == [armed |-> armed, waker |-> Stored, woken |-> Owed, sig |-> Phase]

\* An operation of AtomicSlot, applied to the record.
SlotStep ==
  \/ \E w \in Wakers : \/ SlotState' = Atomic!Polled(SlotState, w)
                       \/ SlotState' \in Atomic!RegisterWaker(SlotState, w)
                       \/ SlotState' = Atomic!SetArmed(SlotState)
                       \/ SlotState' = Atomic!Disarm(SlotState)
  \/ \E s \in Signallers :
       \/ Atomic!Quiet(SlotState, s) /\ SlotState' = Atomic!SignalLoad(SlotState, s)
       \/ ~Atomic!Quiet(SlotState, s) /\ SlotState' = Atomic!SignalStep(SlotState, s)

\* SlotStep is AtomicSlot's next-state relation under the mapping.
LEMMA SlotStepIsNext == SlotStep <=> Atomic!Next
BY ZenonT(40) DEF SlotStep, SlotState, Phase, Atomic!Next, Atomic!WaiterStep, Atomic!SignallerStep

\* A signalling thread that moves from one point of signal() to another changes
\* its own phase and no other.
LEMMA PhaseStep ==
  ASSUME TypeOK, NEW s \in Signallers, NEW pc, spc' = [spc EXCEPT ![s] = pc]
  PROVE  Phase' = [Phase EXCEPT ![s] = IF pc = "swap" THEN "swap"
                                       ELSE IF pc = "lock" THEN "wake" ELSE "idle"]
BY Zenon DEF TypeOK, Phase

\* register and wake of AtomicWaker each take effect at one point: every step of
\* notify.rs is one operation of AtomicSlot or nothing its users can see.
THEOREM NotifyImplementsAtomicSlot == Spec => ImplementsAtomicSlot
<1>1. Init => Atomic!Init
  <2> SUFFICES ASSUME Init PROVE Atomic!Init
    OBVIOUS
  <2>1. Stored = NoWaker
    BY DEF Init, Stored
  <2>2. \A x : x \notin Owed
    BY DEF Init, Owed, REGISTERING, WAKING
  <2>3. Owed = {}
    BY <2>2
  <2>4. Phase = [s \in Signallers |-> "idle"]
    BY DEF Init, Phase
  <2>5. SlotState = Atomic!NewSlot(Signallers)
    BY Zenon, <2>1, <2>3, <2>4 DEF Init, SlotState, Atomic!NewSlot, NoWaker, Atomic!NoWaker
  <2> QED  BY <2>5 DEF Atomic!Init, SlotState, Phase
<1>2. Inv /\ Inv' /\ [Next]_vars => [Atomic!Next]_SlotState
  <2> SUFFICES ASSUME Inv, Inv', [Next]_vars
               PROVE  SlotStep \/ UNCHANGED SlotState
    BY SlotStepIsNext
  <2> USE NotifyAssumption DEF Inv
  <2>1. ASSUME NEW w \in Wakers, Poll(w) PROVE SlotStep \/ UNCHANGED SlotState
    <3>1. Stored' = Stored /\ Owed' \in {Owed, Owed \ {w}}
      BY <2>1, PollStep
    <3>2. armed' = armed /\ Phase' = Phase
      BY <2>1 DEF Poll, Phase
    <3>3. CASE Owed' = Owed
      BY <3>1, <3>2, <3>3 DEF SlotState
    <3>4. CASE Owed' = Owed \ {w}
      <4>1. SlotState' = Atomic!Polled(SlotState, w)
        BY <3>1, <3>2, <3>4 DEF SlotState, Atomic!Polled
      <4> QED  BY <4>1 DEF SlotStep
    <3> QED  BY <3>1, <3>3, <3>4
  <2>2. CASE RegisterLock
    <3>1. \/ Stored' = cur /\ Owed' = Owed
          \/ Stored' = Stored /\ Owed' = Owed \cup {cur}
      BY <2>2, RegisterStep
    <3>2. armed' = armed /\ Phase' = Phase
      BY <2>2 DEF RegisterLock, Phase
    <3>3. SlotState' \in Atomic!RegisterWaker(SlotState, cur)
      BY <3>1, <3>2 DEF SlotState, Atomic!RegisterWaker
    <3> QED  BY <3>3 DEF SlotStep, TypeOK
  <2>3. ASSUME NEW s \in Signallers, TakeLock(s) PROVE SlotStep
    <3>1. Stored' = NoWaker /\ Owed' = (Owed \cup {Stored}) \ {NoWaker}
      BY <2>3, WakeStep
    <3>2. Phase[s] = "wake" /\ armed' = armed
      BY <2>3 DEF TakeLock, Goto, Phase
    <3>3. Phase' = [Phase EXCEPT ![s] = "idle"]
      BY <2>3, PhaseStep DEF TakeLock, Goto
    <3>4. SlotState' = Atomic!SignalStep(SlotState, s) /\ ~Atomic!Quiet(SlotState, s)
      BY Zenon, <3>1, <3>2, <3>3 DEF SlotState, Atomic!SignalStep, Atomic!SignalWake,
                              Atomic!Quiet, NoWaker, Atomic!NoWaker
    <3> QED  BY <3>4 DEF SlotStep
  <2>4. CASE Silent
    <3>1. Owed' = Owed /\ Stored' = Stored
      BY <2>4, SilentSteps
    <3>2. CASE Cancel \/ Check \/ RegisterStore \/ RegisterUnlock \/ RegisterGrab
               \/ RegisterReset \/ RegisterFire \/ RegisterDirect \/ Recheck \/ UNCHANGED vars
      <4>1. armed' = armed /\ Phase' = Phase
        BY <3>2 DEF Cancel, Check, RegisterStore, RegisterUnlock, RegisterGrab,
                    RegisterReset, RegisterFire, RegisterDirect, Recheck, vars, Phase
      <4> QED  BY <3>1, <4>1, SMTT(30) DEF SlotState
    <3>3. CASE Arm
      <4>1. armed' = TRUE /\ Phase' = Phase
        BY <3>3 DEF Arm, Phase
      <4>2. SlotState' = [armed |-> TRUE, waker |-> Stored, woken |-> Owed, sig |-> Phase]
        BY <3>1, <4>1, Zenon DEF SlotState
      <4>3. SlotState' = Atomic!SetArmed(SlotState)
        <5> DEFINE b == TRUE
        <5> HIDE DEF b
        <5>1. SlotState' = [SlotState EXCEPT !.armed = b]
          <6>1. SlotState' = [armed |-> b, waker |-> Stored, woken |-> Owed, sig |-> Phase]
            BY <4>2, Zenon DEF b
          <6> QED  BY <6>1 DEF SlotState
        <5> QED  BY <5>1, Zenon DEF Atomic!SetArmed, b
      <4> QED  BY <4>3 DEF SlotStep, TypeOK
    <3>4. CASE DisarmStep
      <4>1. armed' = FALSE /\ Phase' = Phase
        BY <3>4 DEF DisarmStep, Phase
      <4>2. SlotState' = [armed |-> FALSE, waker |-> Stored, woken |-> Owed, sig |-> Phase]
        BY <3>1, <4>1, Zenon DEF SlotState
      <4>3. SlotState' = Atomic!Disarm(SlotState)
        <5> DEFINE b == FALSE
        <5> HIDE DEF b
        <5>1. SlotState' = [SlotState EXCEPT !.armed = b]
          <6>1. SlotState' = [armed |-> b, waker |-> Stored, woken |-> Owed, sig |-> Phase]
            BY <4>2, Zenon DEF b
          <6> QED  BY <6>1 DEF SlotState
        <5> QED  BY <5>1, Zenon DEF Atomic!Disarm, b
      <4> QED  BY <4>3 DEF SlotStep, TypeOK
    <3>5. ASSUME NEW s \in Signallers, Publish(s) \/ TakeCell(s) \/ TakeUnlock(s) \/ WakeFire(s)
          PROVE  UNCHANGED SlotState
      <4>1. armed' = armed /\ Phase' = Phase
        BY <3>5 DEF TypeOK, Publish, TakeCell, TakeUnlock, WakeFire, Goto, Phase
      <4> QED  BY <3>1, <4>1, SMTT(30) DEF SlotState
    <3>6. ASSUME NEW s \in Signallers, Load(s) PROVE SlotStep
      <4>1. armed' = armed /\ Phase[s] = "idle"
        BY <3>6 DEF Load, Goto, Phase
      <4>2. Phase' = [Phase EXCEPT ![s] = IF armed THEN "swap" ELSE "idle"]
        <5>1. CASE armed
          <6>1. spc' = [spc EXCEPT ![s] = "swap"]
            BY <3>6, <5>1 DEF Load, Goto
          <6> QED  BY Zenon, <5>1, <6>1, PhaseStep
        <5>2. CASE ~armed
          <6>1. spc' = [spc EXCEPT ![s] = "idle"]
            BY <3>6, <5>2 DEF Load, Goto
          <6>2. Phase' = [Phase EXCEPT ![s] = "idle"]
            BY Zenon, <6>1 DEF TypeOK, Phase
          <6> QED  BY <5>2, <6>2
        <5> QED  BY <5>1, <5>2
      <4>3. ~armed => Phase' = Phase
        BY Zenon, <4>1, <4>2 DEF Phase
      <4>4. SlotState' = Atomic!SignalLoad(SlotState, s) /\ Atomic!Quiet(SlotState, s)
        BY <3>1, <4>1, <4>2, <4>3 DEF SlotState, Atomic!SignalLoad, Atomic!Quiet
      <4> QED  BY <4>4 DEF SlotStep
    <3>7. ASSUME NEW s \in Signallers, Swap(s) PROVE SlotStep
      <4>1. armed' = FALSE /\ Phase[s] = "swap"
        BY <3>7 DEF TypeOK, Swap, Goto, Phase
      <4>2. Phase' = [Phase EXCEPT ![s] = IF armed THEN "wake" ELSE "idle"]
        <5>1. CASE armed
          <6>1. spc' = [spc EXCEPT ![s] = "lock"]
            BY <3>7, <5>1 DEF Swap, Goto
          <6> QED  BY Zenon, <5>1, <6>1, PhaseStep
        <5>2. CASE ~armed
          <6>1. spc' = [spc EXCEPT ![s] = "idle"]
            BY <3>7, <5>2 DEF Swap, Goto
          <6>2. Phase' = [Phase EXCEPT ![s] = "idle"]
            BY Zenon, <6>1 DEF TypeOK, Phase
          <6> QED  BY <5>2, <6>2
        <5> QED  BY <5>1, <5>2
      <4>3. SlotState' = Atomic!SignalStep(SlotState, s) /\ ~Atomic!Quiet(SlotState, s)
        BY ZenonT(40), <3>1, <4>1, <4>2 DEF SlotState, TypeOK, Atomic!SignalStep, Atomic!SignalSwap,
                                Atomic!Quiet
      <4> QED  BY <4>3 DEF SlotStep
    <3> QED  BY <2>4, <3>2, <3>3, <3>4, <3>5, <3>6, <3>7 DEF Silent
  <2> QED  BY StepKinds, <2>1, <2>2, <2>3, <2>4
<1> QED  BY <1>1, <1>2, LockIsHeld, PTL
        DEF Spec, ImplementsAtomicSlot, Atomic!Spec, SlotState, Phase
-----------------------------------------------------------------------------
(* What one waiting task sees. *)

\* The record AtomicFlag is instantiated with.
Woken == /\ Waiting
         /\ \/ cur \in Owed
            \/ Stored = cur /\ \E s \in Signallers : spc[s] = "lock"
FlagState == [armed |-> armed, waiting |-> Waiting, woken |-> Woken]

\* An operation of AtomicFlag, applied to the record.
FlagStep ==
  \/ FlagState' = Flag!FlagPolled(FlagState)
  \/ ~FlagState.waiting /\ FlagState' \in Flag!FlagArm
  \/ FlagState' = Flag!FlagDisarm
  \/ FlagState' = Flag!FlagSignal(FlagState)

\* FlagStep is AtomicFlag's next-state relation under the mapping.
LEMMA FlagStepIsNext == FlagStep <=> Flag!Next
BY DEF FlagStep, FlagState, Woken, Flag!Next

\* What a store to two fields of the record leaves.
LEMMA StoreFlag ==
  ASSUME NEW d, NEW e
  PROVE  /\ [FlagState EXCEPT !.waiting = d, !.woken = e]
              = [armed |-> armed, waiting |-> d, woken |-> e]
         /\ [FlagState EXCEPT !.armed = d, !.woken = e]
              = [armed |-> d, waiting |-> Waiting, woken |-> e]
<1> DEFINE a == armed
           b == Waiting
           c == Woken
           p == [FlagState EXCEPT !.waiting = d, !.woken = e]
           g == [FlagState EXCEPT !.armed = d, !.woken = e]
<1>1. FlagState = [armed |-> a, waiting |-> b, woken |-> c]
  BY DEF FlagState
<1> HIDE DEF a, b, c
<1>2. [FlagState EXCEPT !.waiting = d] = [armed |-> a, waiting |-> d, woken |-> c]
  BY <1>1
<1>3. [FlagState EXCEPT !.armed = d] = [armed |-> d, waiting |-> b, woken |-> c]
  BY <1>1
<1>4. [[armed |-> a, waiting |-> d, woken |-> c] EXCEPT !.woken = e]
        = [armed |-> a, waiting |-> d, woken |-> e]
  OBVIOUS
<1>5. [[armed |-> d, waiting |-> b, woken |-> c] EXCEPT !.woken = e]
        = [armed |-> d, waiting |-> b, woken |-> e]
  OBVIOUS
<1>6. /\ p = [[FlagState EXCEPT !.waiting = d] EXCEPT !.woken = e]
      /\ g = [[FlagState EXCEPT !.armed = d] EXCEPT !.woken = e]
  BY <1>1
<1> HIDE DEF p, g
<1>7. p = [armed |-> a, waiting |-> d, woken |-> e]
  BY <1>2, <1>4, <1>6, Zenon
<1>8. g = [armed |-> d, waiting |-> b, woken |-> e]
  BY <1>3, <1>5, <1>6, Zenon
<1> QED  BY <1>7, <1>8, Zenon DEF a, b, p, g

\* A step that changes none of the three fields is a stutter.
LEMMA FlagStutter ==
  ASSUME armed' = armed, Waiting' <=> Waiting, Woken' <=> Woken
  PROVE  UNCHANGED FlagState
<1>1. Waiting \in BOOLEAN /\ Waiting' \in BOOLEAN /\ Woken \in BOOLEAN /\ Woken' \in BOOLEAN
  BY DEF Waiting, Woken
<1>2. Waiting' = Waiting /\ Woken' = Woken
  BY <1>1
<1> QED  BY <1>2, Zenon DEF FlagState

\* The end of a wait, by a poll or by the drop of the future.
LEMMA FlagWaitEnds ==
  ASSUME armed' = armed, ~Waiting'
  PROVE  FlagStep
<1>1. Waiting' = FALSE /\ Woken' = FALSE
  BY DEF Waiting, Woken
<1>2. FlagState' = [armed |-> armed, waiting |-> FALSE, woken |-> FALSE]
  BY <1>1, Zenon DEF FlagState
<1>3. FlagState' = [FlagState EXCEPT !.waiting = FALSE, !.woken = FALSE]
  BY <1>2, StoreFlag, Zenon
<1> QED  BY <1>3, Zenon DEF FlagStep, Flag!FlagPolled

\* A signaller claims the flag: the task that waits is woken.
LEMMA FlagClaimed ==
  ASSUME armed = TRUE, armed' = FALSE, Waiting' <=> Waiting, Woken' <=> Waiting
  PROVE  FlagStep
<1>1. Waiting \in BOOLEAN /\ Waiting' \in BOOLEAN /\ Woken' \in BOOLEAN
  BY DEF Waiting, Woken
<1>2. Waiting' = Waiting /\ Woken' = Waiting
  BY <1>1
<1>3. FlagState' = [armed |-> FALSE, waiting |-> Waiting, woken |-> Waiting]
  BY <1>2, Zenon DEF FlagState
<1>4. FlagState.armed /\ FlagState.waiting = Waiting
  BY Zenon DEF FlagState
<1>5. FlagState' = [FlagState EXCEPT !.armed = FALSE, !.woken = Waiting]
  BY <1>3, StoreFlag, Zenon
<1> QED  BY <1>4, <1>5, Zenon DEF FlagStep, Flag!FlagSignal

\* Seen by one waiting task, signal() takes effect at the swap of the armed flag:
\* whoever claims the flag while the task waits owes it a wake, for any wakers and
\* any number of signalling threads.
THEOREM NotifyImplementsAtomicFlag == Spec => ImplementsAtomicFlag
<1>1. Init => Flag!Init
  <2> SUFFICES ASSUME Init PROVE Flag!Init
    OBVIOUS
  <2>1. armed = FALSE /\ Waiting = FALSE /\ Woken = FALSE
    BY DEF Init, Waiting, Woken
  <2>2. FlagState = Flag!NewFlag
    BY <2>1, Zenon DEF FlagState, Flag!NewFlag
  <2> QED  BY <2>2 DEF Flag!Init, FlagState, Woken
<1>2. Inv /\ Inv' /\ WakeInv /\ [Next]_vars => [Flag!Next]_FlagState
  <2> SUFFICES ASSUME Inv, Inv', WakeInv, [Next]_vars
               PROVE  FlagStep \/ UNCHANGED FlagState
    BY FlagStepIsNext
  <2> USE NotifyAssumption DEF Inv, TypeOK
  <2>1. ASSUME NEW w \in Wakers, Poll(w) PROVE FlagStep
    BY <2>1, FlagWaitEnds DEF Poll, Waiting
  <2>2. CASE RegisterLock
    BY <2>2, FlagStutter DEF RegisterLock, Waiting, Woken
  <2>3. ASSUME NEW s \in Signallers, TakeLock(s) PROVE UNCHANGED FlagState
    <3>1. Stored' = NoWaker /\ Owed' = (Owed \cup {Stored}) \ {NoWaker}
      BY <2>3, WakeStep
    <3>2. UNCHANGED <<armed, cur, wpc>> /\ cur # NoWaker /\ spc[s] = "lock"
      BY <2>3 DEF TakeLock, Goto
    <3>3. Woken' <=> Woken
      BY <3>1, <3>2 DEF Woken, Waiting
    <3> QED  BY <3>2, <3>3, FlagStutter, SMTT(30) DEF Waiting
  <2>4. CASE Silent
    <3>1. Owed' = Owed /\ Stored' = Stored
      BY <2>4, SilentSteps
    <3>2. CASE Check \/ RegisterStore \/ RegisterUnlock \/ RegisterGrab
               \/ RegisterReset \/ RegisterFire \/ RegisterDirect \/ Recheck \/ UNCHANGED vars
      <4>1. armed' = armed /\ (Waiting' <=> Waiting) /\ UNCHANGED <<cur, spc>>
        BY <3>2 DEF Check, RegisterStore, RegisterUnlock, RegisterGrab, RegisterReset,
                    RegisterFire, RegisterDirect, Recheck, vars, Waiting
      <4> QED  BY <3>1, <4>1, FlagStutter, SMTT(30) DEF Woken
    <3>3. CASE Cancel
      BY <3>3, FlagWaitEnds DEF Cancel, Waiting
    <3>4. CASE Arm
      <4>1. armed' = TRUE /\ Waiting = FALSE /\ Waiting' = TRUE /\ Woken' \in BOOLEAN
        BY <3>4 DEF Arm, Waiting, Woken
      <4>2. FlagState' = [armed |-> TRUE, waiting |-> TRUE, woken |-> Woken']
        BY <4>1, Zenon DEF FlagState
      <4>3. FlagState' \in Flag!FlagArm
        BY <4>1, <4>2, Zenon DEF Flag!FlagArm
      <4>4. ~FlagState.waiting
        BY <4>1, Zenon DEF FlagState
      <4> QED  BY <4>3, <4>4 DEF FlagStep
    <3>5. CASE DisarmStep
      <4>1. armed' = FALSE /\ Waiting' = FALSE /\ Woken' = FALSE
        BY <3>5 DEF DisarmStep, Waiting, Woken
      <4>2. FlagState' = Flag!FlagDisarm
        BY <4>1, Zenon DEF FlagState, Flag!FlagDisarm, Flag!NewFlag
      <4> QED  BY <4>2 DEF FlagStep
    <3>6. ASSUME NEW s \in Signallers, \/ Publish(s) \/ Load(s) \/ TakeCell(s)
                                       \/ TakeUnlock(s) \/ WakeFire(s)
          PROVE  UNCHANGED FlagState
      <4>1. /\ UNCHANGED <<armed, cur, wpc>>
            /\ \A t \in Signallers : spc'[t] = "lock" <=> spc[t] = "lock"
        BY <3>6 DEF Publish, Load, TakeCell, TakeUnlock, WakeFire, Goto
      <4>2. Woken' <=> Woken
        BY <3>1, <4>1 DEF Woken, Waiting
      <4> QED  BY <4>1, <4>2, FlagStutter, SMTT(30) DEF Waiting
    <3>7. ASSUME NEW s \in Signallers, Swap(s) PROVE FlagStep \/ UNCHANGED FlagState
      <4>1. UNCHANGED <<cur, wpc>> /\ armed' = FALSE
        BY <3>7 DEF Swap
      <4>2. CASE armed = TRUE
        <5>1. spc'[s] = "lock"
          BY <3>7, <4>2 DEF Swap, Goto
        <5>2. Waiting => cur \in Owed \/ Stored = cur
          BY DEF WakeInv, Waiting
        <5>3. Woken' <=> Waiting
          BY <3>1, <4>1, <5>1, <5>2 DEF Woken, Waiting
        <5> QED  BY Zenon, <4>1, <4>2, <5>3, FlagClaimed DEF Waiting
      <4>3. CASE armed = FALSE
        <5>1. \A t \in Signallers : spc'[t] = "lock" <=> spc[t] = "lock"
          BY <3>7, <4>3 DEF Swap, Goto
        <5>2. Woken' <=> Woken
          BY <3>1, <4>1, <5>1 DEF Woken, Waiting
        <5> QED  BY <4>1, <4>3, <5>2, FlagStutter DEF Waiting
      <4> QED  BY Zenon, <4>2, <4>3
    <3> QED  BY <2>4, <3>2, <3>3, <3>4, <3>5, <3>6, <3>7, SMTT(30) DEF Silent
  <2> QED  BY StepKinds, <2>1, <2>2, <2>3, <2>4
<1> QED  BY <1>1, <1>2, LockIsHeld, WakeupNeverLost, PTL
        DEF Spec, ImplementsAtomicFlag, Flag!Spec, FlagState, Woken

-----------------------------------------------------------------------------
(* Induction. *)

\* A set of numbers has a least one.
LEMMA LeastNat ==
  ASSUME NEW T \in SUBSET Nat, T # {}
  PROVE  \E m \in T : \A k \in T : m <= k
<1> DEFINE R == OpToRel(<, Nat)
<1>1. IsWellFoundedOn(R, Nat)
  BY NatLessThanWellFounded, Zenon
<1>2. \A x, y \in Nat : y < x => <<y, x>> \in R
  BY DEF OpToRel
<1> HIDE DEF R
<1>3. PICK x \in T : \A y \in T : <<y, x>> \notin R
  BY <1>1, WFMin, Zenon
<1>4. \A y \in T : ~(y < x)
  BY <1>2, <1>3, Zenon
<1>5. \A y \in T : x <= y
  BY ONLY <1>4, T \in SUBSET Nat, x \in T
<1> QED  BY <1>5, Zenon

\* Induction up to n, on the set of the numbers that have the property.
LEMMA Induction ==
  ASSUME NEW n \in Nat, NEW T, 0 \in T, \A i \in 1 .. n : i - 1 \in T => i \in T
  PROVE  0 .. n \subseteq T
<1> SUFFICES ASSUME (0 .. n) \ T # {} PROVE FALSE
  OBVIOUS
<1>0. (0 .. n) \ T \in SUBSET Nat
  OBVIOUS
<1>1. PICK m \in (0 .. n) \ T : \A k \in (0 .. n) \ T : m <= k
  BY <1>0, LeastNat, Zenon
<1>2. m # 0 /\ m \in 1 .. n /\ m - 1 \in 0 .. n /\ ~(m <= m - 1)
  BY <1>1
<1>3. m - 1 \in T
  BY <1>1, <1>2, Zenon
<1> QED  BY <1>1, <1>2, <1>3, Zenon

-----------------------------------------------------------------------------
(* The ring. *)

\* A cursor that has gone around the ring of n slots at most once.
Wrap(n, a) == IF a < n THEN a ELSE a - n

\* The l elements from slot h on.
Listed(n, b, h, l) == [k \in 1 .. l |-> b[Wrap(n, h + k - 1)]]

\* Index arithmetic on a ring is a wrap.
LEMMA ModWraps ==
  ASSUME NEW n \in Nat \ {0}, NEW a \in Nat, a < n + n
  PROVE  a % n = Wrap(n, a)
<1>1. CASE a < n
  BY <1>1 DEF Wrap
<1>2. CASE ~(a < n)
  BY <1>2 DEF Wrap
<1> QED  BY <1>1, <1>2

\* The fields of a queue.
LEMMA Fields ==
  ASSUME NEW n \in Nat, NEW r \in Queues(n)
  PROVE  /\ r.n = n /\ r.inline \in BOOLEAN /\ r.heap \in Seq(Items)
         /\ r.buf \in [0 .. n - 1 -> Items \cup {NoItem}]
         /\ r.head \in Nat /\ r.tail \in Nat /\ r.len \in Nat /\ r.len <= n
         /\ n > 0 => r.head < n /\ r.tail < n
         /\ n = 0 => r.head = 0 /\ r.tail = 0
BY DEF Queues

\* What Elements computes on a ring.
LEMMA RingElements ==
  ASSUME NEW n \in Nat, NEW r \in Queues(n), r.inline
  PROVE  Elements(r) = Listed(n, r.buf, r.head, r.len)
<1>1. \A k \in 1 .. r.len : (r.head + k - 1) % r.n = Wrap(n, r.head + k - 1)
  <2> TAKE k \in 1 .. r.len
  <2>1. n \in Nat \ {0} /\ r.head + k - 1 \in Nat /\ r.head + k - 1 < n + n
    BY Fields
  <2> QED  BY <2>1, Fields, ModWraps, SMTT(30)
<1> QED  BY <1>1 DEF Elements, Listed

\* A queue in order: the cursors agree, and every slot they count is initialised.
Good(r) ==
  /\ r.n \in Sizes /\ r \in Queues(r.n)
  /\ r.inline /\ r.n > 0 => r.tail = (r.head + r.len) % r.n
  /\ Elements(r) \in Seq(Items)

\* The slots between the cursors of a ring in order.
LEMMA GoodRing ==
  ASSUME NEW r, Good(r), r.inline
  PROVE  /\ r.n \in Nat /\ r.n \in Sizes /\ r \in Queues(r.n)
         /\ r.n > 0 => r.tail = Wrap(r.n, r.head + r.len)
         /\ \A k \in 1 .. r.len : r.buf[Wrap(r.n, r.head + k - 1)] \in Items
         /\ Elements(r) = Listed(r.n, r.buf, r.head, r.len)
         /\ Len(Elements(r)) = r.len
<1>1. r.n \in Nat /\ r.n \in Sizes /\ r \in Queues(r.n)
  BY QueueAssumption, Zenon DEF Good
<1>2. ASSUME r.n > 0 PROVE r.tail = Wrap(r.n, r.head + r.len)
  <2>1. r.n \in Nat \ {0} /\ r.head + r.len \in Nat /\ r.head + r.len < r.n + r.n
    BY <1>1, <1>2, Fields
  <2> QED  BY <2>1, <1>2, ModWraps DEF Good
<1>3. Elements(r) = Listed(r.n, r.buf, r.head, r.len)
  BY <1>1, RingElements
<1>4. r.len \in Nat
  BY <1>1, Fields
<1>5. Listed(r.n, r.buf, r.head, r.len) \in Seq(Items)
  BY <1>3 DEF Good
<1>6. \A k \in 1 .. r.len : r.buf[Wrap(r.n, r.head + k - 1)] \in Items
  <2> TAKE k \in 1 .. r.len
  <2>1. k \in DOMAIN Listed(r.n, r.buf, r.head, r.len)
        /\ Listed(r.n, r.buf, r.head, r.len)[k] = r.buf[Wrap(r.n, r.head + k - 1)]
    BY DEF Listed
  <2> HIDE DEF Listed
  <2>2. Listed(r.n, r.buf, r.head, r.len)[k] \in Items
    BY <1>5, <2>1
  <2> QED  BY <2>1, <2>2
<1>7. Len(Elements(r)) = r.len
  BY <1>3, <1>4 DEF Listed
<1> QED  BY <1>1, <1>2, <1>3, <1>6, <1>7

\* How a ring in order is recognised.
LEMMA MakeRing ==
  ASSUME NEW n \in Sizes, NEW r \in Queues(n), r.inline,
         n > 0 => r.tail = Wrap(n, r.head + r.len),
         \A k \in 1 .. r.len : r.buf[Wrap(n, r.head + k - 1)] \in Items
  PROVE  Good(r) /\ r.n = n /\ Elements(r) = Listed(n, r.buf, r.head, r.len)
<1>1. n \in Nat /\ r.n = n
  BY QueueAssumption, Fields
<1>2. ASSUME n > 0 PROVE r.tail = (r.head + r.len) % n
  <2>1. n \in Nat \ {0} /\ r.head + r.len \in Nat /\ r.head + r.len < n + n
    BY <1>1, <1>2, Fields
  <2> QED  BY <2>1, <1>2, ModWraps
<1>3. Elements(r) = Listed(n, r.buf, r.head, r.len)
  BY <1>1, RingElements
<1>4. Listed(n, r.buf, r.head, r.len) \in Seq(Items)
  <2>1. r.len \in Nat
    BY <1>1, Fields
  <2> QED  BY <2>1 DEF Listed
<1> QED  BY <1>1, <1>2, <1>3, <1>4 DEF Good

\* A cursor that steps around the ring stops at the slots index arithmetic names:
\* the loops of Iter::next and of the spills visit the elements in order.
LEMMA WalkStops ==
  ASSUME NEW r, Good(r), r.inline
  PROVE  Walk(r) = [k \in 1 .. r.len |-> Wrap(r.n, r.head + k - 1)]
<1> DEFINE W == [k \in 1 .. r.len |-> Wrap(r.n, r.head + k - 1)]
           F(f) == [k \in 1 .. r.len |-> IF k = 1 THEN r.head ELSE Up(r.n, f[k - 1])]
<1>1. /\ r.n \in Nat /\ r.head \in Nat /\ r.len \in Nat /\ r.len <= r.n
      /\ r.n > 0 => r.head < r.n
  BY GoodRing, Fields
<1>2. W = F(W)
  <2> SUFFICES ASSUME NEW k \in 1 .. r.len
               PROVE  Wrap(r.n, r.head + k - 1) =
                        IF k = 1 THEN r.head ELSE Up(r.n, W[k - 1])
    OBVIOUS
  <2>1. CASE k = 1
    BY <1>1, <2>1 DEF Wrap
  <2>2. CASE k # 1
    <3>1. W[k - 1] = Wrap(r.n, r.head + k - 2)
      BY <1>1, <2>2
    <3> HIDE DEF W
    <3> QED  BY <1>1, <2>2, <3>1 DEF Wrap, Up
  <2> QED  BY <2>1, <2>2
<1>3. PICK f : f = F(f) /\ Walk(r) = f
  BY <1>2, Zenon DEF Walk
<1>4. /\ \A k \in 1 .. r.len : f[k] = IF k = 1 THEN r.head ELSE Up(r.n, f[k - 1])
      /\ f = [k \in 1 .. r.len |-> f[k]]
  BY <1>3, Zenon
<1>5. /\ \A k \in 1 .. r.len : W[k] = IF k = 1 THEN r.head ELSE Up(r.n, W[k - 1])
      /\ W = [k \in 1 .. r.len |-> W[k]]
  BY <1>2, Zenon
<1>6. \A k \in 1 .. r.len : f[k] = W[k]
  <2> HIDE DEF W
  <2> DEFINE T == {j \in 0 .. r.len : j > 0 => f[j] = W[j]}
  <2>1. 0 \in T
    BY <1>1
  <2>2. ASSUME NEW i \in 1 .. r.len, i - 1 \in T PROVE i \in T
    <3>1. f[i] = W[i]
      <4>1. CASE i = 1
        BY <1>4, <1>5, <4>1
      <4>2. CASE i # 1
        <5>1. f[i - 1] = W[i - 1]
          BY <1>1, <2>2, <4>2
        <5>2. f[i] = Up(r.n, f[i - 1])
          BY <1>4, <4>2, Zenon
        <5>3. W[i] = Up(r.n, W[i - 1])
          BY <1>5, <4>2, SMTT(30)
        <5> QED  BY <5>1, <5>2, <5>3, Zenon
      <4> QED  BY <4>1, <4>2
    <3> QED  BY <1>1, <3>1
  <2>3. 0 .. r.len \subseteq T
    <3> HIDE DEF T
    <3> QED  BY <1>1, <2>1, <2>2, Induction, SMTT(30)
  <2> QED  BY <1>1, <2>3
<1>7. f = W
  <2> HIDE DEF W
  <2> QED  BY <1>4, <1>5, <1>6, SMTT(30)
<1> QED  BY <1>3, <1>7, SMTT(30)

\* iter yields the elements in order.
LEMMA IterIsElements ==
  ASSUME NEW r, Good(r)
  PROVE  Iter(r) = Elements(r)
<1>1. CASE r.inline
  <2>1. \A k \in 1 .. r.len : Walk(r)[k] = Wrap(r.n, r.head + k - 1)
    BY <1>1, WalkStops, Zenon
  <2>2. Elements(r) = Listed(r.n, r.buf, r.head, r.len)
    BY <1>1, GoodRing
  <2> QED  BY <1>1, <2>1, <2>2 DEF Iter, Listed
<1>2. CASE ~r.inline
  BY <1>2, SMTT(30) DEF Iter, Elements
<1> QED  BY <1>1, <1>2

\* The elements of a ring in order, slot by slot.
LEMMA RingView ==
  ASSUME NEW r, Good(r), r.inline
  PROVE  /\ r.n \in Nat /\ r.n \in Sizes /\ r \in Queues(r.n)
         /\ r.head \in Nat /\ r.len \in Nat /\ r.len <= r.n
         /\ r.n > 0 => r.head < r.n /\ r.tail \in 0 .. r.n - 1 /\ r.tail = Wrap(r.n, r.head + r.len)
         /\ r.buf \in [0 .. r.n - 1 -> Items \cup {NoItem}]
         /\ Elements(r) \in Seq(Items) /\ Len(Elements(r)) = r.len
         /\ \A k \in 1 .. r.len : /\ Wrap(r.n, r.head + k - 1) \in 0 .. r.n - 1
                                  /\ Elements(r)[k] = r.buf[Wrap(r.n, r.head + k - 1)]
<1>1. /\ r.n \in Nat /\ r.n \in Sizes /\ r \in Queues(r.n)
      /\ r.n > 0 => r.tail = Wrap(r.n, r.head + r.len)
      /\ Elements(r) = Listed(r.n, r.buf, r.head, r.len) /\ Len(Elements(r)) = r.len
  BY GoodRing, SMTT(30)
<1>2. /\ r.head \in Nat /\ r.tail \in Nat /\ r.len \in Nat /\ r.len <= r.n
      /\ r.n > 0 => r.head < r.n /\ r.tail < r.n
      /\ r.buf \in [0 .. r.n - 1 -> Items \cup {NoItem}]
  BY <1>1, Fields, SMTT(30)
<1>3. \A k \in 1 .. r.len : Wrap(r.n, r.head + k - 1) \in 0 .. r.n - 1
  BY <1>1, <1>2, SMTT(30) DEF Wrap
<1>4. \A k \in 1 .. r.len : Elements(r)[k] = r.buf[Wrap(r.n, r.head + k - 1)]
  BY <1>1 DEF Listed
<1>5. Elements(r) \in Seq(Items)
  BY DEF Good
<1> QED  BY <1>1, <1>2, <1>3, <1>4, <1>5, SMTT(30)

\* p is a ring of n slots whose l slots from h on hold s.
Holding(p, n, h, l, s) ==
  /\ n \in Sizes /\ p \in Queues(n) /\ p.inline /\ p.head = h /\ p.len = l
  /\ n > 0 => p.tail = Wrap(n, h + l)
  /\ s \in Seq(Items) /\ Len(s) = l
  /\ \A k \in 1 .. l : p.buf[Wrap(n, h + k - 1)] = s[k]

\* Such a ring is a queue of s.
LEMMA RingOf ==
  ASSUME NEW p, NEW n, NEW h, NEW l, NEW s, Holding(p, n, h, l, s)
  PROVE  Good(p) /\ p.n = n /\ Elements(p) = s
<1> USE DEF Holding
<1>1. \A k \in 1 .. p.len : p.buf[Wrap(n, p.head + k - 1)] \in Items
  OBVIOUS
<1>2. Good(p) /\ p.n = n /\ Elements(p) = Listed(n, p.buf, p.head, p.len)
  BY <1>1, MakeRing
<1>3. Listed(n, p.buf, p.head, p.len) = s
  BY SMTT(30) DEF Listed
<1> QED  BY <1>2, <1>3

\* The heap variant holds the sequence itself.
LEMMA HeapHolds ==
  ASSUME NEW n \in Sizes, NEW s \in Seq(Items)
  PROVE  /\ Good(OnHeap(n, s)) /\ OnHeap(n, s).n = n /\ Elements(OnHeap(n, s)) = s
         /\ ~OnHeap(n, s).inline
<1>1. n \in Nat
  BY QueueAssumption
<1>2. /\ OnHeap(n, s) \in Queues(n) /\ OnHeap(n, s).n = n /\ ~OnHeap(n, s).inline
      /\ OnHeap(n, s).heap = s
  <2>1. PICK g : g = Ring(n)
    OBVIOUS
  <2>2. g \in Queues(n)
    BY <1>1, <2>1 DEF Ring, Queues
  <2>3. OnHeap(n, s) = [g EXCEPT !.inline = FALSE, !.heap = s]
    BY <2>1 DEF OnHeap
  <2> QED  BY <2>2, <2>3, Zenon DEF Queues
<1> QED  BY <1>2 DEF Good, Elements

\* A new ring is empty.
LEMMA RingEmpty ==
  ASSUME NEW n \in Sizes
  PROVE  Good(Ring(n)) /\ Ring(n).n = n /\ Ring(n).inline /\ Elements(Ring(n)) = <<>>
<1>1. n \in Nat
  BY QueueAssumption, SMTT(30)
<1>2. /\ Ring(n) \in Queues(n) /\ Ring(n).n = n /\ Ring(n).inline
      /\ Ring(n).head = 0 /\ Ring(n).tail = 0 /\ Ring(n).len = 0
  BY <1>1 DEF Ring, Queues
<1>3. n > 0 => Wrap(n, Ring(n).head + Ring(n).len) = 0
  BY <1>1, <1>2, SMTT(30) DEF Wrap
<1>4. Good(Ring(n)) /\ Elements(Ring(n)) = Listed(n, Ring(n).buf, Ring(n).head, Ring(n).len)
  BY <1>2, <1>3, MakeRing
<1> QED  BY <1>2, <1>4 DEF Listed

\* What is known of the heap variant, and what any change of its deque leaves.
LEMMA GoodHeap ==
  ASSUME NEW r, Good(r), ~r.inline, NEW s \in Seq(Items)
  PROVE  /\ r.heap = Elements(r)
         /\ Good([r EXCEPT !.heap = s]) /\ [r EXCEPT !.heap = s].n = r.n
         /\ Elements([r EXCEPT !.heap = s]) = s
<1>1. r.n \in Nat /\ r.n \in Sizes /\ r \in Queues(r.n)
  BY QueueAssumption, Zenon DEF Good
<1> DEFINE p == [r EXCEPT !.heap = s]
<1>2. p \in Queues(r.n) /\ p.n = r.n /\ ~p.inline /\ p.heap = s
  BY <1>1, ZenonT(40) DEF Queues
<1> HIDE DEF p
<1>3. Good(p) /\ Elements(p) = s
  BY <1>1, <1>2, SMTT(30) DEF Good, Elements
<1>4. r.heap = Elements(r)
  BY DEF Elements
<1> QED  BY <1>2, <1>3, <1>4 DEF p

\* A write to the slot at tail, then a step of tail.
LEMMA RingPushBack ==
  ASSUME NEW r, Good(r), r.inline, r.len < r.n, NEW x \in Items
  PROVE  /\ Good(PushBack(r, x)) /\ PushBack(r, x).n = r.n
         /\ Elements(PushBack(r, x)) = Append(Elements(r), x)
<1> DEFINE p == PushBack(r, x)
           n == r.n
           h == r.head
           l == r.len
           t == r.tail
           E == Elements(r)
           s == Append(E, x)
<1>1. /\ n \in Nat /\ n \in Sizes /\ r \in Queues(n) /\ h \in Nat /\ l \in Nat /\ h < n /\ l < n
      /\ t \in 0 .. n - 1 /\ t = Wrap(n, h + l) /\ r.buf \in [0 .. n - 1 -> Items \cup {NoItem}]
      /\ E \in Seq(Items) /\ Len(E) = l
      /\ \A k \in 1 .. l : Wrap(n, h + k - 1) \in 0 .. n - 1 /\ E[k] = r.buf[Wrap(n, h + k - 1)]
  BY RingView
<1>2. /\ p \in Queues(n) /\ p.inline /\ p.head = h /\ p.tail = Up(n, t)
      /\ p.len = l + 1 /\ p.buf = [r.buf EXCEPT ![t] = x]
  <2>1. p = [r EXCEPT !.buf[r.tail] = x, !.tail = Up(r.n, @), !.len = @ + 1]
    BY SMTT(30) DEF PushBack
  <2>2. Up(n, t) \in {0} \cup 0 .. n - 1 /\ l + 1 \in 0 .. n
    <3> HIDE DEF p, n, h, l, t, E
    <3> QED  BY ONLY <1>1, SMTT(30) DEF Up
  <2> HIDE DEF p
  <2> QED  BY <1>1, <2>1, <2>2, Zenon DEF Queues
<1> HIDE DEF p, n, h, l, t, E
<1>3. Up(n, t) = Wrap(n, h + (l + 1)) /\ Wrap(n, h + (l + 1) - 1) = t
  BY ONLY <1>1 DEF Up, Wrap
<1>4. \A k \in 1 .. l : Wrap(n, h + k - 1) # t
  BY ONLY <1>1 DEF Wrap
<1>5. s \in Seq(Items) /\ Len(s) = l + 1 /\ s[l + 1] = x /\ \A k \in 1 .. l : s[k] = E[k]
  BY <1>1, SMTT(30)
<1> HIDE DEF s
<1>6. ASSUME NEW k \in 1 .. l + 1 PROVE p.buf[Wrap(n, h + k - 1)] = s[k]
  <2>1. CASE k \in 1 .. l
    <3>1. p.buf[Wrap(n, h + k - 1)] = r.buf[Wrap(n, h + k - 1)]
      BY <1>1, <1>2, <1>4, <2>1, ZenonT(40)
    <3> QED  BY <1>1, <1>5, <2>1, <3>1, Zenon
  <2>2. CASE k = l + 1
    BY <1>1, <1>2, <1>3, <1>5, <2>2
  <2> QED  BY <1>1, <2>1, <2>2
<1>7. Holding(p, n, h, l + 1, s)
  BY <1>1, <1>2, <1>3, <1>5, <1>6, ZenonT(40) DEF Holding
<1> QED  BY <1>7, RingOf, ZenonT(40) DEF p, n, s, E

\* A push at the back, in the ring, in the spill of a full one and on the heap.
LEMMA PushBackAppends ==
  ASSUME NEW r, Good(r), NEW x \in Items
  PROVE  /\ Good(PushBack(r, x)) /\ PushBack(r, x).n = r.n
         /\ Elements(PushBack(r, x)) = Append(Elements(r), x)
<1>1. Elements(r) \in Seq(Items) /\ Append(Elements(r), x) \in Seq(Items) /\ r.n \in Sizes
  BY DEF Good
<1>2. CASE r.inline /\ r.len < r.n
  BY <1>2, RingPushBack
<1>3. CASE r.inline /\ ~(r.len < r.n)
  <2>1. PushBack(r, x) = OnHeap(r.n, Append(Elements(r), x))
    BY <1>3, IterIsElements DEF PushBack
  <2> DEFINE s == Append(Elements(r), x)
  <2> HIDE DEF s
  <2>2. s \in Seq(Items) /\ PushBack(r, x) = OnHeap(r.n, s)
    BY <1>1, <2>1 DEF s
  <2>3. Good(PushBack(r, x)) /\ PushBack(r, x).n = r.n /\ Elements(PushBack(r, x)) = s
    BY <1>1, <2>2, HeapHolds
  <2> QED  BY <2>3 DEF s
<1>4. CASE ~r.inline
  <2>1. PushBack(r, x) = [r EXCEPT !.heap = Append(r.heap, x)]
    BY <1>4 DEF PushBack
  <2>2. r.heap = Elements(r)
    BY <1>4 DEF Elements
  <2> DEFINE s == Append(Elements(r), x)
  <2>3. PushBack(r, x) = [r EXCEPT !.heap = s] /\ s \in Seq(Items)
    BY <1>1, <2>1, <2>2, Zenon
  <2> HIDE DEF s
  <2>4. Good(PushBack(r, x)) /\ PushBack(r, x).n = r.n /\ Elements(PushBack(r, x)) = s
    BY <1>4, <2>3, GoodHeap, SMTT(30)
  <2> QED  BY <2>4 DEF s
<1> QED  BY <1>2, <1>3, <1>4

\* An element in front of a sequence.
LEMMA Cons ==
  ASSUME NEW s \in Seq(Items), NEW x \in Items
  PROVE  /\ <<x>> \o s \in Seq(Items) /\ Len(<<x>> \o s) = Len(s) + 1
         /\ (<<x>> \o s)[1] = x
         /\ \A k \in 1 .. Len(s) : (<<x>> \o s)[k + 1] = s[k]
OBVIOUS

\* A step of head back, then a write to its slot.
LEMMA RingPushFront ==
  ASSUME NEW r, Good(r), r.inline, r.len < r.n, NEW x \in Items
  PROVE  /\ Good(PushFront(r, x)) /\ PushFront(r, x).n = r.n
         /\ Elements(PushFront(r, x)) = <<x>> \o Elements(r)
<1> DEFINE p == PushFront(r, x)
           n == r.n
           h == r.head
           d == Down(n, h)
           l == r.len
           E == Elements(r)
           s == <<x>> \o E
<1>1. /\ n \in Nat /\ n \in Sizes /\ r \in Queues(n) /\ h \in Nat /\ l \in Nat /\ h < n /\ l < n
      /\ r.tail = Wrap(n, h + l) /\ r.buf \in [0 .. n - 1 -> Items \cup {NoItem}]
      /\ E \in Seq(Items) /\ Len(E) = l
      /\ \A k \in 1 .. l : Wrap(n, h + k - 1) \in 0 .. n - 1 /\ E[k] = r.buf[Wrap(n, h + k - 1)]
  BY RingView, SMTT(30)
<1>2. d \in 0 .. n - 1 /\ d = IF h = 0 THEN n - 1 ELSE h - 1
  BY <1>1 DEF Down
<1>3. /\ p \in Queues(n) /\ p.inline /\ p.head = d /\ p.tail = r.tail
      /\ p.len = l + 1 /\ p.buf = [r.buf EXCEPT ![d] = x]
  <2>1. p = [r EXCEPT !.buf[d] = x, !.head = d, !.len = @ + 1]
    BY SMTT(30) DEF PushFront
  <2>2. d \in {0} \cup 0 .. n - 1 /\ l + 1 \in 0 .. n
    BY <1>1, <1>2, SMTT(30)
  <2> HIDE DEF p, d
  <2> QED  BY <1>1, <1>2, <2>1, <2>2, Zenon DEF Queues
<1> HIDE DEF p, n, h, d, l, E
<1>4. r.tail = Wrap(n, d + (l + 1)) /\ Wrap(n, d + 1 - 1) = d
  BY ONLY <1>1, <1>2, SMTT(30) DEF Wrap
<1>5. \A k \in 1 .. l : Wrap(n, d + (k + 1) - 1) = Wrap(n, h + k - 1) /\ Wrap(n, h + k - 1) # d
  BY ONLY <1>1, <1>2 DEF Wrap
<1>6. s \in Seq(Items) /\ Len(s) = l + 1 /\ s[1] = x /\ \A k \in 1 .. l : s[k + 1] = E[k]
  BY <1>1, Cons, ZenonT(40)
<1> HIDE DEF s
<1>7. ASSUME NEW k \in 1 .. l + 1 PROVE p.buf[Wrap(n, d + k - 1)] = s[k]
  <2>1. CASE k = 1
    BY <1>1, <1>2, <1>3, <1>4, <1>6, <2>1
  <2>2. CASE k # 1
    <3>1. PICK j \in 1 .. l : k = j + 1
      BY <1>1, <2>2, SMTT(30)
    <3>2. s[j + 1] = E[j] /\ E[j] = r.buf[Wrap(n, h + j - 1)]
      BY <1>1, <1>6
    <3>3. p.buf[Wrap(n, h + j - 1)] = r.buf[Wrap(n, h + j - 1)]
      BY <1>1, <1>2, <1>3, <1>5, ZenonT(40)
    <3>4. Wrap(n, d + k - 1) = Wrap(n, h + j - 1)
      BY <1>5, <3>1
    <3> QED  BY <3>1, <3>2, <3>3, <3>4, ZenonT(40)
  <2> QED  BY <2>1, <2>2
<1>8. Holding(p, n, d, l + 1, s)
  BY <1>1, <1>3, <1>4, <1>6, <1>7, ZenonT(40) DEF Holding
<1> QED  BY <1>8, RingOf, ZenonT(40) DEF p, n, s, E

\* A push at the front, in the ring, in the spill of a full one and on the heap.
LEMMA PushFrontPrepends ==
  ASSUME NEW r, Good(r), NEW x \in Items
  PROVE  /\ Good(PushFront(r, x)) /\ PushFront(r, x).n = r.n
         /\ Elements(PushFront(r, x)) = <<x>> \o Elements(r)
<1> DEFINE s == <<x>> \o Elements(r)
<1>1. s \in Seq(Items) /\ r.n \in Sizes
  BY Cons DEF Good
<1>2. CASE r.inline /\ r.len < r.n
  BY <1>2, RingPushFront
<1>3. CASE r.inline /\ ~(r.len < r.n)
  <2>1. PushFront(r, x) = OnHeap(r.n, s)
    BY <1>3, IterIsElements, SMTT(30) DEF PushFront
  <2> HIDE DEF s
  <2>2. Good(PushFront(r, x)) /\ PushFront(r, x).n = r.n /\ Elements(PushFront(r, x)) = s
    BY <1>1, <2>1, HeapHolds
  <2> QED  BY <2>2 DEF s
<1>4. CASE ~r.inline
  <2>1. PushFront(r, x) = [r EXCEPT !.heap = s]
    <3>1. PushFront(r, x) = [r EXCEPT !.heap = <<x>> \o r.heap]
      BY <1>4 DEF PushFront
    <3> QED  BY <1>4, <3>1 DEF Elements
  <2> HIDE DEF s
  <2>2. Good(PushFront(r, x)) /\ PushFront(r, x).n = r.n /\ Elements(PushFront(r, x)) = s
    BY <1>1, <1>4, <2>1, GoodHeap
  <2> QED  BY <2>2 DEF s
<1> QED  BY <1>2, <1>3, <1>4, SMTT(30)

\* The loop of push_backs is the function its definition describes.
LEMMA PushAllLoop ==
  ASSUME NEW r, NEW s \in Seq(Items)
  PROVE  \E f : /\ f[0] = r
                /\ \A i \in 1 .. Len(s) : f[i] = PushBack(f[i - 1], s[i])
                /\ PushAll(r, s) = f[Len(s)]
<1> DEFINE F(f, m) == [i \in 0 .. m |-> IF i = 0 THEN r ELSE PushBack(f[i - 1], s[i])]
           T == {m \in 0 .. Len(s) : \E f : f = F(f, m)}
<1>1. Len(s) \in Nat
  OBVIOUS
<1>2. 0 \in T
  <2> DEFINE f == [i \in {0} |-> r]
  <2>1. f = F(f, 0)
    OBVIOUS
  <2> HIDE DEF f
  <2>2. \E g : g = F(g, 0)
    BY <2>1
  <2> QED  BY <1>1, <2>2
<1>3. ASSUME NEW m \in 1 .. Len(s), m - 1 \in T PROVE m \in T
  <2>1. PICK f : f = F(f, m - 1)
    BY <1>3, SMTT(30)
  <2> DEFINE g == [i \in 0 .. m |-> IF i = m THEN PushBack(f[m - 1], s[m]) ELSE f[i]]
  <2>2. ASSUME NEW i \in 0 .. m
        PROVE  g[i] = IF i = 0 THEN r ELSE PushBack(g[i - 1], s[i])
    <3>1. CASE i = m
      <4>1. g[i - 1] = f[m - 1] /\ i # 0
        BY <1>1, <3>1
      <4> QED  BY <3>1, <4>1
    <3>2. CASE i # m
      <4>1. i \in 0 .. m - 1 /\ g[i] = f[i] /\ (i # 0 => g[i - 1] = f[i - 1])
        BY <1>1, <3>2, SMTT(30)
      <4>2. f[i] = IF i = 0 THEN r ELSE PushBack(f[i - 1], s[i])
        BY <2>1, <4>1, SMTT(30)
      <4> HIDE DEF g
      <4> QED  BY <4>1, <4>2
    <3> QED  BY <3>1, <3>2
  <2>3. g = F(g, m)
    BY <2>2
  <2> HIDE DEF g
  <2>4. \E e : e = F(e, m)
    BY <2>3
  <2>5. m \in 0 .. Len(s)
    BY <1>1
  <2> QED  BY <2>4, <2>5
<1>4. Len(s) \in T
  <2> HIDE DEF T
  <2>1. 0 .. Len(s) \subseteq T
    BY <1>1, <1>2, <1>3, Induction, Zenon
  <2> QED  BY <1>1, <2>1
<1>5. PICK f : f = F(f, Len(s)) /\ PushAll(r, s) = f[Len(s)]
  BY <1>4, Zenon DEF PushAll
<1>6. f[0] = r /\ \A i \in 1 .. Len(s) : f[i] = PushBack(f[i - 1], s[i])
  BY <1>1, <1>5
<1> QED  BY <1>5, <1>6, Zenon

\* The elements pushed in a loop end up at the back in order, spill or not.
LEMMA PushAllAppends ==
  ASSUME NEW r, Good(r), NEW s \in Seq(Items)
  PROVE  /\ Good(PushAll(r, s)) /\ PushAll(r, s).n = r.n
         /\ Elements(PushAll(r, s)) = Elements(r) \o s
<1> DEFINE E == Elements(r)
<1>1. PICK f : /\ f[0] = r
               /\ \A i \in 1 .. Len(s) : f[i] = PushBack(f[i - 1], s[i])
               /\ PushAll(r, s) = f[Len(s)]
  BY PushAllLoop
<1>2. E \in Seq(Items) /\ Len(s) \in Nat
  BY DEF Good
<1> DEFINE T == {i \in 0 .. Len(s) : Good(f[i]) /\ f[i].n = r.n
                                     /\ Elements(f[i]) = E \o SubSeq(s, 1, i)}
<1>3. 0 \in T
  <2>1. SubSeq(s, 1, 0) = <<>>
    OBVIOUS
  <2>2. E \o <<>> = E
    BY <1>2
  <2> QED  BY <1>1, <1>2, <2>1, <2>2
<1>4. ASSUME NEW i \in 1 .. Len(s), i - 1 \in T PROVE i \in T
  <2>1. Good(f[i - 1]) /\ f[i - 1].n = r.n /\ Elements(f[i - 1]) = E \o SubSeq(s, 1, i - 1)
    BY <1>4
  <2>2. s[i] \in Items
    OBVIOUS
  <2>3. /\ Good(f[i]) /\ f[i].n = r.n
        /\ Elements(f[i]) = Append(E \o SubSeq(s, 1, i - 1), s[i])
    BY <1>1, <2>1, <2>2, PushBackAppends, Zenon
  <2>4. Append(E \o SubSeq(s, 1, i - 1), s[i]) = E \o SubSeq(s, 1, i)
    BY <1>2, SMTT(30)
  <2>5. i \in 0 .. Len(s) /\ Elements(f[i]) = E \o SubSeq(s, 1, i)
    BY <1>2, <2>3, <2>4, SMTT(30)
  <2> HIDE DEF E
  <2> QED  BY <2>3, <2>5, Zenon
<1>5. Len(s) \in T
  <2> HIDE DEF T
  <2>1. 0 .. Len(s) \subseteq T
    BY <1>2, <1>3, <1>4, Induction, Zenon
  <2> QED  BY <1>2, <2>1
<1>6. SubSeq(s, 1, Len(s)) = s
  OBVIOUS
<1> QED  BY <1>1, <1>5, <1>6, SMTT(30)

\* into_vec and clear leave nothing.
LEMMA EmptiedIsEmpty ==
  ASSUME NEW r, Good(r)
  PROVE  Good(Emptied(r)) /\ Emptied(r).n = r.n /\ Elements(Emptied(r)) = <<>>
<1>1. CASE r.inline
  <2> DEFINE p == Emptied(r)
  <2>1. r.n \in Nat /\ r.n \in Sizes /\ r \in Queues(r.n)
    BY <1>1, RingView
  <2>2. p = [r EXCEPT !.head = 0, !.tail = 0, !.len = 0]
    BY <1>1 DEF Emptied
  <2> HIDE DEF p
  <2>3. p \in Queues(r.n) /\ p.inline /\ p.head = 0 /\ p.tail = 0 /\ p.len = 0
    <3>1. PICK n \in Nat : n = r.n
      BY <2>1
    <3>2. r \in Queues(n) /\ r.inline
      BY <1>1, <2>1, <3>1
    <3>3. PICK z : z = 0 /\ z \in 0 .. n /\ z \in {0} \cup 0 .. n - 1
      OBVIOUS
    <3>4. p = [r EXCEPT !.head = z, !.tail = z, !.len = z]
      BY <2>2, <3>3
    <3>5. p \in Queues(n) /\ p.inline /\ p.head = z /\ p.tail = z /\ p.len = z
      BY ONLY <3>2, <3>3, <3>4, Zenon DEF Queues
    <3> QED  BY <3>1, <3>3, <3>5
  <2>4. r.n > 0 => Wrap(r.n, 0 + 0) = 0
    BY <2>1 DEF Wrap
  <2>5. <<>> \in Seq(Items) /\ Len(<<>>) = 0 /\ 1 .. 0 = {}
    OBVIOUS
  <2>6. Holding(p, r.n, 0, 0, <<>>)
    BY <2>1, <2>3, <2>4, <2>5 DEF Holding
  <2> QED  BY <2>6, RingOf, ZenonT(40) DEF p
<1>2. CASE ~r.inline
  <2>1. Emptied(r) = [r EXCEPT !.heap = <<>>] /\ <<>> \in Seq(Items)
    BY <1>2 DEF Emptied
  <2>2. PICK s : s = <<>> /\ s \in Seq(Items)
    BY <2>1, Zenon
  <2>3. Good([r EXCEPT !.heap = s]) /\ [r EXCEPT !.heap = s].n = r.n /\ Elements([r EXCEPT !.heap = s]) = s
    BY <1>2, <2>2, GoodHeap, Zenon
  <2> QED  BY <2>1, <2>2, <2>3
<1> QED  BY <1>1, <1>2

\* A step of head over k elements.
LEMMA RingSkip ==
  ASSUME NEW r, Good(r), r.inline, NEW k \in 1 .. r.len,
         NEW d, d = Wrap(r.n, r.head + k),
         NEW p, p = [r EXCEPT !.head = d, !.len = @ - k]
  PROVE  Good(p) /\ p.n = r.n /\ Elements(p) = SubSeq(Elements(r), k + 1, Len(Elements(r)))
<1> DEFINE n == r.n
           h == r.head
           l == r.len
           E == Elements(r)
           s == SubSeq(E, k + 1, l)
<1>1. /\ n \in Nat /\ n \in Sizes /\ r \in Queues(n) /\ h \in Nat /\ l \in Nat /\ h < n /\ l <= n
      /\ r.tail = Wrap(n, h + l) /\ E \in Seq(Items) /\ Len(E) = l /\ k \in 1 .. l
      /\ \A j \in 1 .. l : E[j] = r.buf[Wrap(n, h + j - 1)]
  BY RingView
<1>2. d \in 0 .. n - 1
  BY <1>1, SMTT(30) DEF Wrap
<1>3. /\ p \in Queues(n) /\ p.inline /\ p.head = d /\ p.tail = r.tail
      /\ p.len = l - k /\ p.buf = r.buf
  <2>1. d \in {0} \cup 0 .. n - 1 /\ l - k \in 0 .. n
    BY ONLY <1>1, <1>2
  <2>2. n \in Nat /\ r \in Queues(n) /\ r.inline /\ p = [r EXCEPT !.head = d, !.len = l - k]
    BY <1>1
  <2> HIDE DEF n, h, l, E
  <2> QED  BY ONLY <2>1, <2>2 DEF Queues
<1>4. d = Wrap(n, h + k)
  OBVIOUS
<1> HIDE DEF n, h, l, E
<1>5. /\ Wrap(n, h + l) = Wrap(n, d + (l - k))
      /\ \A j \in 1 .. l - k : Wrap(n, d + j - 1) = Wrap(n, h + (k + j) - 1) /\ k + j \in 1 .. l
  BY ONLY <1>1, <1>4 DEF Wrap
<1>6. s \in Seq(Items) /\ Len(s) = l - k /\ \A j \in 1 .. l - k : s[j] = E[k + j]
  BY ONLY <1>1
<1> HIDE DEF s
<1>7. ASSUME NEW j \in 1 .. l - k PROVE p.buf[Wrap(n, d + j - 1)] = s[j]
  BY <1>1, <1>3, <1>5, <1>6, SMTT(30)
<1>8. Holding(p, n, d, l - k, s)
  BY <1>1, <1>3, <1>5, <1>6, <1>7, Zenon DEF Holding
<1>9. Good(p) /\ p.n = n /\ Elements(p) = s
  BY <1>8, RingOf, Zenon
<1> QED  BY <1>1, <1>9 DEF n, s, E, l

\* A step of tail back.
LEMMA RingPopBack ==
  ASSUME NEW r, Good(r), r.inline, r.len > 0,
         NEW p, p = [r EXCEPT !.tail = Down(r.n, @), !.len = @ - 1]
  PROVE  /\ Good(p) /\ p.n = r.n
         /\ Elements(p) = SubSeq(Elements(r), 1, Len(Elements(r)) - 1)
         /\ r.buf[Down(r.n, r.tail)] = Elements(r)[Len(Elements(r))]
<1> DEFINE n == r.n
           h == r.head
           l == r.len
           t == r.tail
           E == Elements(r)
           s == SubSeq(E, 1, l - 1)
<1>1. /\ n \in Nat /\ n \in Sizes /\ r \in Queues(n) /\ h \in Nat /\ l \in Nat /\ h < n /\ l <= n
      /\ t = Wrap(n, h + l) /\ E \in Seq(Items) /\ Len(E) = l /\ 0 < l
      /\ \A j \in 1 .. l : E[j] = r.buf[Wrap(n, h + j - 1)]
  BY RingView
<1>2. Down(n, t) = Wrap(n, h + (l - 1)) /\ Down(n, t) \in 0 .. n - 1 /\ h + (l - 1) = h + l - 1
  <2> HIDE DEF n, h, l, t, E
  <2> QED  BY ONLY <1>1 DEF Wrap, Down
<1>3. /\ p \in Queues(n) /\ p.inline /\ p.head = h /\ p.tail = Down(n, t)
      /\ p.len = l - 1 /\ p.buf = r.buf
  <2>1. Down(n, t) \in {0} \cup 0 .. n - 1 /\ l - 1 \in 0 .. n
    BY ONLY <1>1, <1>2
  <2>2. /\ n \in Nat /\ r \in Queues(n) /\ r.inline /\ h = r.head
        /\ p = [r EXCEPT !.tail = Down(n, t), !.len = l - 1]
    BY <1>1
  <2> HIDE DEF n, h, l, t, E
  <2> QED  BY ONLY <2>1, <2>2, ZenonT(40) DEF Queues
<1> HIDE DEF n, h, l, t, E
<1>4. s \in Seq(Items) /\ Len(s) = l - 1 /\ \A j \in 1 .. l - 1 : s[j] = E[j] /\ j \in 1 .. l
  BY <1>1
<1> HIDE DEF s
<1>5. Holding(p, n, h, l - 1, s)
  BY <1>1, <1>2, <1>3, <1>4, SMTT(30) DEF Holding
<1>6. Good(p) /\ p.n = n /\ Elements(p) = s
  BY <1>5, RingOf, Zenon
<1>7. r.buf[Down(n, t)] = E[l]
  BY <1>1, <1>2, SMTT(30)
<1> QED  BY <1>1, <1>6, <1>7 DEF n, s, E, l, t

\* A write to a slot, and to a position of a sequence.
Write(r, i, x) == [r EXCEPT !.buf[i] = x]
Put(e, k, x) == [e EXCEPT ![k] = x]

\* p is the ring r with x in the slot of the k-th element.
Written(r, k, x, p) ==
  /\ Good(r) /\ r.inline /\ k \in 1 .. r.len /\ x \in Items
  /\ p = Write(r, Wrap(r.n, r.head + k - 1), x)

\* A write to the slot of the k-th element replaces it.
LEMMA RingWrite ==
  ASSUME NEW r, NEW k, NEW x, NEW p, Written(r, k, x, p)
  PROVE  /\ Good(p) /\ p.n = r.n /\ p.inline /\ p.head = r.head /\ p.len = r.len
         /\ Elements(p) = Put(Elements(r), k, x)
<1> USE DEF Write, Put
<1>9. Good(r) /\ r.inline /\ k \in 1 .. r.len
  BY Zenon DEF Written
<1>10. x \in Items
  BY ZenonT(40) DEF Written
<1> DEFINE n == r.n
           h == r.head
           l == r.len
           i == Wrap(n, h + k - 1)
           E == Elements(r)
           s == [E EXCEPT ![k] = x]
<1>1. /\ n \in Nat /\ n \in Sizes /\ r \in Queues(n) /\ h \in Nat /\ l \in Nat /\ h < n /\ l <= n
      /\ r.tail = Wrap(n, h + l) /\ E \in Seq(Items) /\ Len(E) = l /\ k \in 1 .. l
      /\ r.buf \in [0 .. n - 1 -> Items \cup {NoItem}]
      /\ \A j \in 1 .. l : Wrap(n, h + j - 1) \in 0 .. n - 1 /\ E[j] = r.buf[Wrap(n, h + j - 1)]
  BY ONLY <1>9, RingView, SMTT(30)
<1>0. i \in 0 .. n - 1
  BY <1>1
<1>2. p = [r EXCEPT !.buf[i] = x] /\ i = Wrap(n, h + k - 1)
  BY DEF Written
<1> HIDE DEF i
<1>3. /\ p \in Queues(n) /\ p.inline /\ p.head = h /\ p.tail = r.tail
      /\ p.len = l /\ p.buf = [r.buf EXCEPT ![i] = x]
  <2>1. n \in Nat /\ r \in Queues(n) /\ r.inline /\ h = r.head /\ l = r.len
    BY <1>1, <1>9
  <2> HIDE DEF n, h, l, E
  <2> QED  BY ONLY <1>0, <1>2, <1>10, <2>1, ZenonT(40) DEF Queues
<1> HIDE DEF n, h, l, E
<1>4. \A j \in 1 .. l : j # k => Wrap(n, h + j - 1) # i
  BY ONLY <1>1, <1>2, SMTT(30) DEF Wrap
<1>5. s \in Seq(Items) /\ Len(s) = l /\ s[k] = x /\ \A j \in 1 .. l : j # k => s[j] = E[j]
  BY ONLY <1>1, <1>10
<1> HIDE DEF s
<1>6. ASSUME NEW j \in 1 .. l PROVE p.buf[Wrap(n, h + j - 1)] = s[j]
  <2>1. CASE j = k
    BY <1>0, <1>1, <1>2, <1>3, <1>5, <2>1
  <2>2. CASE j # k
    <3>1. p.buf[Wrap(n, h + j - 1)] = r.buf[Wrap(n, h + j - 1)]
      BY <1>1, <1>3, <1>4, <2>2, Zenon
    <3> QED  BY <1>1, <1>5, <2>2, <3>1, Zenon
  <2> QED  BY <2>1, <2>2
<1>7. Holding(p, n, h, l, s)
  BY <1>1, <1>3, <1>5, <1>6, Zenon DEF Holding
<1>8. Good(p) /\ p.n = n /\ Elements(p) = s
  BY <1>7, RingOf, Zenon
<1> QED  BY <1>3, <1>8 DEF n, s, E, l, h

\* make_contiguous moves the elements of a wrapped ring to its first slots.
LEMMA ContiguousKeeps ==
  ASSUME NEW r, Good(r), r.inline
  PROVE  /\ Good(Contiguous(r)) /\ Contiguous(r).n = r.n
         /\ Elements(Contiguous(r)) = Elements(r)
         /\ \A k \in 1 .. r.len :
              Contiguous(r).buf[Contiguous(r).head + k - 1] = Elements(r)[k]
<1> DEFINE n == r.n
           h == r.head
           l == r.len
           E == Elements(r)
<1>1. /\ n \in Nat /\ n \in Sizes /\ r \in Queues(n) /\ h \in Nat /\ l \in Nat /\ l <= n
      /\ n > 0 => h < n /\ r.tail = Wrap(n, h + l)
      /\ r.buf \in [0 .. n - 1 -> Items \cup {NoItem}] /\ E \in Seq(Items) /\ Len(E) = l
      /\ \A j \in 1 .. l : E[j] = r.buf[Wrap(n, h + j - 1)]
  BY RingView, SMTT(30)
<1>2. CASE l = 0 \/ h < r.tail
  <2>1. Contiguous(r) = r
    BY <1>2 DEF Contiguous
  <2>2. \A k \in 1 .. l : Wrap(n, h + k - 1) = h + k - 1
    <3> HIDE DEF n, h, l, E
    <3> QED  BY ONLY <1>1, <1>2 DEF Wrap
  <2> QED  BY <1>1, <2>1, <2>2
<1>3. CASE ~(l = 0 \/ h < r.tail)
  <2> DEFINE p == Contiguous(r)
             t == IF l = n THEN 0 ELSE l
             b == [i \in 0 .. n - 1 |-> IF i < l THEN E[i + 1] ELSE r.buf[i]]
  <2>1. p = [r EXCEPT !.buf = b, !.head = 0, !.tail = t]
    <3>1. Iter(r) = E /\ DOMAIN r.buf = 0 .. n - 1
      BY <1>1, IterIsElements, SMTT(30)
    <3> QED  BY <1>3, <3>1, SMTT(30) DEF Contiguous
  <2>2. /\ t \in {0} \cup 0 .. n - 1 /\ b \in [0 .. n - 1 -> Items \cup {NoItem}]
        /\ n > 0 /\ t = Wrap(n, 0 + l)
    BY <1>1, <1>3, SMTT(30) DEF Wrap
  <2>3. \A k \in 1 .. l : Wrap(n, 0 + k - 1) = 0 + k - 1 /\ b[0 + k - 1] = E[k]
    BY <1>1, SMTT(30) DEF Wrap
  <2> HIDE DEF p, b, t
  <2>4. PICK z : z = 0 /\ z \in {0} \cup 0 .. n - 1
    OBVIOUS
  <2>5. p \in Queues(n) /\ p.inline /\ p.buf = b /\ p.head = z /\ p.tail = t /\ p.len = l
    <3>1. p = [r EXCEPT !.buf = b, !.head = z, !.tail = t]
      BY <2>1, <2>4, SMTT(30)
    <3>2. r \in Queues(n) /\ r.inline /\ l = r.len
      BY <1>1, SMTT(30)
    <3> HIDE DEF n, l, h, E
    <3> QED  BY ONLY <2>2, <2>4, <3>1, <3>2, Zenon DEF Queues
  <2> HIDE DEF n, l, h, E
  <2>6. Holding(p, n, 0, l, E)
    BY <1>1, <2>2, <2>3, <2>4, <2>5 DEF Holding
  <2>7. Good(p) /\ p.n = n /\ Elements(p) = E
    BY <2>6, RingOf, ZenonT(40)
  <2>8. \A k \in 1 .. l : p.buf[p.head + k - 1] = E[k]
    BY <2>3, <2>4, <2>5
  <2> QED  BY <2>7, <2>8 DEF p, n, l, E
<1> QED  BY <1>2, <1>3, ZenonT(40)

-----------------------------------------------------------------------------
(* The selections of retain and take_where. *)

\* No element occurs twice.
NoRepeat(s) == \A i, j \in DOMAIN s : s[i] = s[j] => i = j

\* The loop that selects is the function its definition describes.
LEMMA ThoseLoop ==
  ASSUME NEW s \in Seq(Items), NEW S
  PROVE  \E f : /\ f[0] = <<>>
                /\ \A i \in 1 .. Len(s) :
                     f[i] = IF s[i] \in S THEN Append(f[i - 1], s[i]) ELSE f[i - 1]
                /\ Those(s, S) = f[Len(s)]
<1> DEFINE G(e, i) == IF s[i] \in S THEN Append(e, s[i]) ELSE e
           F(f, m) == [i \in 0 .. m |-> IF i = 0 THEN <<>>
                                        ELSE IF s[i] \in S THEN Append(f[i - 1], s[i])
                                        ELSE f[i - 1]]
           T == {m \in 0 .. Len(s) : \E f : f = F(f, m)}
<1>1. Len(s) \in Nat
  OBVIOUS
<1>2. 0 \in T
  <2> DEFINE f == [i \in {0} |-> <<>>]
  <2>1. f = F(f, 0)
    OBVIOUS
  <2> HIDE DEF f
  <2>2. \E g : g = F(g, 0)
    BY <2>1
  <2> QED  BY <1>1, <2>2
<1>3. ASSUME NEW m \in 1 .. Len(s), m - 1 \in T PROVE m \in T
  <2>1. PICK f : f = F(f, m - 1)
    BY <1>3, ZenonT(40)
  <2> DEFINE g == [i \in 0 .. m |-> IF i = m THEN G(f[m - 1], m) ELSE f[i]]
  <2>2. ASSUME NEW i \in 0 .. m
        PROVE  g[i] = IF i = 0 THEN <<>> ELSE G(g[i - 1], i)
    <3>1. CASE i = m
      <4>1. g[i - 1] = f[m - 1] /\ i # 0
        BY <1>1, <3>1
      <4> QED  BY <3>1, <4>1
    <3>2. CASE i # m
      <4>1. i \in 0 .. m - 1 /\ g[i] = f[i] /\ (i # 0 => g[i - 1] = f[i - 1])
        BY <1>1, <3>2
      <4>2. f[i] = IF i = 0 THEN <<>> ELSE G(f[i - 1], i)
        BY <2>1, <4>1, Zenon
      <4> HIDE DEF g
      <4> QED  BY <4>1, <4>2
    <3> QED  BY <3>1, <3>2
  <2>3. g = F(g, m)
    BY <2>2
  <2> HIDE DEF g
  <2>4. \E e : e = F(e, m)
    BY <2>3, SMTT(30)
  <2>5. m \in 0 .. Len(s)
    BY <1>1
  <2> QED  BY <2>4, <2>5, Zenon
<1>4. Len(s) \in T
  <2> HIDE DEF T
  <2>1. 0 .. Len(s) \subseteq T
    BY <1>1, <1>2, <1>3, Induction, Zenon
  <2> QED  BY <1>1, <2>1
<1>5. PICK f : f = F(f, Len(s)) /\ Those(s, S) = f[Len(s)]
  BY <1>4, Zenon DEF Those
<1>6. \A i \in 0 .. Len(s) : f[i] = IF i = 0 THEN <<>> ELSE G(f[i - 1], i)
  BY <1>5, Zenon
<1>7. f[0] = <<>>
  BY <1>1, <1>6
<1>8. ASSUME NEW i \in 1 .. Len(s) PROVE f[i] = G(f[i - 1], i)
  <2>1. i \in 0 .. Len(s) /\ i # 0
    BY <1>1
  <2> QED  BY <1>6, <2>1, Zenon
<1> QED  BY <1>5, <1>7, <1>8, Zenon

\* What one more element adds to a selection.
LEMMA RangeAppend ==
  ASSUME NEW e \in Seq(Items), NEW x \in Items
  PROVE  /\ Append(e, x) \in Seq(Items) /\ Range(Append(e, x)) = Range(e) \cup {x}
         /\ x \notin Range(e) /\ NoRepeat(e) => NoRepeat(Append(e, x))
<1>1. /\ Append(e, x) \in Seq(Items) /\ DOMAIN Append(e, x) = 1 .. Len(e) + 1
      /\ DOMAIN e = 1 .. Len(e) /\ Append(e, x)[Len(e) + 1] = x
      /\ \A i \in 1 .. Len(e) : Append(e, x)[i] = e[i]
  OBVIOUS
<1>2. DOMAIN Append(e, x) = DOMAIN e \cup {Len(e) + 1} /\ Len(e) + 1 \notin DOMAIN e
  BY <1>1
<1>3. PICK a : a = Append(e, x)
  BY ZenonT(40)
<1>4. Range(a) = Range(e) \cup {x}
  BY <1>1, <1>2, <1>3 DEF Range
<1>5. x \notin Range(e) /\ NoRepeat(e) => NoRepeat(a)
  BY <1>1, <1>2, <1>3 DEF Range, NoRepeat
<1> QED  BY <1>1, <1>3, <1>4, <1>5

\* A selection keeps the elements of s that are in S, none twice.
LEMMA ThoseFacts ==
  ASSUME NEW s \in Seq(Items), NEW S
  PROVE  /\ Those(s, S) \in Seq(Items) /\ Range(Those(s, S)) = Range(s) \cap S
         /\ NoRepeat(s) => NoRepeat(Those(s, S))
<1>1. PICK f : /\ f[0] = <<>>
               /\ \A i \in 1 .. Len(s) :
                    f[i] = IF s[i] \in S THEN Append(f[i - 1], s[i]) ELSE f[i - 1]
               /\ Those(s, S) = f[Len(s)]
  BY ThoseLoop
<1> DEFINE R(i) == {s[j] : j \in 1 .. i}
           T == {i \in 0 .. Len(s) : /\ f[i] \in Seq(Items) /\ Range(f[i]) = R(i) \cap S
                                     /\ NoRepeat(s) => NoRepeat(f[i])}
<1>2. Len(s) \in Nat
  OBVIOUS
<1>3. 0 \in T
  <2>1. R(0) = {} /\ Range(<<>>) = {} /\ NoRepeat(<<>>) /\ <<>> \in Seq(Items)
    BY DEF Range, NoRepeat
  <2>2. 0 \in 0 .. Len(s)
    BY <1>2
  <2>3. f[0] \in Seq(Items) /\ Range(f[0]) = R(0) \cap S /\ NoRepeat(f[0])
    <3> HIDE DEF R
    <3> QED  BY <1>1, <2>1, SMTT(30)
  <2> HIDE DEF R
  <2> QED  BY <2>2, <2>3, Zenon
<1>4. ASSUME NEW i \in 1 .. Len(s), i - 1 \in T PROVE i \in T
  <2>1. /\ f[i - 1] \in Seq(Items) /\ Range(f[i - 1]) = R(i - 1) \cap S
        /\ NoRepeat(s) => NoRepeat(f[i - 1])
    BY <1>4
  <2>2. R(i) = R(i - 1) \cup {s[i]} /\ i \in 0 .. Len(s) /\ s[i] \in Items
    <3>1. 1 .. i = (1 .. i - 1) \cup {i}
      BY <1>2
    <3> QED  BY <1>2, <3>1
  <2>3. ASSUME NoRepeat(s) PROVE s[i] \notin R(i - 1)
    BY <1>2, <2>3, SMTT(30) DEF NoRepeat
  <2> HIDE DEF R
  <2>4. CASE s[i] \in S
    <3>1. f[i] = Append(f[i - 1], s[i])
      BY <1>1, <2>4, ZenonT(40)
    <3>2. /\ f[i] \in Seq(Items) /\ Range(f[i]) = Range(f[i - 1]) \cup {s[i]}
          /\ s[i] \notin Range(f[i - 1]) /\ NoRepeat(f[i - 1]) => NoRepeat(f[i])
      BY <2>1, <2>2, <3>1, RangeAppend, SMTT(30)
    <3> QED  BY <2>1, <2>2, <2>3, <2>4, <3>2
  <2>5. CASE s[i] \notin S
    <3>1. f[i] = f[i - 1]
      BY <1>1, <2>5, SMTT(30)
    <3> QED  BY <2>1, <2>2, <2>5, <3>1, SMTT(30)
  <2> QED  BY <2>4, <2>5, SMTT(30)
<1>5. Len(s) \in T
  <2> HIDE DEF T
  <2>1. 0 .. Len(s) \subseteq T
    BY <1>2, <1>3, <1>4, Induction, Zenon
  <2> QED  BY <1>2, <2>1
<1>6. R(Len(s)) = Range(s)
  BY SMTT(30) DEF Range
<1> QED  BY <1>1, <1>5, <1>6, SMTT(30)

\* S and U select alike from s before k, and U nothing from k on.
AlikeUpTo(s, S, U, k) ==
  /\ s \in Seq(Items) /\ k \in 1 .. Len(s) + 1
  /\ \A i \in 1 .. k - 1 : s[i] \in S <=> s[i] \in U
  /\ \A i \in k .. Len(s) : s[i] \notin U

\* Such selections agree.
LEMMA ThoseUpTo ==
  ASSUME NEW s, NEW S, NEW U, NEW k, AlikeUpTo(s, S, U, k)
  PROVE  Those(SubSeq(s, 1, k - 1), S) = Those(s, U)
<1>8. /\ s \in Seq(Items) /\ k \in 1 .. Len(s) + 1
      /\ \A i \in 1 .. k - 1 : s[i] \in S <=> s[i] \in U
      /\ \A i \in k .. Len(s) : s[i] \notin U
  BY ZenonT(40) DEF AlikeUpTo
<1> USE <1>8
<1> DEFINE v == SubSeq(s, 1, k - 1)
<1>1. /\ Len(s) \in Nat /\ v \in Seq(Items) /\ Len(v) = k - 1 /\ k - 1 \in Nat
      /\ \A i \in 1 .. k - 1 : v[i] = s[i] /\ i \in 1 .. Len(s)
  BY SMTT(30)
<1> HIDE DEF v
<1>2. PICK f : /\ f[0] = <<>>
               /\ \A i \in 1 .. Len(v) :
                    f[i] = IF v[i] \in S THEN Append(f[i - 1], v[i]) ELSE f[i - 1]
               /\ Those(v, S) = f[Len(v)]
  BY <1>1, ThoseLoop, SMTT(30)
<1>3. PICK g : /\ g[0] = <<>>
               /\ \A i \in 1 .. Len(s) :
                    g[i] = IF s[i] \in U THEN Append(g[i - 1], s[i]) ELSE g[i - 1]
               /\ Those(s, U) = g[Len(s)]
  BY ThoseLoop, SMTT(30)
<1> DEFINE T == {i \in 0 .. Len(s) : g[i] = IF i < k THEN f[i] ELSE f[k - 1]}
<1>4. 0 \in T
  BY <1>1, <1>2, <1>3
<1>5. ASSUME NEW i \in 1 .. Len(s), i - 1 \in T PROVE i \in T
  <2>1. i \in 0 .. Len(s) /\ g[i - 1] = IF i - 1 < k THEN f[i - 1] ELSE f[k - 1]
    BY <1>5, SMTT(30)
  <2>2. CASE i < k
    <3>1. i \in 1 .. Len(v) /\ v[i] = s[i] /\ (s[i] \in S <=> s[i] \in U)
      BY <1>1, <2>2, SMTT(30)
    <3>2. g[i - 1] = f[i - 1]
      BY <1>1, <2>1, <2>2, SMTT(30)
    <3>3. g[i] = f[i]
      BY <1>2, <1>3, <3>1, <3>2, SMTT(30)
    <3> QED  BY <2>1, <2>2, <3>3, SMTT(30)
  <2>3. CASE ~(i < k)
    <3>1. i \in k .. Len(s)
      BY <1>1, <2>3, SMTT(30)
    <3>2. g[i] = g[i - 1]
      BY <1>3, <3>1, SMTT(30)
    <3>3. g[i - 1] = f[k - 1]
      BY <1>1, <2>1, <2>3, SMTT(30)
    <3> QED  BY <2>1, <2>3, <3>2, <3>3, SMTT(30)
  <2> QED  BY <2>2, <2>3, SMTT(30)
<1>6. Len(s) \in T
  <2> HIDE DEF T
  <2>1. 0 .. Len(s) \subseteq T
    BY <1>1, <1>4, <1>5, Induction, ZenonT(40)
  <2> QED  BY <1>1, <2>1
<1>7. g[Len(s)] = f[k - 1]
  BY <1>1, <1>6
<1> QED  BY <1>1, <1>2, <1>3, <1>7 DEF v

\* Two selections that select alike agree.
LEMMA ThoseAgree ==
  ASSUME NEW s \in Seq(Items), NEW S, NEW U,
         \A i \in 1 .. Len(s) : s[i] \in S <=> s[i] \in U
  PROVE  Those(s, S) = Those(s, U)
<1> DEFINE k == Len(s) + 1
<1>1. k \in 1 .. Len(s) + 1 /\ SubSeq(s, 1, k - 1) = s /\ k .. Len(s) = {} /\ 1 .. k - 1 = 1 .. Len(s)
  OBVIOUS
<1> HIDE DEF k
<1>2. AlikeUpTo(s, S, U, k)
  BY <1>1, Zenon DEF AlikeUpTo
<1>3. Those(SubSeq(s, 1, k - 1), S) = Those(s, U)
  BY ONLY <1>2, ThoseUpTo
<1> QED  BY <1>1, <1>3, Zenon

-----------------------------------------------------------------------------
(* The calls. *)

\* The queue is in order and holds no element twice, nor one the last call removed.
QueueInv ==
  /\ Good(q) /\ NoRepeat(Elements(q))
  /\ out \in Seq(Items) /\ seen \in Seq(Items) /\ Range(Elements(q)) \cap Range(out) = {}

\* A call leaves the queue in order and is a call of the deque.
Simulates == Good(q') /\ AsDeque!Next

\* What the guards and answers of the calls read.
LEMMA Views ==
  ASSUME Good(q)
  PROVE  /\ Iter(q) = Elements(q) /\ Elements(q) \in Seq(Items)
         /\ Length(q) = Len(Elements(q)) /\ DOMAIN Elements(q) = 1 .. Len(Elements(q))
         /\ Inside = Range(Elements(q)) /\ AsDeque!Inside = Range(Elements(q))
         /\ Outside = Items \ Range(Elements(q)) /\ AsDeque!Outside = Items \ Range(Elements(q))
<1>1. Iter(q) = Elements(q) /\ Elements(q) \in Seq(Items)
  BY IterIsElements DEF Good
<1>2. Length(q) = Len(Elements(q))
  <2>1. CASE q.inline
    BY <2>1, RingView DEF Length
  <2>2. CASE ~q.inline
    BY <2>2, SMTT(30) DEF Length, Elements
  <2> QED  BY <2>1, <2>2
<1>3. AsDeque!Inside = Range(Elements(q))
  BY DEF AsDeque!Inside, AsDeque!Range, Range
<1>4. DOMAIN Elements(q) = 1 .. Len(Elements(q))
  BY <1>1
<1> QED  BY <1>1, <1>2, <1>3, <1>4 DEF Inside, Outside, AsDeque!Outside

\* push_back, push_front and extend.
LEMMA PushSimulates ==
  ASSUME QueueInv, NEW x \in Outside,
         CallPushBack(x) \/ CallPushFront(x) \/ \E y \in Outside : x # y /\ CallExtend(x, y)
  PROVE  Simulates
<1>1. Good(q) /\ Elements(q) \in Seq(Items) /\ x \in Items /\ x \in AsDeque!Outside
  BY Views DEF QueueInv, Outside
<1>2. CASE CallPushBack(x)
  <2>1. Good(q') /\ Elements(q') = Append(Elements(q), x)
    BY <1>1, <1>2, PushBackAppends, Zenon DEF CallPushBack
  <2>2. AsDeque!PushBack
    BY <1>1, <1>2, <2>1 DEF CallPushBack, Returns, AsDeque!PushBack, AsDeque!Answer
  <2>3. call' \in AsDeque!Calls
    BY <1>2 DEF CallPushBack, Returns, AsDeque!Calls
  <2> QED  BY <2>1, <2>2, <2>3, Zenon DEF Simulates, AsDeque!Next
<1>3. CASE CallPushFront(x)
  <2>1. Good(q') /\ Elements(q') = <<x>> \o Elements(q)
    BY <1>1, <1>3, PushFrontPrepends DEF CallPushFront
  <2>2. AsDeque!PushFront
    BY <1>1, <1>3, <2>1 DEF CallPushFront, Returns, AsDeque!PushFront, AsDeque!Answer
  <2>3. call' \in AsDeque!Calls
    BY <1>3 DEF CallPushFront, Returns, AsDeque!Calls
  <2> QED  BY <2>1, <2>2, <2>3, Zenon DEF Simulates, AsDeque!Next
<1>4. ASSUME NEW y \in Outside, x # y, CallExtend(x, y) PROVE Simulates
  <2>1. y \in Items /\ y \in AsDeque!Outside /\ <<x, y>> \in Seq(Items)
    BY <1>1, Views DEF Outside
  <2>2. Good(q') /\ Elements(q') = Elements(q) \o <<x, y>>
    BY <1>1, <1>4, <2>1, PushAllAppends, Zenon DEF CallExtend
  <2>3. AsDeque!Extend
    BY <1>1, <1>4, <2>1, <2>2, ZenonT(40) DEF CallExtend, Returns, AsDeque!Extend, AsDeque!Answer
  <2>4. call' \in AsDeque!Calls
    BY <1>4 DEF CallExtend, Returns, AsDeque!Calls
  <2> QED  BY <2>2, <2>3, <2>4, ZenonT(40) DEF Simulates, AsDeque!Next
<1> QED  BY <1>2, <1>3, <1>4

\* The ends of a sequence.
LEMMA Ends ==
  ASSUME NEW e \in Seq(Items)
  PROVE  /\ Len(e) = 0 => e = <<>>
         /\ e # <<>> => /\ Tail(e) \in Seq(Items) /\ SubSeq(e, 1, Len(e) - 1) \in Seq(Items)
                       /\ SubSeq(e, 2, Len(e)) = Tail(e) /\ Head(e) = e[1] /\ Len(e) > 0
OBVIOUS

\* pop_front, from the ring or from the heap, or of an empty queue.
LEMMA PopFrontSimulates ==
  ASSUME QueueInv, CallPopFront
  PROVE  Simulates
<1> DEFINE E == Elements(q)
<1>1. Good(q) /\ E \in Seq(Items) /\ Length(q) = Len(E)
  BY Views DEF QueueInv
<1>2. call' \in AsDeque!Calls
  BY Zenon DEF CallPopFront, Returns, AsDeque!Calls
<1>3. CASE Length(q) = 0 /\ UNCHANGED q /\ Returns("pop_front", <<>>, <<>>)
  <2>1. E = <<>>
    BY <1>1, <1>3, Ends, Zenon
  <2>2. Good(q') /\ Elements(q') = Elements(q)
    BY <1>1, <1>3
  <2>3. AsDeque!PopNone("pop_front")
    BY <1>3, <2>1, <2>2 DEF AsDeque!PopNone, AsDeque!Answer, Returns
  <2> QED  BY <1>2, <2>2, <2>3 DEF Simulates, AsDeque!Next
<1>4. CASE /\ q.inline /\ q.len > 0
           /\ q' = [q EXCEPT !.head = Up(q.n, @), !.len = @ - 1]
           /\ Returns("pop_front", <<q.buf[q.head]>>, <<>>)
  <2>1. /\ q.n \in Nat /\ q.head \in Nat /\ q.len \in Nat /\ q.len <= q.n
        /\ q.n > 0 => q.head < q.n
        /\ Len(E) = q.len /\ \A k \in 1 .. q.len : E[k] = q.buf[Wrap(q.n, q.head + k - 1)]
    BY <1>1, <1>4, RingView
  <2>2. 1 \in 1 .. q.len /\ Up(q.n, q.head) = Wrap(q.n, q.head + 1) /\ Wrap(q.n, q.head + 1 - 1) = q.head
    BY <1>4, <2>1 DEF Up, Wrap
  <2>3. Good(q') /\ Elements(q') = SubSeq(E, 2, Len(E))
    <3>1. PICK k \in 1 .. q.len : k = 1
      BY <2>2
    <3>2. PICK d : d = Wrap(q.n, q.head + k) /\ q' = [q EXCEPT !.head = d, !.len = @ - k]
      BY <1>4, <2>2, <3>1, Zenon
    <3>3. Good(q') /\ Elements(q') = SubSeq(E, k + 1, Len(E))
      BY <1>1, <1>4, <3>2, RingSkip, ZenonT(40)
    <3> QED  BY <3>1, <3>3
  <2>4. E # <<>> /\ q.buf[q.head] = Head(E) /\ SubSeq(E, 2, Len(E)) = Tail(E)
    <3>1. E # <<>> /\ E[1] = q.buf[q.head]
      BY <1>4, <2>1, <2>2
    <3> HIDE DEF E
    <3>2. SubSeq(E, 2, Len(E)) = Tail(E) /\ Head(E) = E[1]
      BY <1>1, <3>1, Ends
    <3> QED  BY <3>1, <3>2, Zenon
  <2>5. AsDeque!PopFront
    BY <1>4, <2>3, <2>4 DEF AsDeque!PopFront, AsDeque!Answer, Returns
  <2> QED  BY <1>2, <2>3, <2>5, Zenon DEF Simulates, AsDeque!Next
<1>5. CASE /\ ~q.inline /\ q.heap # <<>>
           /\ q' = [q EXCEPT !.heap = Tail(@)]
           /\ Returns("pop_front", <<Head(q.heap)>>, <<>>)
  <2>1. q.heap = E
    BY <1>5 DEF Elements
  <2>2. PICK s \in Seq(Items) : s = Tail(E)
    BY <1>1, <1>5, <2>1, Ends, Zenon
  <2>3. q' = [q EXCEPT !.heap = s]
    BY <1>5, <2>1, <2>2
  <2>4. Good(q') /\ Elements(q') = s
    BY <1>1, <1>5, <2>3, GoodHeap
  <2>5. AsDeque!PopFront
    BY <1>5, <2>1, <2>2, <2>4, Zenon DEF AsDeque!PopFront, AsDeque!Answer, Returns
  <2> QED  BY <1>2, <2>4, <2>5, Zenon DEF Simulates, AsDeque!Next
<1> QED  BY <1>3, <1>4, <1>5, SMTT(30) DEF CallPopFront

\* pop_back, from the ring or from the heap, or of an empty queue.
LEMMA PopBackSimulates ==
  ASSUME QueueInv, CallPopBack
  PROVE  Simulates
<1> DEFINE E == Elements(q)
<1>1. Good(q) /\ E \in Seq(Items) /\ Length(q) = Len(E)
  BY Views DEF QueueInv
<1>2. call' \in AsDeque!Calls
  BY Zenon DEF CallPopBack, Returns, AsDeque!Calls
<1>3. CASE Length(q) = 0 /\ UNCHANGED q /\ Returns("pop_back", <<>>, <<>>)
  <2>1. E = <<>>
    BY <1>1, <1>3, Ends, Zenon
  <2>2. Good(q') /\ Elements(q') = Elements(q)
    BY <1>1, <1>3
  <2>3. AsDeque!PopNone("pop_back")
    BY <1>3, <2>1, <2>2 DEF AsDeque!PopNone, AsDeque!Answer, Returns
  <2> QED  BY <1>2, <2>2, <2>3 DEF Simulates, AsDeque!Next
<1>4. CASE /\ q.inline /\ q.len > 0
           /\ q' = [q EXCEPT !.tail = Down(q.n, @), !.len = @ - 1]
           /\ Returns("pop_back", <<q.buf[Down(q.n, q.tail)]>>, <<>>)
  <2>1. /\ Good(q') /\ Elements(q') = SubSeq(E, 1, Len(E) - 1)
        /\ q.buf[Down(q.n, q.tail)] = E[Len(E)]
    BY <1>1, <1>4, RingPopBack, Zenon
  <2>2. E # <<>>
    BY <1>1, <1>4 DEF Length
  <2>3. AsDeque!PopBack
    BY <1>4, <2>1, <2>2 DEF AsDeque!PopBack, AsDeque!Answer, Returns
  <2> QED  BY <1>2, <2>1, <2>3, Zenon DEF Simulates, AsDeque!Next
<1>5. CASE /\ ~q.inline /\ q.heap # <<>>
           /\ q' = [q EXCEPT !.heap = SubSeq(@, 1, Len(@) - 1)]
           /\ Returns("pop_back", <<q.heap[Len(q.heap)]>>, <<>>)
  <2>1. q.heap = E
    BY <1>5 DEF Elements
  <2>2. PICK s \in Seq(Items) : s = SubSeq(E, 1, Len(E) - 1)
    BY <1>1, <1>5, <2>1, Ends, Zenon
  <2>3. q' = [q EXCEPT !.heap = s]
    BY <1>5, <2>1, <2>2
  <2>4. Good(q') /\ Elements(q') = s
    BY <1>1, <1>5, <2>3, GoodHeap
  <2>5. AsDeque!PopBack
    BY <1>5, <2>1, <2>2, <2>4, Zenon DEF AsDeque!PopBack, AsDeque!Answer, Returns
  <2> QED  BY <1>2, <2>4, <2>5, Zenon DEF Simulates, AsDeque!Next
<1> QED  BY <1>3, <1>4, <1>5 DEF CallPopBack

\* into_vec, into_iter, clear and drop.
LEMMA DrainSimulates ==
  ASSUME QueueInv, CallIntoVec \/ CallIntoIter \/ CallClear \/ \E c \in 0 .. 1 : CallDrop(q.n + c)
  PROVE  Simulates
<1>1. Good(q) /\ Iter(q) = Elements(q) /\ q.n \in Sizes
  BY Views DEF QueueInv, Good
<1>2. Good(q') /\ Elements(q') = <<>>
  <2>1. CASE CallIntoVec \/ CallClear
    BY <1>1, <2>1, EmptiedIsEmpty DEF CallIntoVec, CallClear
  <2>2. CASE CallIntoIter
    BY <1>1, <2>2, RingEmpty DEF CallIntoIter
  <2>3. ASSUME NEW c \in 0 .. 1, CallDrop(q.n + c) PROVE Good(q') /\ Elements(q') = <<>>
    <3>1. q' = Ring(q.n) \/ q' = OnHeap(q.n, <<>>)
      BY <2>3 DEF CallDrop, WithCapacity
    <3>2. <<>> \in Seq(Items)
      OBVIOUS
    <3>3. PICK s : s = <<>> /\ s \in Seq(Items)
      BY <3>2, Zenon
    <3>4. Good(OnHeap(q.n, s)) /\ Elements(OnHeap(q.n, s)) = s
      BY <1>1, <3>3, HeapHolds, ZenonT(40)
    <3> QED  BY <1>1, <3>1, <3>3, <3>4, RingEmpty, SMTT(30)
  <2> QED  BY <2>1, <2>2, <2>3, SMTT(30)
<1>3. \E c \in {"into_vec", "into_iter", "clear", "drop"} : Returns(c, Elements(q), <<>>)
  BY <1>1 DEF CallIntoVec, CallIntoIter, CallClear, CallDrop
<1>4. \E c \in {"into_vec", "into_iter", "clear", "drop"} : AsDeque!Drain(c)
  BY <1>2, <1>3 DEF AsDeque!Drain, AsDeque!Answer, Returns
<1>5. call' \in AsDeque!Calls
  BY <1>3, Zenon DEF Returns, AsDeque!Calls
<1> QED  BY <1>2, <1>4, <1>5, ZenonT(40) DEF Simulates, AsDeque!Next

\* The two modules select alike.
LEMMA SameThose ==
  ASSUME NEW s, NEW S
  PROVE  AsDeque!Those(s, S) = Those(s, S)
BY DEF AsDeque!Those, Those

\* A queue that is drained and refilled holds what it is refilled with.
LEMMA Refilled ==
  ASSUME NEW r, Good(r), NEW s \in Seq(Items)
  PROVE  /\ Good(PushAll(Emptied(r), s)) /\ Elements(PushAll(Emptied(r), s)) = s
         /\ Good(PushAll(Ring(r.n), s)) /\ Elements(PushAll(Ring(r.n), s)) = s
<1>1. r.n \in Sizes
  BY DEF Good
<1>2. <<>> \o s = s
  OBVIOUS
<1>3. Good(Emptied(r)) /\ Elements(Emptied(r)) = <<>>
  BY EmptiedIsEmpty
<1>4. Good(Ring(r.n)) /\ Elements(Ring(r.n)) = <<>>
  BY <1>1, RingEmpty
<1>5. Good(PushAll(Emptied(r), s)) /\ Elements(PushAll(Emptied(r), s)) = <<>> \o s
  BY <1>3, PushAllAppends, Zenon
<1>6. Good(PushAll(Ring(r.n), s)) /\ Elements(PushAll(Ring(r.n), s)) = <<>> \o s
  BY <1>4, PushAllAppends, Zenon
<1> QED  BY <1>2, <1>5, <1>6, SMTT(30)

\* retain and take_where.
LEMMA RemoveSimulates ==
  ASSUME QueueInv, NEW c \in {"retain", "take_where"}, NEW S \in SUBSET Inside, CallRemove(c, S)
  PROVE  Simulates
<1> DEFINE E == Elements(q)
           kept == Those(E, Range(E) \ S)
<1>1. /\ Good(q) /\ Iter(q) = E /\ E \in Seq(Items) /\ Inside = Range(E)
      /\ AsDeque!Inside = Range(E)
  BY Views, SMTT(30) DEF QueueInv
<1>2. /\ q' = PushAll(Emptied(q), kept)
      /\ Returns(c, Those(E, S), <<>>)
  BY <1>1 DEF CallRemove
<1>3. kept \in Seq(Items)
  BY <1>1, ThoseFacts, SMTT(30)
<1> HIDE DEF kept, E
<1>4. Good(q') /\ Elements(q') = kept
  BY <1>1, <1>2, <1>3, Refilled, SMTT(30)
<1>5. AsDeque!Remove(c, S)
  <2>1. AsDeque!Those(E, S) = Those(E, S) /\ AsDeque!Those(E, AsDeque!Inside \ S) = kept
    BY <1>1, SameThose, Zenon DEF kept
  <2>2. call' = c /\ out' = Those(E, S) /\ seen' = <<>>
    BY <1>2 DEF Returns
  <2> QED  BY <1>4, <2>1, <2>2 DEF AsDeque!Remove, AsDeque!Answer, E
<1>6. call' \in AsDeque!Calls
  BY <1>2, Zenon DEF Returns, AsDeque!Calls
<1>7. S \in SUBSET AsDeque!Inside
  BY <1>1
<1> QED  BY <1>4, <1>5, <1>6, <1>7, ZenonT(40) DEF Simulates, AsDeque!Next

\* retain whose predicate panics on the k-th element.
LEMMA RetainPanicsSimulates ==
  ASSUME QueueInv, NEW k \in 1 .. Length(q), NEW S \in SUBSET Inside, CallRetainPanics(k, S)
  PROVE  Simulates
<1> DEFINE E == Elements(q)
           R == Range(E)
           kept == Those(SubSeq(E, 1, k - 1), R \ S)
           D == {E[j] : j \in {i \in DOMAIN E : i >= k \/ E[i] \in S}}
<1>1. /\ Good(q) /\ Iter(q) = E /\ E \in Seq(Items) /\ Inside = R
      /\ AsDeque!Inside = R /\ DOMAIN E = 1 .. Len(E) /\ Len(E) \in Nat
      /\ NoRepeat(E) /\ k \in 1 .. Len(E)
  BY Views DEF QueueInv
<1>2. /\ q' = PushAll(Emptied(q), kept)
      /\ Returns("retain panics", Those(E, R \ Range(kept)), <<>>)
  BY <1>1, Zenon DEF CallRetainPanics
<1>3. D \subseteq R /\ \A i \in 1 .. Len(E) : E[i] \in R
  BY <1>1, Zenon DEF Range
<1>4. \A i \in 1 .. k - 1 : i \in 1 .. Len(E) /\ (E[i] \in D <=> E[i] \in S)
  <2> TAKE i \in 1 .. k - 1
  <2>1. i \in 1 .. Len(E) /\ ~(i >= k)
    BY <1>1
  <2>2. \A j \in DOMAIN E : E[j] = E[i] => j = i
    BY <1>1, <2>1 DEF NoRepeat
  <2> HIDE DEF E
  <2> QED  BY <1>1, <2>1, <2>2, ZenonT(40)
<1>5. \A i \in k .. Len(E) : E[i] \in D
  <2> TAKE i \in k .. Len(E)
  <2>1. i \in 1 .. Len(E) /\ i >= k
    <3> HIDE DEF E
    <3> QED  BY ONLY <1>1, i \in k .. Len(E)
  <2> HIDE DEF E
  <2> QED  BY <1>1, <2>1, ZenonT(40)
<1>6. kept = Those(E, R \ D)
  <2>1. \A i \in 1 .. k - 1 : E[i] \in R \ S <=> E[i] \in R \ D
    BY <1>3, <1>4, SMTT(30)
  <2>2. \A i \in k .. Len(E) : E[i] \notin R \ D
    BY <1>5
  <2>3. k \in 1 .. Len(E) + 1
    BY <1>1
  <2> HIDE DEF E, R, D
  <2>4. PICK A, B : A = R \ S /\ B = R \ D
    BY Zenon
  <2>5. AlikeUpTo(E, A, B, k)
    BY <1>1, <2>1, <2>2, <2>3, <2>4, ZenonT(40) DEF AlikeUpTo
  <2>6. Those(SubSeq(E, 1, k - 1), A) = Those(E, B)
    BY ONLY <2>5, ThoseUpTo, SMTT(30)
  <2> QED  BY <2>4, <2>6, SMTT(30)
<1> HIDE DEF kept, D, R, E
<1>7. kept \in Seq(Items) /\ Range(kept) = R \cap (R \ D)
  BY <1>1, <1>6, ThoseFacts DEF R
<1>8. Those(E, R \ Range(kept)) = Those(E, D)
  <2>1. R \ Range(kept) = D
    BY <1>3, <1>7
  <2> QED  BY <2>1
<1>9. Good(q') /\ Elements(q') = kept
  BY <1>1, <1>2, <1>7, Refilled, Zenon
<1>10. AsDeque!RetainPanic(k, S)
  <2>1. AsDeque!Those(E, D) = Those(E, D) /\ AsDeque!Those(E, AsDeque!Inside \ D) = kept
    BY <1>1, <1>6, SameThose, Zenon
  <2>2. call' = "retain panics" /\ out' = Those(E, D) /\ seen' = <<>>
    BY <1>2, <1>8, Zenon DEF Returns
  <2>3. AsDeque!Remove("retain panics", D)
    BY <1>9, <2>1, <2>2, Zenon DEF AsDeque!Remove, AsDeque!Answer, E
  <2> QED  BY <2>3, Zenon DEF AsDeque!RetainPanic, D, E
<1>11. call' \in AsDeque!Calls
  BY <1>2, Zenon DEF Returns, AsDeque!Calls
<1>12. S \in SUBSET AsDeque!Inside /\ k \in DOMAIN Elements(q)
  BY <1>1 DEF E
<1> QED  BY <1>9, <1>10, <1>11, <1>12, ZenonT(40) DEF Simulates, AsDeque!Next

\* clear whose k-th destructor panics.
LEMMA ClearPanicsSimulates ==
  ASSUME QueueInv, NEW k \in 1 .. Length(q), ClearPanics(k)
  PROVE  Simulates
<1> DEFINE E == Elements(q)
<1>1. Good(q) /\ Iter(q) = E /\ DOMAIN E = 1 .. Len(E) /\ k \in 1 .. Len(E) /\ q.inline
  BY Views, Zenon DEF QueueInv, ClearPanics
<1>2. /\ q.n \in Nat /\ q.head \in Nat /\ q.len \in Nat /\ q.len <= q.n
      /\ q.n > 0 => q.head < q.n
      /\ Len(E) = q.len
  BY <1>1, RingView, Zenon
<1>3. \A j \in 1 .. q.len : Walk(q)[j] = Wrap(q.n, q.head + j - 1)
  BY <1>1, WalkStops, Zenon
<1> HIDE DEF E
<1>4. k \in 1 .. q.len
  BY <1>1, <1>2, SMTT(30)
<1> DEFINE d == IF k = q.len THEN Up(q.n, Walk(q)[k]) ELSE Walk(q)[k + 1]
<1>5. d = Wrap(q.n, q.head + k)
  <2>1. CASE k = q.len
    <3>1. d = Up(q.n, Wrap(q.n, q.head + k - 1))
      BY <1>3, <1>4, <2>1, SMTT(30)
    <3> HIDE DEF d
    <3> QED  BY <1>2, <1>4, <3>1, SMTT(30) DEF Up, Wrap
  <2>2. CASE k # q.len
    <3>1. k + 1 \in 1 .. q.len /\ q.head + (k + 1) - 1 = q.head + k
      BY <1>2, <1>4, <2>2
    <3> QED  BY <1>3, <2>2, <3>1, SMTT(30)
  <2> QED  BY <2>1, <2>2, SMTT(30)
<1>6. q' = [q EXCEPT !.head = d, !.len = @ - k]
  BY Zenon DEF ClearPanics
<1> HIDE DEF d
<1>7. Good(q') /\ Elements(q') = SubSeq(E, k + 1, Len(E))
  BY <1>1, <1>4, <1>5, <1>6, RingSkip, ZenonT(40) DEF E
<1>8. AsDeque!ClearPanic(k)
  BY <1>1, <1>7, Zenon DEF ClearPanics, Returns, AsDeque!ClearPanic, AsDeque!Answer, E
<1>9. call' \in AsDeque!Calls
  BY Zenon DEF ClearPanics, Returns, AsDeque!Calls
<1> QED  BY <1>1, <1>7, <1>8, <1>9, Zenon DEF Simulates, AsDeque!Next, E

\* reserve, clone and the conversions move the elements.
LEMMA MoveSimulates ==
  ASSUME QueueInv,
         CallClone \/ CallCollect \/ \E c \in 0 .. 1 : CallReserve(q.n + c)
  PROVE  Simulates
<1>1. Good(q) /\ Iter(q) = Elements(q) /\ Elements(q) \in Seq(Items) /\ q.n \in Sizes
  BY Views DEF QueueInv, Good
<1>2. PICK s \in Seq(Items) : s = Elements(q)
  BY <1>1, SMTT(30)
<1>3. q' \in {q, OnHeap(q.n, s), PushAll(Ring(q.n), s)}
  BY <1>1, <1>2 DEF CallClone, CallCollect, CallReserve
<1>4. Good(q') /\ Elements(q') = s
  <2>1. Good(OnHeap(q.n, s)) /\ Elements(OnHeap(q.n, s)) = s
    BY <1>1, HeapHolds, Zenon
  <2>2. Good(PushAll(Ring(q.n), s)) /\ Elements(PushAll(Ring(q.n), s)) = s
    BY <1>1, Refilled, ZenonT(40)
  <2> QED  BY <1>1, <1>2, <1>3, <2>1, <2>2, ZenonT(40)
<1>5. PICK c \in {"reserve", "clone", "collect"} : Returns(c, <<>>, <<>>)
  BY DEF CallClone, CallCollect, CallReserve
<1>6. AsDeque!Move(c)
  BY <1>2, <1>4, <1>5 DEF Returns, AsDeque!Move, AsDeque!Answer
<1>7. call' \in AsDeque!Calls
  BY <1>5, Zenon DEF Returns, AsDeque!Calls
<1> QED  BY <1>4, <1>6, <1>7, ZenonT(40) DEF Simulates, AsDeque!Next

\* iter and make_contiguous show the elements.
LEMMA LookSimulates ==
  ASSUME QueueInv, CallIter \/ CallMakeContiguous
  PROVE  Simulates
<1> DEFINE E == Elements(q)
<1>1. Good(q) /\ Iter(q) = E /\ E \in Seq(Items)
  BY Views DEF QueueInv
<1>2. CASE CallIter
  <2>1. Good(q') /\ Elements(q') = Elements(q)
    BY <1>1, <1>2 DEF CallIter
  <2>2. AsDeque!Look("iter")
    BY <1>1, <1>2, <2>1 DEF CallIter, Returns, AsDeque!Look, AsDeque!Answer
  <2>3. call' \in AsDeque!Calls
    BY <1>2 DEF CallIter, Returns, AsDeque!Calls
  <2> QED  BY <2>1, <2>2, <2>3, Zenon DEF Simulates, AsDeque!Next
<1>3. CASE CallMakeContiguous
  <2>1. Good(q') /\ Elements(q') = E /\ seen' = E
    <3>1. CASE q.inline
      <4>1. q' = Contiguous(q) /\ seen' = [k \in 1 .. q.len |-> q'.buf[q'.head + k - 1]]
        BY <1>3, <3>1, SMTT(30) DEF CallMakeContiguous, Returns
      <4>2. /\ Good(Contiguous(q)) /\ Elements(Contiguous(q)) = E
            /\ \A k \in 1 .. q.len : Contiguous(q).buf[Contiguous(q).head + k - 1] = E[k]
        BY <1>1, <3>1, ContiguousKeeps, SMTT(30)
      <4>3. q.len = Len(E)
        BY <1>1, <3>1, RingView
      <4> HIDE DEF E
      <4>4. E = [k \in 1 .. q.len |-> E[k]]
        BY <1>1, <4>3, SMTT(30)
      <4>5. seen' = [k \in 1 .. q.len |-> E[k]]
        BY <4>1, <4>2, SMTT(30)
      <4> QED  BY <4>1, <4>2, <4>4, <4>5, ZenonT(40)
    <3>2. CASE ~q.inline
      BY <1>1, <1>3, <3>2, SMTT(30) DEF CallMakeContiguous, Returns, Elements
    <3> QED  BY <3>1, <3>2
  <2>2. call' = "make_contiguous" /\ out' = <<>>
    BY <1>3 DEF CallMakeContiguous, Returns
  <2>3. AsDeque!Look("make_contiguous")
    BY <2>1, <2>2 DEF AsDeque!Look, AsDeque!Answer
  <2>4. call' \in AsDeque!Calls
    BY <2>2 DEF AsDeque!Calls
  <2> QED  BY <2>1, <2>3, <2>4, Zenon DEF Simulates, AsDeque!Next
<1> QED  BY <1>2, <1>3

\* A write through iter_mut.
LEMMA IterMutSimulates ==
  ASSUME QueueInv, NEW k \in 1 .. Length(q), NEW x \in Outside, CallIterMut(k, x)
  PROVE  Simulates
<1> DEFINE E == Elements(q)
<1>1. /\ Good(q) /\ Iter(q) = E /\ E \in Seq(Items) /\ DOMAIN E = 1 .. Len(E) /\ k \in 1 .. Len(E)
      /\ x \in Items /\ x \in AsDeque!Outside
  BY Views DEF QueueInv, Outside
<1>2. Good(q') /\ Elements(q') = [E EXCEPT ![k] = x]
  <2>1. CASE q.inline
    <3>1. k \in 1 .. q.len
      BY <1>1, <2>1, RingView, Zenon
    <3>2. Walk(q)[k] = Wrap(q.n, q.head + k - 1)
      BY <1>1, <2>1, <3>1, WalkStops, ZenonT(40)
    <3>3. q' = Write(q, Wrap(q.n, q.head + k - 1), x)
      BY <2>1, <3>2 DEF CallIterMut, Write
    <3>4. Written(q, k, x, q')
      BY <1>1, <2>1, <3>1, <3>3, ZenonT(40) DEF Written
    <3>5. Good(q') /\ Elements(q') = Put(E, k, x)
      BY <3>4, RingWrite, Zenon
    <3> QED  BY <3>5 DEF Put
  <2>2. CASE ~q.inline
    <3>1. q' = [q EXCEPT !.heap = [q.heap EXCEPT ![k] = x]]
      BY <2>2 DEF CallIterMut
    <3>2. q.heap = E
      BY <2>2 DEF Elements
    <3> HIDE DEF E
    <3>0. [E EXCEPT ![k] = x] \in Seq(Items)
      BY <1>1
    <3>3. PICK s \in Seq(Items) : s = [E EXCEPT ![k] = x]
      BY <3>0, Zenon
    <3>4. q' = [q EXCEPT !.heap = s]
      BY <3>1, <3>2, <3>3
    <3> QED  BY <1>1, <2>2, <3>3, <3>4, GoodHeap, ZenonT(40)
  <2> QED  BY <2>1, <2>2
<1>3. AsDeque!Replace(k)
  BY <1>1, <1>2, Zenon DEF CallIterMut, Returns, AsDeque!Replace, AsDeque!Answer
<1>4. call' \in AsDeque!Calls
  BY DEF CallIterMut, Returns, AsDeque!Calls
<1>5. k \in DOMAIN Elements(q)
  BY <1>1, SMTT(30)
<1> QED  BY <1>2, <1>3, <1>4, <1>5, ZenonT(40) DEF Simulates, AsDeque!Next

\* The slot swap computes for the a-th element, counted from 0.
LEMMA SlotOf ==
  ASSUME NEW r, Good(r), r.inline, NEW a \in Nat, a < r.len
  PROVE  (r.head + a) % r.n = Wrap(r.n, r.head + (a + 1) - 1) /\ a + 1 \in 1 .. r.len
<1>1. PICK n \in Nat, h \in Nat, l \in Nat :
        n = r.n /\ h = r.head /\ l = r.len /\ l <= n /\ (n > 0 => h < n)
  BY RingView, SMTT(30)
<1>2. n \in Nat \ {0} /\ h + a \in Nat /\ h + a < n + n /\ h + (a + 1) - 1 = h + a
  BY <1>1
<1>3. (h + a) % n = Wrap(n, h + a)
  BY <1>2, ModWraps
<1>4. a + 1 \in 1 .. l
  BY <1>1
<1> QED  BY <1>1, <1>2, <1>3, <1>4, SMTT(30)

\* swap.
LEMMA SwapSimulates ==
  ASSUME QueueInv, NEW a \in Nat, NEW b \in Nat, CallSwap(a, b)
  PROVE  Simulates
<1> DEFINE E == Elements(q)
<1>1. /\ Good(q) /\ E \in Seq(Items) /\ DOMAIN E = 1 .. Len(E)
      /\ a < Len(E) /\ b < Len(E)
  BY Views DEF QueueInv, CallSwap
<1> HIDE DEF E
<1>2. PICK i \in 1 .. Len(E), j \in 1 .. Len(E) : i = a + 1 /\ j = b + 1
  BY <1>1
<1>3. PICK x \in Items, y \in Items : x = E[i] /\ y = E[j]
  BY <1>1
<1> DEFINE u == Put(E, i, y)
           w == Put(u, j, x)
<1>4. PICK s \in Seq(Items) : s = w /\ s = [E EXCEPT ![i] = E[j], ![j] = E[i]]
  <2>1. w \in Seq(Items) /\ w = [E EXCEPT ![i] = E[j], ![j] = E[i]]
    BY <1>1, <1>3 DEF Put
  <2> HIDE DEF w
  <2> QED  BY <2>1
<1> HIDE DEF u
<1>5. Good(q') /\ Elements(q') = s
  <2>1. CASE q.inline
    <3>0. /\ q.n \in Nat /\ q.head \in Nat /\ q.len \in Nat /\ q.len <= q.n
          /\ q.n > 0 => q.head < q.n
          /\ a < q.len /\ b < q.len
      BY <1>1, <2>1, RingView, ZenonT(40) DEF E
    <3>1. /\ Len(E) = q.len
          /\ \A k \in 1 .. q.len : E[k] = q.buf[Wrap(q.n, q.head + k - 1)]
      BY <1>1, <2>1, RingView, ZenonT(40) DEF E
    <3>2. /\ (q.head + a) % q.n = Wrap(q.n, q.head + i - 1)
          /\ (q.head + b) % q.n = Wrap(q.n, q.head + j - 1)
          /\ i \in 1 .. q.len /\ j \in 1 .. q.len
      <4>1. /\ (q.head + a) % q.n = Wrap(q.n, q.head + (a + 1) - 1) /\ a + 1 \in 1 .. q.len
            /\ (q.head + b) % q.n = Wrap(q.n, q.head + (b + 1) - 1) /\ b + 1 \in 1 .. q.len
        BY <1>1, <2>1, <3>0, SlotOf
      <4> QED  BY <1>2, <4>1, ZenonT(40)
    <3>3. PICK d, f : d = Wrap(q.n, q.head + i - 1) /\ f = Wrap(q.n, q.head + j - 1)
      BY SMTT(30)
    <3>4. x = q.buf[d] /\ y = q.buf[f]
      BY <1>3, <3>1, <3>2, <3>3, SMTT(30)
    <3>5. q' = [q EXCEPT !.buf[d] = y, !.buf[f] = x]
      BY <2>1, <3>2, <3>3, <3>4, Zenon DEF CallSwap
    <3>6. PICK g : g = Write(q, Wrap(q.n, q.head + i - 1), y)
      OBVIOUS
    <3>7. /\ Good(g) /\ g.n = q.n /\ g.inline /\ g.head = q.head /\ g.len = q.len
          /\ Elements(g) = u
      <4>1. /\ Good(g) /\ g.n = q.n /\ g.inline /\ g.head = q.head /\ g.len = q.len
            /\ Elements(g) = Put(Elements(q), i, y)
        <5>1. Written(q, i, y, g)
          BY <1>1, <1>3, <2>1, <3>2, <3>6, ZenonT(40) DEF Written
        <5> QED  BY <5>1, RingWrite, Zenon
      <4> QED  BY <4>1, Zenon DEF E, u
    <3>8. q' = Write(g, f, x)
      BY <3>3, <3>5, <3>6, SMTT(30) DEF Write
    <3>9. q' = Write(g, Wrap(g.n, g.head + j - 1), x) /\ j \in 1 .. g.len
      BY <3>2, <3>3, <3>7, <3>8, ZenonT(40)
    <3>10. Written(g, j, x, q')
      BY <3>7, <3>9, Zenon DEF Written
    <3>11. Good(q') /\ Elements(q') = Put(u, j, x)
      BY <3>7, <3>10, RingWrite, Zenon
    <3> QED  BY <1>4, <3>11, ZenonT(40)
  <2>2. CASE ~q.inline
    <3>1. q.heap = E
      BY <2>2 DEF Elements, E
    <3>2. q' = [q EXCEPT !.heap[i] = y, !.heap[j] = x]
      BY <1>2, <1>3, <2>2, <3>1 DEF CallSwap
    <3>3. q' = [q EXCEPT !.heap = s]
      BY <1>4, <3>1, <3>2, ZenonT(40) DEF u, Put
    <3> QED  BY <1>1, <2>2, <3>3, GoodHeap, SMTT(30)
  <2> QED  BY <2>1, <2>2
<1>6. AsDeque!Swap(i, j)
  BY <1>4, <1>5 DEF CallSwap, Returns, AsDeque!Swap, AsDeque!Answer, E
<1>7. call' \in AsDeque!Calls
  BY DEF CallSwap, Returns, AsDeque!Calls
<1>8. i \in DOMAIN Elements(q) /\ j \in DOMAIN Elements(q)
  BY <1>1, <1>2 DEF E
<1> QED  BY <1>5, <1>6, <1>7, <1>8, ZenonT(40) DEF Simulates, AsDeque!Next

-----------------------------------------------------------------------------
(* A step of the deque. *)

\* Nothing repeats in e, nor is any of it among the elements of o.
Apart(e, o) ==
  e \in Seq(Items) /\ o \in Seq(Items) /\ NoRepeat(e) /\ Range(e) \cap Range(o) = {}

\* The empty sequence.
LEMMA Nothing ==
  <<>> \in Seq(Items) /\ Range(<<>>) = {} /\ NoRepeat(<<>>)
BY DEF Range, NoRepeat

\* The sequence of one element.
LEMMA Single ==
  ASSUME NEW e \in Seq(Items), NEW k \in 1 .. Len(e)
  PROVE  SubSeq(e, k, k) = <<e[k]>>
<1>1. PICK x \in Items : x = e[k]
  OBVIOUS
<1>2. SubSeq(e, k, k) \in Seq(Items) /\ Len(SubSeq(e, k, k)) = 1 /\ SubSeq(e, k, k)[1] = x
  BY <1>1
<1>3. PICK a \in Seq(Items) : a = SubSeq(e, k, k) /\ Len(a) = 1 /\ a[1] = x
  BY <1>2, Zenon
<1>4. a = [i \in 1 .. Len(a) |-> a[i]]
  OBVIOUS
<1>5. [i \in 1 .. Len(a) |-> a[i]] = [i \in 1 .. 1 |-> x]
  BY <1>3
<1>6. <<x>> = [i \in 1 .. 1 |-> x]
  BY SMTT(30)
<1> QED  BY <1>1, <1>3, <1>4, <1>5, <1>6, Zenon

\* A sequence cut in two.
LEMMA Cut ==
  ASSUME NEW e \in Seq(Items), NoRepeat(e), NEW k \in 0 .. Len(e)
  PROVE  /\ Apart(SubSeq(e, 1, k), SubSeq(e, k + 1, Len(e)))
         /\ Apart(SubSeq(e, k + 1, Len(e)), SubSeq(e, 1, k))
<1> DEFINE a == SubSeq(e, 1, k)
           b == SubSeq(e, k + 1, Len(e))
<1>1. /\ Len(e) \in Nat /\ DOMAIN e = 1 .. Len(e) /\ k \in Nat /\ k <= Len(e)
      /\ a \in Seq(Items) /\ b \in Seq(Items) /\ DOMAIN a = 1 .. k /\ DOMAIN b = 1 .. Len(e) - k
      /\ \A i \in 1 .. k : a[i] = e[i]
      /\ \A i \in 1 .. Len(e) - k : b[i] = e[k + i]
  BY SMTT(30)
<1> HIDE DEF a, b
<1>2. NoRepeat(a)
  BY <1>1 DEF NoRepeat
<1>3. NoRepeat(b)
  <2> SUFFICES ASSUME NEW i \in 1 .. Len(e) - k, NEW j \in 1 .. Len(e) - k, b[i] = b[j]
               PROVE  i = j
    BY <1>1, SMTT(30) DEF NoRepeat
  <2>1. k + i \in DOMAIN e /\ k + j \in DOMAIN e /\ e[k + i] = e[k + j]
    BY <1>1
  <2>2. k + i = k + j
    BY <2>1 DEF NoRepeat
  <2> QED  BY <1>1, <2>2, SMTT(30)
<1>4. Range(a) \cap Range(b) = {}
  <2> SUFFICES ASSUME NEW i \in 1 .. k, NEW j \in 1 .. Len(e) - k, a[i] = b[j] PROVE FALSE
    BY <1>1, SMTT(30) DEF Range
  <2>1. i \in DOMAIN e /\ k + j \in DOMAIN e /\ e[i] = e[k + j] /\ i # k + j
    BY <1>1
  <2> QED  BY <2>1, SMTT(30) DEF NoRepeat
<1> QED  BY <1>1, <1>2, <1>3, <1>4, SMTT(30) DEF Apart, a, b

\* An element put in front.
LEMMA ConsApart ==
  ASSUME NEW e \in Seq(Items), NoRepeat(e), NEW x \in Items \ Range(e)
  PROVE  NoRepeat(<<x>> \o e)
<1> DEFINE s == <<x>> \o e
<1>1. /\ Len(e) \in Nat /\ DOMAIN e = 1 .. Len(e) /\ DOMAIN s = 1 .. Len(e) + 1 /\ s[1] = x
      /\ \A k \in 1 .. Len(e) : s[k + 1] = e[k]
  BY Cons
<1> HIDE DEF s
<1>2. ASSUME NEW i \in DOMAIN s, NEW j \in DOMAIN s, s[i] = s[j] PROVE i = j
  <2>1. \A k \in DOMAIN s : k = 1 \/ \E m \in 1 .. Len(e) : k = m + 1 /\ s[k] = e[m]
    <3> TAKE k \in DOMAIN s
    <3>1. k = 1 \/ (k - 1 \in 1 .. Len(e) /\ k = (k - 1) + 1)
      BY <1>1
    <3> QED  BY <1>1, <3>1
  <2>2. \A m \in 1 .. Len(e) : e[m] # x
    BY <1>1 DEF Range
  <2>3. CASE i = 1 \/ j = 1
    BY <1>1, <1>2, <2>1, <2>2, <2>3, SMTT(30)
  <2>4. CASE i # 1 /\ j # 1
    <3>1. PICK m \in 1 .. Len(e) : i = m + 1 /\ s[i] = e[m]
      BY <2>1, <2>4, SMTT(30)
    <3>2. PICK l \in 1 .. Len(e) : j = l + 1 /\ s[j] = e[l]
      BY <2>1, <2>4, SMTT(30)
    <3>3. m = l
      BY <1>1, <1>2, <3>1, <3>2 DEF NoRepeat
    <3> QED  BY <3>1, <3>2, <3>3, SMTT(30)
  <2> QED  BY <2>3, <2>4
<1> QED  BY <1>2, SMTT(30) DEF NoRepeat, s

\* An element replaced by one from outside.
LEMMA ReplacedApart ==
  ASSUME NEW e \in Seq(Items), NoRepeat(e), NEW k \in DOMAIN e, NEW x \in Items \ Range(e)
  PROVE  Apart([e EXCEPT ![k] = x], <<e[k]>>)
<1> DEFINE s == [e EXCEPT ![k] = x]
           o == <<e[k]>>
<1>1. /\ s \in Seq(Items) /\ DOMAIN s = DOMAIN e /\ s[k] = x
      /\ \A i \in DOMAIN e : i # k => s[i] = e[i]
  OBVIOUS
<1>2. o \in Seq(Items) /\ Range(o) = {e[k]}
  BY DEF Range
<1> HIDE DEF s, o
<1>3. \A i \in DOMAIN e : e[i] # x
  BY DEF Range
<1>4. NoRepeat(s)
  BY <1>1, <1>3, SMTT(30) DEF NoRepeat
<1>5. \A i \in DOMAIN e : s[i] # e[k]
  BY <1>1, <1>3 DEF NoRepeat
<1>6. Range(s) \cap Range(o) = {}
  BY <1>1, <1>2, <1>5, ZenonT(40) DEF Range
<1> QED  BY <1>1, <1>2, <1>4, <1>6, ZenonT(40) DEF Apart, s, o

\* Two elements exchanged.
LEMMA SwappedApart ==
  ASSUME NEW e \in Seq(Items), NoRepeat(e), NEW k \in DOMAIN e, NEW j \in DOMAIN e
  PROVE  NoRepeat([e EXCEPT ![k] = e[j], ![j] = e[k]])
<1> DEFINE s == [e EXCEPT ![k] = e[j], ![j] = e[k]]
<1>1. /\ DOMAIN s = DOMAIN e /\ s[j] = e[k] /\ s[k] = e[j]
      /\ \A i \in DOMAIN e : i # k /\ i # j => s[i] = e[i]
  BY SMTT(30)
<1> HIDE DEF s
<1>2. NoRepeat(s)
  BY <1>1 DEF NoRepeat
<1> QED  BY <1>2 DEF s

\* The elements a selection leaves and the ones it takes.
LEMMA RemovedApart ==
  ASSUME NEW e \in Seq(Items), NoRepeat(e), NEW S
  PROVE  Apart(Those(e, Range(e) \ S), Those(e, S))
<1>1. /\ Those(e, S) \in Seq(Items) /\ Range(Those(e, S)) = Range(e) \cap S
      /\ Those(e, Range(e) \ S) \in Seq(Items) /\ NoRepeat(Those(e, Range(e) \ S))
      /\ Range(Those(e, Range(e) \ S)) = Range(e) \cap (Range(e) \ S)
  BY ThoseFacts
<1> QED  BY <1>1, ZenonT(40) DEF Apart

\* No step of the deque makes an element repeat, or keeps one it hands out.
LEMMA DequeStep ==
  ASSUME QueueInv, Simulates
  PROVE  QueueInv'
<1> DEFINE e == Elements(q)
           f == Elements(q')
           Goal == Apart(f, out') /\ seen' \in Seq(Items)
<1>1. /\ Good(q) /\ e \in Seq(Items) /\ NoRepeat(e) /\ DOMAIN e = 1 .. Len(e) /\ Len(e) \in Nat
      /\ AsDeque!Inside = Range(e) /\ AsDeque!Outside = Items \ Range(e)
  BY Views DEF QueueInv
<1>2. Good(q') /\ f \in Seq(Items)
  BY DEF Simulates, Good
<1>3. SUFFICES Goal
  BY <1>2 DEF Apart, QueueInv
<1> HIDE DEF e, f
<1> USE DEF AsDeque!Answer
<1>4. ASSUME out' = <<>>, seen' \in Seq(Items), NoRepeat(f) PROVE Goal
  BY <1>2, <1>4, Nothing DEF Apart
<1>5. CASE AsDeque!PushBack \/ AsDeque!PushFront \/ AsDeque!Extend
  <2>1. out' = <<>> /\ seen' \in Seq(Items)
    BY <1>5, Nothing, Zenon DEF AsDeque!PushBack, AsDeque!PushFront, AsDeque!Extend
  <2>2. CASE AsDeque!PushBack
    <3>1. PICK x \in Items \ Range(e) : f = Append(e, x)
      BY <1>1, <2>2 DEF AsDeque!PushBack, e, f
    <3>2. NoRepeat(f)
      BY <1>1, <3>1, RangeAppend, SMTT(30)
    <3> QED  BY <1>4, <2>1, <3>2
  <2>3. CASE AsDeque!PushFront
    <3>1. PICK x \in Items \ Range(e) : f = <<x>> \o e
      BY <1>1, <2>3 DEF AsDeque!PushFront, e, f
    <3>2. NoRepeat(f)
      BY <1>1, <3>1, ConsApart
    <3> QED  BY <1>4, <2>1, <3>2
  <2>4. CASE AsDeque!Extend
    <3>1. PICK x \in Items \ Range(e), y \in Items \ Range(e) : x # y /\ f = e \o <<x, y>>
      BY <1>1, <2>4, Zenon DEF AsDeque!Extend, e, f
    <3>2. e \o <<x, y>> = Append(Append(e, x), y)
      BY <1>1
    <3>3. PICK g \in Seq(Items) : g = Append(e, x) /\ Range(g) = Range(e) \cup {x} /\ NoRepeat(g)
      BY <1>1, RangeAppend, Zenon
    <3>4. NoRepeat(Append(g, y))
      BY <3>1, <3>3, RangeAppend, Zenon
    <3>5. NoRepeat(f)
      BY <3>1, <3>2, <3>3, <3>4, ZenonT(40)
    <3> QED  BY <1>4, <2>1, <3>5
  <2> QED  BY <1>5, <2>2, <2>3, <2>4
<1>6. CASE AsDeque!PopFront
  <2>1. e # <<>> /\ out' = <<Head(e)>> /\ seen' = <<>> /\ f = Tail(e)
    BY <1>6 DEF AsDeque!PopFront, e, f
  <2>2. SubSeq(e, 2, Len(e)) = Tail(e) /\ Head(e) = e[1] /\ Len(e) > 0
    BY <1>1, <2>1, Ends
  <2>3. PICK k \in 1 .. Len(e) : k = 1 /\ k \in 0 .. Len(e)
    BY <1>1, <2>2
  <2>4. Apart(SubSeq(e, k + 1, Len(e)), SubSeq(e, 1, k))
    BY <1>1, <2>3, Cut, SMTT(30)
  <2>5. SubSeq(e, k, k) = <<e[k]>>
    BY <1>1, Single
  <2>6. SubSeq(e, k + 1, Len(e)) = f /\ SubSeq(e, 1, k) = out'
    BY <2>1, <2>2, <2>3, <2>5
  <2> QED  BY <2>1, <2>4, <2>6, Nothing, ZenonT(40)
<1>7. CASE AsDeque!PopBack
  <2>1. e # <<>> /\ out' = <<e[Len(e)]>> /\ seen' = <<>> /\ f = SubSeq(e, 1, Len(e) - 1)
    BY <1>7 DEF AsDeque!PopBack, e, f
  <2>0. Len(e) > 0
    BY <1>1, <2>1, Ends
  <2>2. PICK k \in 0 .. Len(e) : k = Len(e) - 1 /\ k + 1 = Len(e) /\ k + 1 \in 1 .. Len(e)
    <3>1. PICK m \in Nat : m = Len(e)
      BY <1>1, Zenon
    <3>2. m - 1 \in 0 .. m /\ (m - 1) + 1 = m /\ (m - 1) + 1 \in 1 .. m
      BY <2>0, <3>1
    <3> QED  BY <3>1, <3>2
  <2>3. SubSeq(e, k + 1, k + 1) = <<e[k + 1]>>
    BY <1>1, <2>2, Single
  <2>4. Apart(SubSeq(e, 1, k), SubSeq(e, k + 1, Len(e)))
    BY <1>1, <2>2, Cut
  <2> QED  BY <2>1, <2>2, <2>3, <2>4, Nothing, ZenonT(40)
<1>8. ASSUME NEW c, AsDeque!PopNone(c) \/ AsDeque!Move(c) \/ AsDeque!Look(c) PROVE Goal
  <2>1. out' = <<>> /\ f = e /\ (seen' = <<>> \/ seen' = e)
    BY <1>8 DEF AsDeque!PopNone, AsDeque!Move, AsDeque!Look, e, f
  <2> QED  BY <1>1, <1>4, <2>1, Nothing, ZenonT(40)
<1>9. ASSUME NEW c, AsDeque!Drain(c) PROVE Goal
  <2>1. out' = e /\ seen' = <<>> /\ f = <<>>
    BY <1>9, SMTT(30) DEF AsDeque!Drain, e, f
  <2> QED  BY <1>1, <2>1, Nothing DEF Apart
<1>10. ASSUME NEW c, NEW S, AsDeque!Remove(c, S) PROVE Goal
  <2>1. out' = Those(e, S) /\ seen' = <<>> /\ f = Those(e, Range(e) \ S)
    BY <1>1, <1>10, SameThose DEF AsDeque!Remove, e, f
  <2> QED  BY <1>1, <2>1, RemovedApart, Nothing, SMTT(30)
<1>11. ASSUME NEW k \in DOMAIN e PROVE
         /\ \A S : AsDeque!RetainPanic(k, S) => Goal
         /\ AsDeque!ClearPanic(k) => Goal
         /\ AsDeque!Replace(k) => Goal
         /\ \A j \in DOMAIN e : AsDeque!Swap(k, j) => Goal
  <2>1. ASSUME NEW S, AsDeque!RetainPanic(k, S) PROVE Goal
    BY <1>10, <2>1, ZenonT(40) DEF AsDeque!RetainPanic
  <2>2. ASSUME AsDeque!ClearPanic(k) PROVE Goal
    <3>1. out' = SubSeq(e, 1, k) /\ seen' = <<>> /\ f = SubSeq(e, k + 1, Len(e))
      BY <2>2, Zenon DEF AsDeque!ClearPanic, e, f
    <3>2. k \in 0 .. Len(e)
      BY <1>1
    <3> QED  BY <1>1, <3>1, <3>2, Cut, Nothing, SMTT(30)
  <2>3. ASSUME AsDeque!Replace(k) PROVE Goal
    <3>1. PICK x \in Items \ Range(e) : f = [e EXCEPT ![k] = x]
      BY <1>1, <2>3, ZenonT(40) DEF AsDeque!Replace, e, f
    <3>2. out' = <<e[k]>> /\ seen' = e
      BY <2>3 DEF AsDeque!Replace, e
    <3> QED  BY <1>1, <3>1, <3>2, ReplacedApart, ZenonT(40)
  <2>4. ASSUME NEW j \in DOMAIN e, AsDeque!Swap(k, j) PROVE Goal
    <3>1. out' = <<>> /\ seen' = <<>> /\ f = [e EXCEPT ![k] = e[j], ![j] = e[k]]
      BY <2>4 DEF AsDeque!Swap, e, f
    <3> QED  BY <1>1, <1>4, <3>1, SwappedApart, Nothing, ZenonT(40)
  <2> QED  BY <2>1, <2>2, <2>3, <2>4, ZenonT(40)
<1>12. AsDeque!Next
  BY DEF Simulates
<1> HIDE DEF Goal
<1> QED  BY <1>5, <1>6, <1>7, <1>8, <1>9, <1>10, <1>11, <1>12, ZenonT(40) DEF AsDeque!Next, e

\* Every call on a queue in order is a call of the deque.
LEMMA QueueSimulates ==
  ASSUME QueueInv, QNext
  PROVE  Simulates
<1>1. \A n : n \in Sizes => 0 .. n \subseteq Nat
  BY QueueAssumption
<1>2. ASSUME NEW a \in 0 .. q.n, NEW b \in 0 .. q.n, CallSwap(a, b) PROVE Simulates
  <2>1. a \in Nat /\ b \in Nat
    BY <1>1 DEF QueueInv, Good
  <2> QED  BY <1>2, <2>1, SwapSimulates, SMTT(30)
<1>3. ASSUME NEW k \in 1 .. Length(q),
             \/ \E S \in SUBSET Inside : CallRetainPanics(k, S)
             \/ ClearPanics(k)
             \/ \E x \in Outside : CallIterMut(k, x)
      PROVE  Simulates
  BY <1>3, RetainPanicsSimulates, ClearPanicsSimulates, IterMutSimulates, ZenonT(40)
<1>4. ASSUME NEW c \in 0 .. 1, CallReserve(q.n + c) \/ CallDrop(q.n + c) PROVE Simulates
  BY <1>4, MoveSimulates, DrainSimulates, ZenonT(40)
<1> QED  BY <1>2, <1>3, <1>4, PushSimulates, PopFrontSimulates, PopBackSimulates,
             DrainSimulates, RemoveSimulates, LookSimulates, MoveSimulates, ZenonT(40) DEF QNext

\* A new queue is in order and empty.
LEMMA QueueStarts ==
  ASSUME QInit
  PROVE  QueueInv /\ AsDeque!Init
<1>1. PICK n \in Sizes : q \in {Ring(n), WithCapacity(n, n + 1)}
  BY DEF QInit
<1>2. PICK s : s = <<>> /\ s \in Seq(Items)
  BY Nothing, Zenon
<1>3. q \in {Ring(n), OnHeap(n, s)}
  BY <1>1, <1>2 DEF WithCapacity
<1>4. Good(q) /\ Elements(q) = <<>>
  <2>1. Good(Ring(n)) /\ Elements(Ring(n)) = <<>>
    BY RingEmpty
  <2>2. Good(OnHeap(n, s)) /\ Elements(OnHeap(n, s)) = s
    BY <1>2, HeapHolds, Zenon
  <2> QED  BY <1>2, <1>3, <2>1, <2>2
<1>5. call = "new" /\ out = <<>> /\ seen = <<>>
  BY DEF QInit
<1> QED  BY <1>4, <1>5, Nothing DEF QueueInv, AsDeque!Init

\* After every call the cursors agree, every slot between them is initialised, and no
\* element is held twice or both held and handed out.
THEOREM QueueInOrder == QSpec => []QueueInv
<1>1. QInit => QueueInv
  BY QueueStarts
<1>2. QueueInv /\ [QNext]_qVars => QueueInv'
  <2> SUFFICES ASSUME QueueInv, [QNext]_qVars PROVE QueueInv'
    OBVIOUS
  <2>1. CASE QNext
    BY <2>1, QueueSimulates, DequeStep, SMTT(30)
  <2>2. CASE UNCHANGED qVars
    BY <2>2, SMTT(30) DEF qVars, QueueInv, Good
  <2> QED  BY <2>1, <2>2
<1> QED  BY <1>1, <1>2, PTL DEF QSpec

\* head, tail and len stay consistent through wraps, spills and panics, for every
\* inline size and every set of elements: RingIsConsistent.
THEOREM QueueConsistent == QSpec => []RingIsConsistent
<1>1. QueueInv => RingIsConsistent
  <2> SUFFICES ASSUME QueueInv PROVE RingIsConsistent
    OBVIOUS
  <2>1. /\ Iter(q) = Elements(q) /\ Elements(q) \in Seq(Items) /\ Inside = Range(Elements(q))
    BY Views, SMTT(30) DEF QueueInv
  <2>2. Inside \subseteq Items
    BY <2>1 DEF Range
  <2>3. QTypeOK
    BY DEF QueueInv, Good, QTypeOK
  <2> QED  BY <2>1, <2>2, <2>3 DEF RingIsConsistent, QueueInv, Good, NoRepeat
<1> QED  BY <1>1, QueueInOrder, PTL

\* Every call answers, destroys and shows what it would on a plain sequence, however
\* the ring wrapped, spilled or was cut short before: ImplementsDeque.
THEOREM QueueIsDeque == QSpec => ImplementsDeque
<1>1. QInit => AsDeque!Init
  BY QueueStarts
<1>2. QueueInv /\ [QNext]_qVars => [AsDeque!Next]_AsDeque!vars
  <2> SUFFICES ASSUME QueueInv, [QNext]_qVars PROVE [AsDeque!Next]_AsDeque!vars
    OBVIOUS
  <2>1. CASE QNext
    BY <2>1, QueueSimulates DEF Simulates
  <2>2. CASE UNCHANGED qVars
    BY <2>2 DEF qVars, AsDeque!vars
  <2> QED  BY <2>1, <2>2
<1> QED  BY <1>1, <1>2, QueueInOrder, PTL DEF QSpec, ImplementsDeque, AsDeque!Spec
=============================================================================
