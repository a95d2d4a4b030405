------------------------------ MODULE AtomicSlot ------------------------------
(***************************************************************************)
(* What src/site_d/notify.rs promises its users: a slot whose operations   *)
(* are those of module WaiterSlot, each in one step, in any order a single *)
(* waiting task and the signalling threads may call them.                  *)
(***************************************************************************)
EXTENDS WaiterSlot

CONSTANTS Wakers,       \* identities of wakers (Waker::will_wake tells them apart)
          Signallers    \* threads that call signal()

VARIABLE slot

Init == slot = NewSlot(Signallers)

WaiterStep(w) ==
  \/ slot' = Polled(slot, w)
  \/ slot' \in RegisterWaker(slot, w)
  \/ slot' = SetArmed(slot)
  \/ slot' = Disarm(slot)

SignallerStep(s) ==
  \/ Quiet(slot, s) /\ slot' = SignalLoad(slot, s)
  \/ ~Quiet(slot, s) /\ slot' = SignalStep(slot, s)

Next == \/ \E w \in Wakers : WaiterStep(w)
        \/ \E s \in Signallers : SignallerStep(s)

Spec == Init /\ [][Next]_slot
=============================================================================
