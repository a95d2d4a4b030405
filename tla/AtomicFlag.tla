------------------------------ MODULE AtomicFlag ------------------------------
(***************************************************************************)
(* The operations of module FlagSlot, in any order one waiting task and    *)
(* the signalling threads may call them.                                   *)
(***************************************************************************)
EXTENDS FlagSlot

VARIABLE slot

Init == slot = NewFlag

Next ==
  \/ slot' = FlagPolled(slot)
  \/ ~slot.waiting /\ slot' \in FlagArm
  \/ slot' = FlagDisarm
  \/ slot' = FlagSignal(slot)

Spec == Init /\ [][Next]_slot
=============================================================================
