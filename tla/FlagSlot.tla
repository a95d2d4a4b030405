------------------------------- MODULE FlagSlot -------------------------------
(***************************************************************************)
(* The wakeup slot of src/site_d/notify.rs seen by callers that need only  *)
(* know whether a parked task gets its wake: arm(), disarm() and signal()  *)
(* each take effect at one point (signal() at the swap of the armed flag,  *)
(* or at the load that finds it clear).  Module Notify is checked to       *)
(* implement it (see Notify!ImplementsAtomicFlag).                         *)
(*                                                                         *)
(* A slot is a record:                                                     *)
(*   armed    the AtomicBool of WaiterSlot;                                *)
(*   waiting  the task has called arm() and was not polled since;          *)
(*   woken    the waiting task's wake() was called, or is certain to be.   *)
(***************************************************************************)
EXTENDS Naturals

FlagType == [armed : BOOLEAN, waiting : BOOLEAN, woken : BOOLEAN]

NewFlag == [armed |-> FALSE, waiting |-> FALSE, woken |-> FALSE]

\* The task is polled, or its parked future is dropped; the flag stays as it is.
FlagPolled(s) == [s EXCEPT !.waiting = FALSE, !.woken = FALSE]

\* arm(): a wake that was still under way may reach the new waker at once.
FlagArm == {[armed |-> TRUE, waiting |-> TRUE, woken |-> b] : b \in BOOLEAN}

\* disarm()
FlagDisarm == NewFlag

\* signal(): one signaller claims the flag and wakes the task that waits.
FlagSignal(s) == IF s.armed THEN [s EXCEPT !.armed = FALSE, !.woken = s.waiting] ELSE s
=============================================================================
