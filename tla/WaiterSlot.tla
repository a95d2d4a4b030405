------------------------------ MODULE WaiterSlot ------------------------------
(***************************************************************************)
(* The wakeup slot of src/site_d/notify.rs at the level its users rely on: *)
(* AtomicWaker::register and AtomicWaker::wake each take effect at one     *)
(* point.  Module Notify models the same file one atomic access at a time  *)
(* and is checked to implement this module (see Notify!AtomicSlot).        *)
(*                                                                         *)
(* A slot is a record:                                                     *)
(*   armed  the AtomicBool of WaiterSlot;                                  *)
(*   waker  the Waker stored in the AtomicWaker, or NoWaker;               *)
(*   woken  the wakers whose wake() has been called, or is certain to be,  *)
(*          and whose task has not been polled since;                      *)
(*   sig    where each signalling thread is inside signal().               *)
(***************************************************************************)
EXTENDS Naturals

NoWaker == "no waker"

SigPhase == {"idle", "swap", "wake"}

SlotType(Wakers, Threads) ==
  [armed : BOOLEAN, waker : Wakers \cup {NoWaker}, woken : SUBSET Wakers,
   sig : [Threads -> SigPhase]]

NewSlot(Threads) ==
  [armed |-> FALSE, waker |-> NoWaker, woken |-> {},
   sig |-> [t \in Threads |-> "idle"]]

-----------------------------------------------------------------------------
(* The waiting side. *)

\* The task of waker w is polled: a wake delivered so far is used up.
Polled(slot, w) == [slot EXCEPT !.woken = @ \ {w}]

\* register(w): w is stored, or a wake in progress makes w fire at once.
RegisterWaker(slot, w) ==
  {[slot EXCEPT !.waker = w], [slot EXCEPT !.woken = @ \cup {w}]}

\* The store of `true` that ends arm(), and the store of disarm().
SetArmed(slot) == [slot EXCEPT !.armed = TRUE]
Disarm(slot) == [slot EXCEPT !.armed = FALSE]

-----------------------------------------------------------------------------
(* The signalling side: signal() is up to three accesses. *)

\* Thread t has no signal() call in progress on this slot.
Quiet(slot, t) == slot.sig[t] = "idle"

\* The flag load of signal(): the call goes on only when a waiter is armed.
SignalLoad(slot, t) ==
  IF slot.armed THEN [slot EXCEPT !.sig[t] = "swap"] ELSE slot

\* The swap of signal_slow(): one signaller claims the flag.
SignalSwap(slot, t) ==
  IF slot.armed THEN [slot EXCEPT !.armed = FALSE, !.sig[t] = "wake"]
                ELSE [slot EXCEPT !.sig[t] = "idle"]

\* A slip: the cell's content is fired without looking whether there is one.
SignalWake_Unchecked(slot, t) ==
  [slot EXCEPT !.woken = @ \cup {slot.waker}, !.waker = NoWaker, !.sig[t] = "idle"]

\* wake(): the stored waker, if any, is taken and fired.
SignalWake(slot, t) ==
  [slot EXCEPT !.woken = (@ \cup {slot.waker}) \ {NoWaker},
               !.waker = NoWaker, !.sig[t] = "idle"]

\* What a signal() call in progress does next.
SignalStep(slot, t) ==
  IF slot.sig[t] = "swap" THEN SignalSwap(slot, t) ELSE SignalWake(slot, t)

\* Some thread is bound to fire the stored waker, or to see the armed flag.
WakeComing(slot, w) ==
  \/ w \in slot.woken
  \/ /\ slot.waker = w
     /\ \E t \in DOMAIN slot.sig :
          slot.sig[t] = "wake" \/ (slot.armed /\ slot.sig[t] = "swap")
=============================================================================
