------------------------------- MODULE Oneshot -------------------------------
(***************************************************************************)
(* src/site_d/oneshot.rs: one sender, one receiver, one value, one u8 of   *)
(* state bits written by both sides (partly with plain stores) and a       *)
(* WaiterSlot on which only the receiver parks.  One step per access to    *)
(* the shared state, the value cell or the slot.                           *)
(***************************************************************************)
EXTENDS WaiterSlot

VARIABLES state,    \* Inner.state, as the set of its bits
          slot,     \* Inner.recv
          fate,     \* where the value is, or how it ended (see Move)
          spc, ss,  \* the sender: where it is, and the state it loaded in send()
          rpc, rs,  \* the receiver: where it is, and the state it loaded
          mode,     \* which call resolve() runs in: "try", "fast" or "slow"
          result,   \* what the receiver's last finished call returned
          refs      \* handles holding the Arc<Inner>

sVars == <<spc, ss>>
rVars == <<rpc, rs, mode, result>>
vars == <<state, slot, fate, spc, ss, rpc, rs, mode, result, refs>>

VALUE_SET == "VALUE_SET"
SENDER_DROPPED == "SENDER_DROPPED"
RECEIVER_DROPPED == "RECEIVER_DROPPED"
TAKEN == "TAKEN"
Bits == {VALUE_SET, SENDER_DROPPED, RECEIVER_DROPPED, TAKEN}

Tx == "tx"
Rx == "rx"

TypeOK ==
  /\ state \in SUBSET Bits
  /\ slot \in SlotType({Rx}, {Tx})
  /\ fate \in {"none", "sender", "cell", "caller", "receiver", "dropped", "corrupt"}
  /\ spc \in {"live", "write", "publish", "signal", "drop", "close", "closed",
              "release", "gone"}
  /\ ss \in SUBSET Bits
  /\ rpc \in {"idle", "load", "store", "read", "register", "arm", "disarm",
              "parked", "release", "gone"}
  /\ rs \in SUBSET Bits
  /\ mode \in {"try", "fast", "slow"}
  /\ result \in {"none", "pending", "empty", "value", "error"}
  /\ refs \in 0 .. 2

\* oneshot()
Init ==
  /\ state = {} /\ slot = NewSlot({Tx}) /\ fate = "none"
  /\ spc = "live" /\ ss = {}
  /\ rpc = "idle" /\ rs = {} /\ mode = "try" /\ result = "none"
  /\ refs = 2

\* The value moves from where it must be to its next place; any other move reads
\* an uninitialised cell or duplicates the value.
Move(from, to) == fate' = IF fate = from THEN to ELSE "corrupt"

\* Inner::drop: drop a value that was published and never taken.
InnerDrop ==
  IF VALUE_SET \in state /\ TAKEN \notin state
  THEN Move("cell", "dropped") ELSE UNCHANGED fate

\* Dropping a handle's Arc; the last one out drops Inner.
Release ==
  /\ refs' = refs - 1
  /\ IF refs = 1 THEN InnerDrop ELSE UNCHANGED fate

-----------------------------------------------------------------------------
(* Sender. *)

\* send: load the state; Err(value) when the receiver is gone.
SendLoad ==
  /\ spc = "live"
  /\ ss' = state
  /\ \/ RECEIVER_DROPPED \in state /\ spc' = "drop" /\ fate' = "caller"
     \/ RECEIVER_DROPPED \notin state /\ spc' = "write" /\ fate' = "sender"
  /\ UNCHANGED <<state, slot, rVars, refs>>

\* send: write the value into the cell.
SendWrite ==
  /\ spc = "write"
  /\ Move("sender", "cell") /\ spc' = "publish"
  /\ UNCHANGED <<state, slot, ss, rVars, refs>>

\* send: state.store(s | VALUE_SET), a store and not a fetch_or.
SendPublish ==
  /\ spc = "publish"
  /\ state' = ss \cup {VALUE_SET} /\ spc' = "signal"
  /\ UNCHANGED <<slot, fate, ss, rVars, refs>>

\* A slip: the armed flag is not looked at after the publish.
SendSignal_Dropped ==
  /\ spc = "signal"
  /\ spc' = "drop"
  /\ UNCHANGED <<state, slot, fate, ss, rVars, refs>>

\* send: recv.signal(), then the sender is dropped.
SendSignal ==
  /\ spc = "signal"
  /\ slot' = SignalLoad(slot, Tx) /\ spc' = "drop"
  /\ UNCHANGED <<state, fate, ss, rVars, refs>>

\* The steps of signal() that follow an armed flag.
SignalOn ==
  /\ ~Quiet(slot, Tx)
  /\ slot' = SignalStep(slot, Tx)
  /\ UNCHANGED <<state, fate, sVars, rVars, refs>>

\* The owner lets go of a sender that has sent nothing.
Abandon ==
  /\ spc = "live" /\ spc' = "drop"
  /\ UNCHANGED <<state, slot, fate, ss, rVars, refs>>

\* A slip: the closure is announced even after a successful send.
SenderDrop_Always ==
  /\ spc = "drop" /\ Quiet(slot, Tx)
  /\ spc' = "close"
  /\ UNCHANGED <<state, slot, fate, ss, rVars, refs>>

\* Sender::drop: load the state; nothing to announce after a send.
SenderDrop ==
  /\ spc = "drop" /\ Quiet(slot, Tx)
  /\ spc' = IF VALUE_SET \in state THEN "release" ELSE "close"
  /\ UNCHANGED <<state, slot, fate, ss, rVars, refs>>

\* Sender::drop: fetch_or(SENDER_DROPPED) ...
SenderClose ==
  /\ spc = "close"
  /\ state' = state \cup {SENDER_DROPPED} /\ spc' = "closed"
  /\ UNCHANGED <<slot, fate, ss, rVars, refs>>

\* A slip: the closure is not signalled.
SenderCloseSignal_Dropped ==
  /\ spc = "closed"
  /\ spc' = "release"
  /\ UNCHANGED <<state, slot, fate, ss, rVars, refs>>

\* ... and signal().
SenderCloseSignal ==
  /\ spc = "closed"
  /\ slot' = SignalLoad(slot, Tx) /\ spc' = "release"
  /\ UNCHANGED <<state, fate, ss, rVars, refs>>

SenderRelease ==
  /\ spc = "release" /\ Quiet(slot, Tx)
  /\ spc' = "gone" /\ Release
  /\ UNCHANGED <<state, slot, ss, rVars>>

SenderNext ==
  \/ SendWrite \/ SendPublish \/ SendSignal \/ SignalOn
  \/ SenderDrop \/ SenderClose \/ SenderCloseSignal \/ SenderRelease

-----------------------------------------------------------------------------
(* Receiver. *)

\* A call starts; a parked receiver may also be polled without having been woken.
Call(m) ==
  /\ rpc \in {"idle", "parked"}
  /\ rpc' = "load" /\ mode' = m
  /\ UNCHANGED <<state, fate, sVars, rs, result, refs>>

TryRecv == Call("try") /\ UNCHANGED slot

Poll == Call("fast") /\ slot' = Polled(slot, Rx)

\* Where a call goes once it has its answer: a re-check that succeeds disarms.
Return(r) == result' = r /\ rpc' = IF mode = "slow" THEN "disarm" ELSE "idle"

\* Nothing to take yet: try_recv says so, poll arms, the re-check parks.
NotYet ==
  \/ mode = "try" /\ result' = "empty" /\ rpc' = "idle"
  \/ mode = "fast" /\ result' = result /\ rpc' = "register"
  \/ mode = "slow" /\ result' = "pending" /\ rpc' = "parked"

\* resolve and try_recv: one load of the state decides.
Resolve ==
  /\ rpc = "load"
  /\ rs' = state
  /\ \/ /\ {VALUE_SET, TAKEN} \subseteq state
        /\ Return(IF mode = "try" THEN "empty" ELSE "error")
     \/ /\ VALUE_SET \in state /\ TAKEN \notin state
        /\ rpc' = "store" /\ UNCHANGED result
     \/ /\ VALUE_SET \notin state /\ SENDER_DROPPED \in state
        /\ Return("error")
     \/ {VALUE_SET, SENDER_DROPPED} \cap state = {} /\ NotYet
  /\ UNCHANGED <<state, slot, fate, sVars, mode, refs>>

\* A slip: the value is moved out without being marked taken.
TakeStore_Unmarked ==
  /\ rpc = "store"
  /\ rpc' = "read"
  /\ UNCHANGED <<state, slot, fate, sVars, rs, mode, result, refs>>

\* take_value: state.store(s | TAKEN), a store and not a fetch_or ...
TakeStore ==
  /\ rpc = "store"
  /\ state' = rs \cup {TAKEN} /\ rpc' = "read"
  /\ UNCHANGED <<slot, fate, sVars, rs, mode, result, refs>>

\* ... then the value is read out of the cell.
TakeRead ==
  /\ rpc = "read"
  /\ Move("cell", "receiver") /\ Return("value")
  /\ UNCHANGED <<state, slot, sVars, rs, mode, refs>>

\* poll: arm() is register ...
ArmRegister ==
  /\ rpc = "register"
  /\ slot' \in RegisterWaker(slot, Rx) /\ rpc' = "arm"
  /\ UNCHANGED <<state, fate, sVars, rs, mode, result, refs>>

\* ... and the flag store; then poll resolves once more.
ArmStore ==
  /\ rpc = "arm"
  /\ slot' = SetArmed(slot) /\ rpc' = "load" /\ mode' = "slow"
  /\ UNCHANGED <<state, fate, sVars, rs, result, refs>>

PollDisarm ==
  /\ rpc = "disarm"
  /\ slot' = Disarm(slot) /\ rpc' = "idle"
  /\ UNCHANGED <<state, fate, sVars, rs, mode, result, refs>>

\* Receiver::drop: fetch_or(RECEIVER_DROPPED), then the Arc.
ReceiverDrop ==
  /\ rpc \in {"idle", "parked"}
  /\ state' = state \cup {RECEIVER_DROPPED} /\ rpc' = "release"
  /\ UNCHANGED <<slot, fate, sVars, rs, mode, result, refs>>

ReceiverRelease ==
  /\ rpc = "release"
  /\ rpc' = "gone" /\ Release
  /\ UNCHANGED <<state, slot, sVars, rs, mode, result>>

ReceiverNext ==
  \/ Resolve \/ TakeStore \/ TakeRead \/ ArmRegister \/ ArmStore \/ PollDisarm
  \/ ReceiverRelease

-----------------------------------------------------------------------------

Next ==
  \/ SendLoad \/ Abandon \/ SenderNext
  \/ TryRecv \/ Poll \/ ReceiverDrop \/ ReceiverNext

\* Threads finish the calls they start and a woken task is polled; nobody has to
\* send, to drop a handle, to call try_recv or to poll spuriously.
Fairness ==
  /\ WF_vars(SenderNext)
  /\ WF_vars(ReceiverNext)
  /\ WF_vars(rpc = "parked" /\ Rx \in slot.woken /\ Poll)

Spec == Init /\ [][Next]_vars
FairSpec == Spec /\ Fairness

-----------------------------------------------------------------------------
(* Properties. *)

\* The value is moved exactly once: never read uninitialised or twice, and when
\* the channel is freed it has reached the receiver, gone back to the caller of
\* send, or been dropped by Inner::drop ("never leaked").
ValueMovedOnce ==
  fate # "corrupt" /\ (refs = 0 => fate \notin {"sender", "cell"})

\* The plain stores of send and take_value overwrite no bit but RECEIVER_DROPPED
\* (their comments: losing it "merely re-creates the documented outcome", and
\* "there are no concurrent writers of state" once VALUE_SET is observed).
PlainStoresLoseNothing ==
  /\ rpc = "store" => state = rs
  /\ spc \in {"write", "publish"} => ss \subseteq state /\ state \ ss \subseteq {RECEIVER_DROPPED}

Resolved == {VALUE_SET, SENDER_DROPPED} \cap state # {}

\* A parked receiver whose channel has resolved is woken, or the sender has still
\* to look at its armed flag or to act on it.
NoLostWakeup ==
  (rpc = "parked" /\ Resolved) =>
    WakeComing(slot, Rx) \/ (slot.armed /\ spc \in {"signal", "closed"})

\* Once the sender has started to send or to drop, a parked receiver gets the
\* value or the error ("instead of hanging"), unless its owner stops waiting:
\* drops it, or turns to try_recv.
ParkedResolves ==
  (rpc = "parked" /\ spc # "live") ~>
    (result \in {"value", "error"} \/ mode = "try" \/ rpc = "gone")
=============================================================================
