--------------------------- MODULE HandoffProofs ---------------------------
(***************************************************************************)
(* Proofs about the two structures that hand one value, or one buffer,     *)
(* from one side to the other.                                             *)
(*   Oneshot: the value moves at most once, no plain store is lost, and a  *)
(*     receiver that waits has a wake coming.                              *)
(*   TripleBuffer, for every width of the generation counter: the buffers  *)
(*     circulate and every publication is taken.                           *)
(***************************************************************************)
EXTENDS Oneshot, TripleBuffer, WaiterProofs

(* The oneshot channel. *)

\* Each handle that is not gone holds one reference.
RefsInv ==
  refs = (IF spc = "gone" THEN 0 ELSE 1) + (IF rpc = "gone" THEN 0 ELSE 1)

\* Who may still write the state word, read off the sender's position.
SenderInv ==
  /\ spc = "live" => fate = "none"
  /\ spc = "write" => fate = "sender"
  /\ spc = "publish" => fate = "cell"
  /\ spc \in {"live", "write", "publish"} => state \subseteq {RECEIVER_DROPPED}
  /\ spc \in {"write", "publish"} => ss \subseteq state
  /\ spc = "close" => VALUE_SET \notin state
  /\ VALUE_SET \in state => spc \in {"signal", "drop", "release", "gone"}
  /\ SENDER_DROPPED \in state => VALUE_SET \notin state

\* Where the value is, read off the state word and the receiver's position.
ValueInv ==
  /\ TAKEN \in state => VALUE_SET \in state
  /\ rpc = "store" => state = rs /\ VALUE_SET \in state /\ TAKEN \notin state
  /\ rpc = "read" => TAKEN \in state /\ fate = "cell"
  /\ (VALUE_SET \in state /\ TAKEN \notin state /\ refs > 0) => fate = "cell"
  /\ (TAKEN \in state /\ rpc # "read") => fate = "receiver"
  /\ fate = "cell" => spc = "publish" \/ VALUE_SET \in state
  /\ fate = "sender" => spc = "write"
  /\ ValueMovedOnce

-----------------------------------------------------------------------------
\* Oneshot's variables keep their types, and the reference count is exact.
THEOREM TypeCorrect == Spec => [](TypeOK /\ RefsInv)
<1>1. Init => TypeOK /\ RefsInv
  BY DEF Init, TypeOK, RefsInv, NewSlot, SlotType, SigPhase, Bits
<1>2. TypeOK /\ RefsInv /\ [Next]_vars => TypeOK' /\ RefsInv'
  <2> SUFFICES ASSUME TypeOK, RefsInv, [Next]_vars PROVE TypeOK' /\ RefsInv'
    OBVIOUS
  <2> USE DEF TypeOK, RefsInv, Bits, VALUE_SET, SENDER_DROPPED, RECEIVER_DROPPED, TAKEN
  <2>0. /\ SignalLoad(slot, Tx) \in SlotType({Rx}, {Tx})
        /\ SignalStep(slot, Tx) \in SlotType({Rx}, {Tx})
        /\ Polled(slot, Rx) \in SlotType({Rx}, {Tx})
        /\ \A n \in RegisterWaker(slot, Rx) : n \in SlotType({Rx}, {Tx})
        /\ SetArmed(slot) \in SlotType({Rx}, {Tx})
        /\ Disarm(slot) \in SlotType({Rx}, {Tx})
    <3>1. slot \in SlotType({Rx}, {Tx}) /\ Rx \in {Rx} /\ Tx \in {Tx}
      OBVIOUS
    <3> QED  BY <3>1, SlotOpsType, Zenon
  <2>1. CASE SendLoad  BY <2>1 DEF SendLoad, rVars
  <2>2. CASE Abandon  BY <2>2 DEF Abandon, rVars
  <2>3. CASE SenderNext
    <3>1. CASE SendWrite  BY <3>1 DEF SendWrite, Move, rVars
    <3>2. CASE SendPublish  BY <3>2 DEF SendPublish, rVars
    <3>3. CASE SendSignal  BY <3>3, <2>0 DEF SendSignal, rVars
    <3>4. CASE SignalOn  BY <3>4, <2>0 DEF SignalOn, sVars, rVars
    <3>5. CASE SenderDrop  BY <3>5 DEF SenderDrop, rVars
    <3>6. CASE SenderClose  BY <3>6 DEF SenderClose, rVars
    <3>7. CASE SenderCloseSignal  BY <3>7, <2>0 DEF SenderCloseSignal, rVars
    <3>8. CASE SenderRelease  BY <3>8 DEF SenderRelease, Release, InnerDrop, Move, rVars
    <3> QED  BY <2>3, <3>1, <3>2, <3>3, <3>4, <3>5, <3>6, <3>7, <3>8 DEF SenderNext
  <2>4. CASE TryRecv  BY <2>4 DEF TryRecv, Call, sVars
  <2>8. CASE Poll  BY <2>8, <2>0 DEF Poll, Call, sVars
  <2>5. CASE ReceiverDrop  BY <2>5 DEF ReceiverDrop, sVars
  <2>6. CASE ReceiverNext
    <3>1. CASE Resolve  BY <3>1 DEF Resolve, Return, NotYet, sVars
    <3>2. CASE TakeStore  BY <3>2 DEF TakeStore, sVars
    <3>3. CASE TakeRead  BY <3>3 DEF TakeRead, Move, Return, sVars
    <3>4. CASE ArmRegister  BY <3>4, <2>0, ZenonT(40) DEF ArmRegister, sVars
    <3>5. CASE ArmStore  BY <3>5, <2>0, ZenonT(40) DEF ArmStore, sVars
    <3>6. CASE PollDisarm  BY <3>6, <2>0, ZenonT(40) DEF PollDisarm, sVars
    <3>7. CASE ReceiverRelease  BY <3>7 DEF ReceiverRelease, Release, InnerDrop, Move, sVars
    <3> QED  BY <2>6, <3>1, <3>2, <3>3, <3>4, <3>5, <3>6, <3>7 DEF ReceiverNext
  <2>7. CASE UNCHANGED vars  BY <2>7 DEF vars
  <2> QED  BY <2>1, <2>2, <2>3, <2>4, <2>5, <2>6, <2>7, <2>8 DEF Next
<1> QED  BY <1>1, <1>2, PTL DEF Spec
-----------------------------------------------------------------------------

\* The two invariants above hold: the sender's and the receiver's positions pin
\* down the state word and the value at every step.
THEOREM PositionsPinValue == Spec => [](SenderInv /\ ValueInv)
<1>1. Init => SenderInv /\ ValueInv
  BY DEF Init, SenderInv, ValueInv, ValueMovedOnce
<1>2. TypeOK /\ RefsInv /\ SenderInv /\ ValueInv /\ [Next]_vars
        => SenderInv' /\ ValueInv'
  <2> SUFFICES ASSUME TypeOK, RefsInv, SenderInv, ValueInv, [Next]_vars
               PROVE  SenderInv' /\ ValueInv'
    OBVIOUS
  <2> USE DEF SenderInv, ValueInv, ValueMovedOnce, TypeOK, RefsInv, Bits, VALUE_SET, SENDER_DROPPED, RECEIVER_DROPPED, TAKEN
  <2>1. CASE SendLoad  BY <2>1 DEF SendLoad, rVars
  <2>2. CASE Abandon  BY <2>2, SMTT(30) DEF Abandon, rVars
  <2>3. CASE SenderNext
    <3>1. CASE SendWrite  BY <3>1 DEF SendWrite, Move, rVars
    <3>2. CASE SendPublish  BY <3>2 DEF SendPublish, rVars
    <3>3. CASE SendSignal  BY <3>3 DEF SendSignal, rVars
    <3>4. CASE SignalOn  BY <3>4 DEF SignalOn, sVars, rVars
    <3>5. CASE SenderDrop  BY <3>5 DEF SenderDrop, rVars
    <3>6. CASE SenderClose  BY <3>6 DEF SenderClose, rVars
    <3>7. CASE SenderCloseSignal  BY <3>7 DEF SenderCloseSignal, rVars
    <3>8. CASE SenderRelease  BY <3>8 DEF SenderRelease, Release, InnerDrop, Move, rVars
    <3> QED  BY <2>3, <3>1, <3>2, <3>3, <3>4, <3>5, <3>6, <3>7, <3>8, ZenonT(40) DEF SenderNext
  <2>4. CASE TryRecv  BY <2>4 DEF TryRecv, Call, sVars
  <2>5. CASE Poll  BY <2>5 DEF Poll, Call, sVars
  <2>6. CASE ReceiverDrop  BY <2>6, SMTT(30) DEF ReceiverDrop, sVars
  <2>7. CASE ReceiverNext
    <3>1. CASE Resolve  BY <3>1 DEF Resolve, Return, NotYet, sVars
    <3>2. CASE TakeStore  BY <3>2 DEF TakeStore, sVars
    <3>3. CASE TakeRead  BY <3>3 DEF TakeRead, Move, Return, sVars
    <3>4. CASE ArmRegister  BY <3>4 DEF ArmRegister, sVars
    <3>5. CASE ArmStore  BY <3>5 DEF ArmStore, sVars
    <3>6. CASE PollDisarm  BY <3>6 DEF PollDisarm, sVars
    <3>7. CASE ReceiverRelease  BY <3>7 DEF ReceiverRelease, Release, InnerDrop, Move, sVars
    <3> QED  BY <2>7, <3>1, <3>2, <3>3, <3>4, <3>5, <3>6, <3>7, ZenonT(40) DEF ReceiverNext
  <2>8. CASE UNCHANGED vars  BY <2>8 DEF vars
  <2> QED  BY <2>1, <2>2, <2>3, <2>4, <2>5, <2>6, <2>7, <2>8, Zenon DEF Next
<1> QED  BY <1>1, <1>2, TypeCorrect, PTL DEF Spec

\* The value sent is moved exactly once, whatever sends, receives and drops of
\* the two handles interleave, and it does not survive the channel.
THEOREM ValueMovedExactlyOnce == Spec => []ValueMovedOnce
<1>1. ValueInv => ValueMovedOnce
  BY DEF ValueInv
<1> QED  BY <1>1, PositionsPinValue, PTL

\* send's and take_value's stores overwrite no bit but RECEIVER_DROPPED.
THEOREM PlainStoresAreSafe == Spec => []PlainStoresLoseNothing
<1>1. SenderInv /\ ValueInv => PlainStoresLoseNothing
  BY DEF SenderInv, ValueInv, PlainStoresLoseNothing
<1> QED  BY <1>1, PositionsPinValue, PTL
-----------------------------------------------------------------------------
(* No lost wakeup. *)

\* The handshake, read off both positions: signal() runs only after the state
\* word is written; from the register on, the receiver's waker is stored or has
\* fired; from the flag store on, the flag is up unless its wake is in progress.
WakeInv ==
  /\ slot.sig[Tx] # "idle" => spc \in {"drop", "release"}
  /\ rpc = "arm" => Rx \in slot.woken \/ slot.waker = Rx
  /\ (rpc = "parked" \/ (rpc = "load" /\ mode = "slow")) =>
       \/ Rx \in slot.woken
       \/ slot.waker = Rx /\ (slot.armed \/ slot.sig[Tx] = "wake")
  /\ (rpc = "parked" /\ Resolved) =>
       \/ Rx \in slot.woken
       \/ slot.sig[Tx] = "wake"
       \/ slot.armed /\ (slot.sig[Tx] = "swap" \/ spc \in {"signal", "closed"})

\* WakeInv holds throughout, so a parked receiver is never left behind: this is
\* the lost-wakeup argument of WaiterSlot carried out for the oneshot channel.
THEOREM WakeupNeverLost == Spec => []NoLostWakeup
<1>1. Init => WakeInv
  BY SMTT(30) DEF Init, WakeInv, NewSlot, Resolved
<1>2. TypeOK /\ SenderInv /\ WakeInv /\ [Next]_vars => WakeInv'
  <2> SUFFICES ASSUME TypeOK, SenderInv, WakeInv, [Next]_vars PROVE WakeInv'
    OBVIOUS
  <2>0. slot \in SlotType({Rx}, {Tx})
    BY DEF TypeOK
  <2> USE DEF WakeInv, SlotType, SigPhase, Resolved
  <2>1. CASE SendLoad  BY <2>0, <2>1 DEF SendLoad, rVars
  <2>2. CASE Abandon  BY <2>0, <2>2, SMTT(30) DEF Abandon, rVars
  <2>3. CASE SenderNext
    <3>1. CASE SendWrite  BY <2>0, <3>1 DEF SendWrite, rVars
    <3>2. CASE SendPublish  BY <2>0, <3>2 DEF SendPublish, rVars
    <3>3. CASE SendSignal  BY <2>0, <3>3 DEF SendSignal, rVars, SignalLoad
    <3>4. CASE SignalOn
      <4>1. UNCHANGED <<state, spc, rpc, mode>> /\ slot.sig[Tx] \in {"swap", "wake"}
        BY <2>0, <3>4 DEF SignalOn, sVars, rVars, Quiet
      <4>2. CASE slot.sig[Tx] = "swap"
        <5>1. slot' = SignalSwap(slot, Tx)
          BY <3>4, <4>2 DEF SignalOn, SignalStep
        <5> QED  BY <2>0, <4>1, <4>2, <5>1 DEF SignalSwap
      <4>3. CASE slot.sig[Tx] = "wake"
        <5>1. slot' = SignalWake(slot, Tx)
          BY <3>4, <4>3 DEF SignalOn, SignalStep
        <5>2. slot.waker = Rx => Rx \in slot'.woken
          BY <2>0, <5>1, Zenon DEF SignalWake, NoWaker, Rx
        <5>3. Rx \in slot.woken => Rx \in slot'.woken
          BY <2>0, <5>1, Zenon DEF SignalWake, NoWaker, Rx
        <5>4. slot'.sig[Tx] = "idle"
          BY <2>0, <5>1 DEF SignalWake
        <5> QED  BY <4>1, <4>3, <5>2, <5>3, <5>4
      <4> QED  BY <4>1, <4>2, <4>3
    <3>5. CASE SenderDrop  BY <2>0, <3>5 DEF SenderDrop, rVars, Quiet
    <3>6. CASE SenderClose  BY <2>0, <3>6 DEF SenderClose, rVars
    <3>7. CASE SenderCloseSignal  BY <2>0, <3>7 DEF SenderCloseSignal, rVars, SignalLoad
    <3>8. CASE SenderRelease  BY <2>0, <3>8 DEF SenderRelease, rVars, Quiet
    <3> QED  BY <2>3, <3>1, <3>2, <3>3, <3>4, <3>5, <3>6, <3>7, <3>8, ZenonT(40) DEF SenderNext
  <2>4. CASE TryRecv  BY <2>0, <2>4 DEF TryRecv, Call, sVars
  <2>5. CASE Poll  BY <2>0, <2>5 DEF Poll, Call, sVars, Polled
  <2>6. CASE ReceiverDrop  BY <2>0, <2>6, SMTT(30) DEF ReceiverDrop, sVars
  <2>7. CASE ReceiverNext
    <3>1. CASE Resolve  BY <2>0, <3>1 DEF Resolve, Return, NotYet, sVars
    <3>2. CASE TakeStore  BY <2>0, <3>2 DEF TakeStore, sVars
    <3>3. CASE TakeRead  BY <2>0, <3>3 DEF TakeRead, Return, sVars
    <3>4. CASE ArmRegister  BY <2>0, <3>4 DEF ArmRegister, sVars, RegisterWaker
    <3>5. CASE ArmStore  BY <2>0, <3>5 DEF ArmStore, sVars, SetArmed
    <3>6. CASE PollDisarm  BY <2>0, <3>6 DEF PollDisarm, sVars, Disarm
    <3>7. CASE ReceiverRelease  BY <2>0, <3>7 DEF ReceiverRelease, sVars
    <3> QED  BY <2>7, <3>1, <3>2, <3>3, <3>4, <3>5, <3>6, <3>7 DEF ReceiverNext
  <2>8. CASE UNCHANGED vars  BY <2>8 DEF vars
  <2> QED  BY <2>1, <2>2, <2>3, <2>4, <2>5, <2>6, <2>7, <2>8 DEF Next
<1>3. TypeOK /\ WakeInv => NoLostWakeup
  BY DEF TypeOK, SlotType, SigPhase, WakeInv, NoLostWakeup, WakeComing
<1> QED  BY <1>1, <1>2, <1>3, TypeCorrect, PositionsPinValue, PTL DEF Spec

-----------------------------------------------------------------------------
(* The triple buffer. *)

\* The generation after g is another one, and one of Gen.
LEMMA NextGenMoves ==
  ASSUME NEW g \in Gen
  PROVE  NextGen(g) \in Gen /\ NextGen(g) # g
<1>1. Generations \in Nat /\ Generations >= 2 /\ g \in Nat /\ g < Generations
  BY GenerationsAssumption DEF Gen
<1>2. CASE g + 1 < Generations
  <2>1. (g + 1) % Generations = g + 1
    BY <1>1, <1>2
  <2> QED  BY <1>1, <1>2, <2>1 DEF NextGen, Gen
<1>3. CASE g + 1 = Generations
  <2>1. (g + 1) % Generations = 0
    BY <1>1, <1>3
  <2> QED  BY <1>1, <1>3, <2>1 DEF NextGen, Gen
<1> QED  BY <1>1, <1>2, <1>3

\* Between the check and the new generation the writer has the middle; between the
\* check and the commit the reader has it.
WriterIn == wstep \in {"load", "put", "len", "rotate", "gen"}
ReaderIn == rstep \in {"gen", "load", "put", "rotate", "take", "len", "commit"}

\* The counters tell whose turn it is; the reader never finds the middle empty.
Turns ==
  /\ gen \in {lastRead, NextGen(lastRead)}
  /\ WriterIn => gen = lastRead
  /\ ReaderIn => gen # lastRead
  /\ ReaderIn /\ rstep # "gen" => rgen = gen
  /\ rstep # "panicked"

\* The indices are a permutation, and the loaded ones are up to date.
Indices ==
  /\ widx # ridx /\ ridx # midx /\ widx # midx
  /\ wstep \in {"put", "len", "rotate"} => wmid = midx
  /\ wstep \in {"gen", "take"} => wmid = widx
  /\ rstep \in {"put", "rotate"} => rmid = midx
  /\ rstep \in {"take", "len"} => rmid = ridx

\* Each buffer is somewhere, and nowhere else; at the end it is dropped.
Gone == wstep = "gone" /\ rstep = "gone"
OneOwner ==
  /\ \A b \in Buffers : b \in freed \/ b \in {wbuf, rbuf} \/ \E i \in Slots : cell[i] = b
  /\ \A i, j \in Slots : cell[i] = cell[j] /\ cell[i] # Null => i = j
  /\ \A i \in Slots : cell[i] # Null => cell[i] \notin freed \cup {wbuf, rbuf}
  /\ wbuf # Null => wbuf # rbuf /\ wbuf \notin freed
  /\ rbuf # Null => rbuf \notin freed
  /\ Gone => freed = Buffers

\* The writer's buffer is on the handle, or on its way through a slot.
Away == wstep \in {"len", "rotate", "gen", "take"}
WriterHas ==
  /\ cell[widx] # Null => Away
  /\ wbuf = Null <=> Away \/ wstep \in {"panicked", "gone"}
  /\ wstep \in {"len", "rotate"} => cell[widx] # Null
  /\ wstep \in {"gen", "take"} => cell[widx] # Null \/ short
  /\ wstep = "panicked" => short

\* The reader's is on the handle or in its slot, unless the caller kept it.
ReaderHas ==
  /\ rbuf # Null => cell[ridx] = Null
  /\ rbuf = Null => cell[ridx] # Null \/ short \/ rstep = "gone"
  /\ rstep \in {"rotate", "take", "gone"} => rbuf = Null
  /\ rstep \in {"put", "len", "commit"} => rbuf # Null
  /\ rstep = "take" => cell[ridx] # Null

\* The middle slot holds a publication, or a buffer that was given back.
Unread == wstep = "gen" \/ (gen # lastRead /\ rstep \notin {"take", "len", "commit"})
MiddleHas == ~Gone => cell[midx] # Null \/ (short /\ ~Unread)

\* A publication keeps its stamp and its length from publish to commit.
Is(b, n, g) == data[b] = Stamp(g) /\ n = Stamp(g)
Contents ==
  /\ wstep \in {"check", "load", "put", "register", "arm", "parked"} =>
       Is(wbuf, wlen, NextGen(gen))
  /\ wstep = "len" => Is(cell[widx], wlen, NextGen(gen))
  /\ wstep = "rotate" => Is(cell[widx], lens[widx], NextGen(gen))
  /\ wstep = "gen" => Is(cell[midx], lens[midx], NextGen(gen))
  /\ Unread /\ wstep # "gen" /\ ~Gone => Is(cell[midx], lens[midx], gen)
  /\ rstep = "take" => Is(cell[ridx], lens[ridx], rgen)
  /\ rstep = "len" => Is(rbuf, lens[ridx], rgen)
  /\ rstep = "commit" => Is(rbuf, rlen, rgen)

TInv ==
  /\ TTypeOK /\ Turns /\ Indices /\ OneOwner
  /\ WriterHas /\ ReaderHas /\ MiddleHas /\ Contents

\* The parts of the type invariant.
WriterType ==
  /\ wheld \in BOOLEAN /\ wmode \in Attempt
  /\ wstep \in {"idle", "check", "load", "put", "len", "rotate", "gen", "take", "signal",
              "return", "register", "arm", "disarm", "parked", "panicked", "gone"}
ReaderType ==
  /\ rheld \in BOOLEAN /\ short \in BOOLEAN /\ rmode \in Attempt
  /\ rstep \in {"idle", "check", "gen", "load", "put", "rotate", "take", "len", "commit",
              "signal", "return", "register", "arm", "disarm", "parked", "panicked", "gone"}
DataType ==
  /\ cell \in [Slots -> Buffers \cup {Null}] /\ lens \in [Slots -> 0 .. Generations]
  /\ widx \in Slots /\ ridx \in Slots /\ midx \in Slots /\ wmid \in Slots /\ rmid \in Slots
  /\ gen \in Gen /\ lastRead \in Gen /\ rgen \in Gen
  /\ data \in [Buffers -> 0 .. Generations] /\ freed \subseteq Buffers
  /\ wbuf \in Buffers \cup {Null} /\ rbuf \in Buffers \cup {Null}
  /\ wlen \in 0 .. Generations /\ rlen \in 0 .. Generations

\* The stamp of a generation is a length a buffer may have.
LEMMA StampType == \A g \in Gen : Stamp(g) \in 0 .. Generations
BY GenerationsAssumption DEF Gen, Stamp

\* Both slots stay slots.
LEMMA SlotsType ==
  ASSUME TTypeOK
  PROVE  /\ SignalLoad(rslot, W) \in SlotType({R}, {W})
         /\ SignalStep(rslot, W) \in SlotType({R}, {W})
         /\ Polled(rslot, R) \in SlotType({R}, {W})
         /\ \A n \in RegisterWaker(rslot, R) : n \in SlotType({R}, {W})
         /\ SetArmed(rslot) \in SlotType({R}, {W}) /\ Disarm(rslot) \in SlotType({R}, {W})
         /\ SignalLoad(wslot, R) \in SlotType({W}, {R})
         /\ SignalStep(wslot, R) \in SlotType({W}, {R})
         /\ Polled(wslot, W) \in SlotType({W}, {R})
         /\ \A n \in RegisterWaker(wslot, W) : n \in SlotType({W}, {R})
         /\ SetArmed(wslot) \in SlotType({W}, {R}) /\ Disarm(wslot) \in SlotType({W}, {R})
<1>1. rslot \in SlotType({R}, {W}) /\ wslot \in SlotType({W}, {R})
  BY DEF TTypeOK
<1>2. R \in {R} /\ W \in {W}
  OBVIOUS
<1> QED  BY <1>1, <1>2, SlotOpsType, Zenon

\* Every step keeps the types of the slots.
LEMMA StepKeepsSlots ==
  ASSUME TTypeOK, [TNext]_tVars
  PROVE  wslot' \in SlotType({W}, {R}) /\ rslot' \in SlotType({R}, {W})
<1>0. TTypeOK /\ wslot \in SlotType({W}, {R}) /\ rslot \in SlotType({R}, {W})
  BY DEF TTypeOK
<1>1. CASE WPoll \/ WRegister \/ WArm \/ WDisarm \/ RSignal \/ RSignalOn
  BY <1>0, <1>1, SlotsType, Zenon DEF WPoll, WRegister, WArm, WDisarm, RSignal, RSignalOn
<1>2. CASE RPoll \/ RRegister \/ RArm \/ RDisarm \/ WSignal \/ WSignalOn
  BY <1>0, <1>2, SlotsType, Zenon DEF RPoll, RRegister, RArm, RDisarm, WSignal, WSignalOn
<1>3. CASE UNCHANGED <<wslot, rslot>>
  BY <1>0, <1>3
<1>4. \/ WPoll \/ WRegister \/ WArm \/ WDisarm \/ RSignal \/ RSignalOn
      \/ RPoll \/ RRegister \/ RArm \/ RDisarm \/ WSignal \/ WSignalOn
      \/ UNCHANGED <<wslot, rslot>>
  BY Zenon DEF TNext, WriterStep, ReaderStep, Publish, TryPublish, NextBuf, TryNext, tVars,
     StartPublish, CancelPublish, TakeHeldW, DropWriter, WCheck, WLoad, WPut, WLen, WRotate, WGen,
     WTake, WReturn, StartNext, CancelNext, TakeHeldR, KeepBuffer, DropReader, RCheck, RGen, RLoad,
     RPut, RRotate, RTake, RLen, RCommit, RReturn
<1> QED  BY <1>1, <1>2, <1>3, <1>4, Zenon

\* Every step keeps the types of the writer's control state.
LEMMA StepKeepsWriter ==
  ASSUME TTypeOK, [TNext]_tVars
  PROVE  WriterType'
<1>0. WriterType
  BY DEF TTypeOK, WriterType
<1>1. CASE WCheck
  BY <1>0, <1>1 DEF WCheck, WriterType, Attempt
<1>2. CASE WTake \/ WReturn
  BY <1>0, <1>2 DEF WTake, WReturn, WriterType, Attempt
<1>3. CASE \/ CancelPublish \/ TakeHeldW \/ WPoll \/ DropWriter \/ WLoad \/ WPut \/ WLen \/ WRotate
           \/ WGen \/ WSignal \/ WRegister \/ WArm \/ WDisarm
  BY <1>0, <1>3, Zenon DEF CancelPublish, TakeHeldW, WPoll, DropWriter, WLoad, WPut, WLen, WRotate,
     WGen, WSignal, WRegister, WArm, WDisarm, WriterType, Attempt
<1>4. CASE Publish \/ TryPublish
  BY <1>0, <1>4, Zenon DEF Publish, TryPublish, StartPublish, WriterType, Attempt
<1>5. CASE UNCHANGED <<wstep, wmode, wheld>>
  BY <1>0, <1>5 DEF WriterType
<1>6. ASSUME \/ UNCHANGED tVars \/ WSignalOn \/ NextBuf \/ TryNext \/ CancelNext \/ TakeHeldR
             \/ KeepBuffer \/ RPoll \/ DropReader \/ ReaderStep
      PROVE  UNCHANGED <<wstep, wmode, wheld>>
  BY ONLY <1>6, Zenon DEF tVars, wrVars, WSignalOn, NextBuf, TryNext, StartNext, CancelNext, TakeHeldR,
     KeepBuffer, RPoll, DropReader, ReaderStep, RCheck, RGen, RLoad, RPut, RRotate, RTake, RLen,
     RCommit, RSignal, RSignalOn, RReturn, RRegister, RArm, RDisarm
<1> QED  BY ONLY <1>1, <1>2, <1>3, <1>4, <1>5, <1>6, [TNext]_tVars, Zenon DEF TNext, WriterStep

\* The same for the reader.
LEMMA StepKeepsReader ==
  ASSUME TTypeOK, [TNext]_tVars
  PROVE  ReaderType'
<1>0. ReaderType
  BY DEF TTypeOK, ReaderType
<1>1. CASE RCheck
  BY <1>0, <1>1 DEF RCheck, ReaderType, Attempt
<1>2. CASE RLoad \/ RTake \/ RReturn
  BY <1>0, <1>2 DEF RLoad, RTake, RReturn, ReaderType, Attempt
<1>3. CASE \/ CancelNext \/ TakeHeldR \/ RPoll \/ KeepBuffer \/ DropReader \/ RGen \/ RPut \/ RRotate
           \/ RLen \/ RCommit \/ RSignal \/ RRegister \/ RArm \/ RDisarm
  BY <1>0, <1>3, ZenonT(40) DEF CancelNext, TakeHeldR, RPoll, KeepBuffer, DropReader, RGen, RPut, RRotate,
     RLen, RCommit, RSignal, RRegister, RArm, RDisarm, ReaderType, Attempt
<1>4. CASE NextBuf \/ TryNext
  BY <1>0, <1>4, Zenon DEF NextBuf, TryNext, StartNext, ReaderType, Attempt
<1>5. CASE UNCHANGED <<rstep, rmode, rheld, short>>
  BY <1>0, <1>5 DEF ReaderType
<1>6. ASSUME \/ UNCHANGED tVars \/ RSignalOn \/ Publish \/ TryPublish \/ CancelPublish \/ TakeHeldW
             \/ WPoll \/ DropWriter \/ WriterStep
      PROVE  UNCHANGED <<rstep, rmode, rheld, short>>
  BY ONLY <1>6, Zenon DEF tVars, rdVars, RSignalOn, Publish, TryPublish, StartPublish, CancelPublish,
     TakeHeldW, WPoll, DropWriter, WriterStep, WCheck, WLoad, WPut, WLen, WRotate, WGen, WTake,
     WSignal, WSignalOn, WReturn, WRegister, WArm, WDisarm
<1> QED  BY ONLY <1>1, <1>2, <1>3, <1>4, <1>5, <1>6, [TNext]_tVars, Zenon DEF TNext, ReaderStep

\* Steps in which the writer only goes from one place outside a publication to
\* another.
WriterElsewhere ==
  /\ UNCHANGED <<tShared, data, freed, short, wmid, wbuf, wlen, rdVars>>
  /\ \/ UNCHANGED wstep
     \/ /\ wstep \in {"check", "signal", "return", "disarm", "register", "arm", "parked"}
        /\ wstep' \in {"return", "disarm", "idle"}
     \/ /\ wstep \in {"check", "register", "arm", "parked"}
        /\ wstep' \in {"register", "arm", "parked", "check"}

\* The same for the reader.
ReaderElsewhere ==
  /\ UNCHANGED <<tShared, data, freed, short, wrVars, rmid, rgen, rbuf>>
  /\ rlen' \in {rlen, 0}
  /\ \/ UNCHANGED <<rstep, rlen>>
     \/ /\ rstep \in {"idle", "check", "signal", "return", "disarm", "register", "arm", "parked"}
        /\ rstep' \in {"return", "disarm", "idle", "register", "arm", "parked", "check"}

\* A check that succeeds.
WriterEnters ==
  /\ wstep = "check" /\ gen = lastRead /\ wstep' = "load"
  /\ UNCHANGED <<tShared, data, freed, short, wmid, wbuf, wlen, rdVars>>
ReaderEnters ==
  /\ rstep = "check" /\ gen # lastRead /\ rstep' = "gen"
  /\ UNCHANGED <<tShared, data, freed, short, wrVars, rmid, rgen, rbuf, rlen>>

\* What a step is, for the invariant.
LEMMA TSteps ==
  ASSUME TTypeOK, [TNext]_tVars
  PROVE  \/ WriterElsewhere \/ WriterEnters \/ (\E m \in {"sync", "fast"} : StartPublish(m))
         \/ WLoad \/ WPut \/ WLen \/ WRotate \/ WGen \/ WTake \/ DropWriter
         \/ ReaderElsewhere \/ ReaderEnters \/ KeepBuffer
         \/ RGen \/ RLoad \/ RPut \/ RRotate \/ RTake \/ RLen \/ RCommit \/ DropReader
<1>1. ASSUME \/ CancelPublish \/ TakeHeldW \/ WPoll \/ WSignal \/ WSignalOn \/ WReturn
             \/ WRegister \/ WArm \/ WDisarm \/ UNCHANGED tVars
      PROVE  WriterElsewhere
  BY ONLY <1>1, Zenon DEF CancelPublish, TakeHeldW, WPoll, WSignal, WSignalOn, WReturn, WRegister,
                   WArm, WDisarm, tVars, tShared, wrVars, rdVars, WriterElsewhere
<1>2. ASSUME \/ CancelNext \/ TakeHeldR \/ RPoll \/ RSignal \/ RSignalOn \/ RReturn
             \/ RRegister \/ RArm \/ RDisarm \/ NextBuf \/ TryNext
      PROVE  ReaderElsewhere
  BY ONLY <1>2, Zenon DEF CancelNext, TakeHeldR, RPoll, RSignal, RSignalOn, RReturn, RRegister, RArm,
                   RDisarm, NextBuf, TryNext, StartNext, tShared, wrVars, rdVars, ReaderElsewhere
<1>3. ASSUME WCheck PROVE WriterElsewhere \/ WriterEnters
  BY ONLY <1>3, TTypeOK DEF TTypeOK, Attempt, WCheck, MiddleFree, tShared, rdVars,
                            WriterElsewhere, WriterEnters
<1>4. ASSUME RCheck PROVE ReaderElsewhere \/ ReaderEnters
  BY ONLY <1>4, TTypeOK DEF TTypeOK, Attempt, RCheck, HasUnread, tShared, wrVars,
                            ReaderElsewhere, ReaderEnters
<1> QED
  BY ONLY <1>1, <1>2, <1>3, <1>4, [TNext]_tVars, Zenon
     DEF TNext, WriterStep, ReaderStep, Publish, TryPublish

\* Every step keeps the types of the slots' content, the counters and the handles.
LEMMA StepKeepsData ==
  ASSUME TTypeOK, [TNext]_tVars
  PROVE  DataType'
<1>0. DataType
  BY DEF TTypeOK, DataType
<1>c. /\ 0 \in Slots /\ 0 \in Gen /\ 0 \in 0 .. Generations
      /\ InSlots \subseteq Buffers /\ cell[wmid] \in Buffers \cup {Null}
      /\ cell[rmid] \in Buffers \cup {Null} /\ lens[rmid] \in 0 .. Generations
      /\ NextGen(gen) \in Gen /\ Stamp(NextGen(gen)) \in 0 .. Generations
  BY <1>0, GenerationsAssumption, NextGenMoves, StampType, SMTT(30) DEF DataType, Slots, Gen, InSlots
<1> USE DEF DataType, tShared, wrVars, rdVars
<1>1. CASE WriterElsewhere \/ WriterEnters \/ ReaderElsewhere \/ ReaderEnters
  BY <1>0, <1>c, <1>1 DEF WriterElsewhere, WriterEnters, ReaderElsewhere, ReaderEnters
<1>2. CASE \E m \in {"sync", "fast"} : StartPublish(m)
  BY <1>0, <1>c, <1>2 DEF StartPublish
<1>3. CASE WLoad
  BY <1>0, <1>c, <1>3 DEF WLoad
<1>4. CASE WPut
  BY <1>0, <1>c, <1>4, SMTT(30) DEF WPut
<1>5. CASE WLen
  BY <1>0, <1>c, <1>5 DEF WLen
<1>6. CASE WRotate
  BY <1>0, <1>c, <1>6 DEF WRotate
<1>7. CASE WGen
  BY <1>0, <1>c, <1>7 DEF WGen
<1>8. CASE WTake
  BY <1>0, <1>c, <1>8 DEF WTake
<1>9. CASE DropWriter
  BY <1>0, <1>c, <1>9 DEF DropWriter
<1>10. CASE KeepBuffer
  BY <1>0, <1>c, <1>10 DEF KeepBuffer
<1>11. CASE RGen
  BY <1>0, <1>c, <1>11 DEF RGen
<1>12. CASE RLoad
  BY <1>0, <1>c, <1>12 DEF RLoad
<1>13. CASE RPut
  BY <1>0, <1>c, <1>13, ZenonT(40) DEF RPut
<1>14. CASE RRotate
  BY <1>0, <1>c, <1>14, SMTT(30) DEF RRotate
<1>15. CASE RTake
  BY <1>0, <1>c, <1>15 DEF RTake
<1>16. CASE RLen
  BY <1>0, <1>c, <1>16, SMTT(30) DEF RLen
<1>17. CASE RCommit
  BY <1>0, <1>c, <1>17, SMTT(30) DEF RCommit
<1>18. CASE DropReader
  BY <1>0, <1>c, <1>18 DEF DropReader
<1> QED
  BY ONLY <1>1, <1>2, <1>3, <1>4, <1>5, <1>6, <1>7, <1>8, <1>9, <1>10, <1>11, <1>12, <1>13, <1>14, <1>15, <1>16, <1>17, <1>18,
     TTypeOK, TSteps, [TNext]_tVars, ZenonT(40)

\* Every step keeps the types.
LEMMA StepKeepsTypes ==
  ASSUME TTypeOK, [TNext]_tVars
  PROVE  TTypeOK'
<1>1. TTypeOK' <=> /\ wslot' \in SlotType({W}, {R}) /\ rslot' \in SlotType({R}, {W})
                   /\ WriterType' /\ ReaderType' /\ DataType'
  BY ZenonT(40) DEF TTypeOK, WriterType, ReaderType, DataType
<1> QED  BY <1>1, StepKeepsSlots, StepKeepsWriter, StepKeepsReader, StepKeepsData, Zenon

\* The sides take turns, and the indices stay a permutation.
LEMMA StepKeepsTurns ==
  ASSUME TInv, [TNext]_tVars
  PROVE  Turns' /\ Indices'
<1>0. TTypeOK
  BY DEF TInv
<1>g. Turns /\ Indices /\ NextGen(lastRead) # lastRead
  BY NextGenMoves DEF TInv, TTypeOK
<1>r. rstep = "take" => cell[rmid] # Null
  BY DEF TInv, Indices, ReaderHas
<1> USE DEF Turns, Indices, WriterIn, ReaderIn, tShared, wrVars, rdVars
<1>1. CASE WriterElsewhere
  BY <1>g, <1>1, SMTT(30) DEF WriterElsewhere
<1>2. CASE WriterEnters
  BY <1>g, <1>2 DEF WriterEnters
<1>3. CASE \E m \in {"sync", "fast"} : StartPublish(m)
  BY <1>g, <1>3 DEF StartPublish
<1>4. CASE WLoad
  BY <1>g, <1>4 DEF WLoad
<1>5. CASE WPut
  BY <1>g, <1>5, SMTT(30) DEF WPut
<1>6. CASE WLen
  BY <1>g, <1>6 DEF WLen
<1>7. CASE WRotate
  BY <1>g, <1>7 DEF WRotate
<1>8. CASE WGen
  BY <1>g, <1>8 DEF WGen
<1>9. CASE WTake
  BY <1>g, <1>9 DEF WTake
<1>10. CASE DropWriter
  BY <1>g, <1>10 DEF DropWriter
<1>11. CASE ReaderElsewhere
  BY <1>g, <1>11 DEF ReaderElsewhere
<1>12. CASE ReaderEnters
  BY <1>g, <1>12 DEF ReaderEnters
<1>13. CASE KeepBuffer
  BY <1>g, <1>13 DEF KeepBuffer
<1>14. CASE RGen
  BY <1>g, <1>14 DEF RGen
<1>15. CASE RLoad
  BY <1>g, <1>15 DEF RLoad
<1>16. CASE RPut
  BY <1>g, <1>16 DEF RPut
<1>17. CASE RRotate
  BY <1>g, <1>17 DEF RRotate
<1>18. CASE RTake
  BY <1>g, <1>r, <1>18, SMTT(30) DEF RTake
<1>19. CASE RLen
  BY <1>g, <1>19 DEF RLen
<1>20. CASE RCommit
  BY <1>g, <1>20 DEF RCommit
<1>21. CASE DropReader
  BY <1>g, <1>21 DEF DropReader
<1> QED
  BY ONLY <1>1, <1>2, <1>3, <1>4, <1>5, <1>6, <1>7, <1>8, <1>9, <1>10, <1>11, <1>12,
     <1>13, <1>14, <1>15, <1>16, <1>17, <1>18, <1>19, <1>20, <1>21, <1>0, TSteps,
     [TNext]_tVars, Zenon

\* Each buffer keeps one owner.
LEMMA StepKeepsOwners ==
  ASSUME TInv, [TNext]_tVars
  PROVE  OneOwner'
<1>0. /\ OneOwner /\ TTypeOK /\ Null \notin Buffers /\ freed \subseteq Buffers
      /\ cell \in [Slots -> Buffers \cup {Null}] /\ {widx, ridx, wmid, rmid} \subseteq Slots
      /\ {wbuf, rbuf} \subseteq Buffers \cup {Null}
  BY DEF TInv, TTypeOK, Buffers, Null
<1>h. WriterHas /\ ReaderHas
  BY DEF TInv
<1>1. CASE WPut
  <2>1. /\ wstep = "put" /\ wstep' = "len" /\ wbuf' = Null
        /\ cell' = [cell EXCEPT ![widx] = wbuf] /\ UNCHANGED <<freed, rbuf>>
    BY <1>1 DEF WPut, rdVars
  <2>2. cell[widx] = Null /\ wbuf # Null
    BY <1>h, <2>1, SMTT(30) DEF WriterHas, Away
  <2> QED  BY <1>0, <2>1, <2>2 DEF OneOwner, Gone
<1>2. CASE WTake
  <2>1. /\ wstep = "take" /\ wstep' # "gone" /\ wbuf' = cell[wmid]
        /\ cell' = [cell EXCEPT ![wmid] = Null] /\ UNCHANGED <<freed, rbuf>>
    BY <1>2 DEF WTake, rdVars
  <2>2. wbuf = Null
    BY <1>h, <2>1 DEF WriterHas, Away
  <2> QED  BY <1>0, <2>1, <2>2 DEF OneOwner, Gone
<1>3. CASE DropWriter
  <2>1. /\ wstep' = "gone" /\ wbuf' = Null /\ UNCHANGED <<rstep, rbuf>>
    BY <1>3 DEF DropWriter, wrVars, rdVars
  <2>2. CASE rstep = "gone"
    <3>1. /\ \A i \in Slots : cell'[i] = Null
          /\ \A b : b \in freed' <=> b \in freed \/ (b # Null /\ (b = wbuf \/ \E i \in Slots : cell[i] = b))
      BY <1>3, <2>2 DEF DropWriter, InSlots
    <3>2. rbuf = Null /\ \A b \in Buffers : b \in freed \/ b \in {wbuf, rbuf} \/ \E i \in Slots : cell[i] = b
      BY <1>0, <1>h, <2>2 DEF OneOwner, WriterHas, ReaderHas
    <3>3. \A b : b \in freed' <=> b \in Buffers
      BY <1>0, <3>1, <3>2
    <3>4. freed' = Buffers
      BY <3>3, Zenon
    <3> QED  BY <2>1, <3>1, <3>2, <3>4, Zenon DEF OneOwner, Gone
  <2>3. CASE rstep # "gone"
    <3>1. cell' = cell /\ \A b : b \in freed' <=> b \in freed \/ (b # Null /\ b = wbuf)
      BY <1>3, <2>3, SMTT(30) DEF DropWriter
    <3> QED  BY <1>0, <2>1, <2>3, <3>1 DEF OneOwner, Gone
  <2> QED  BY <2>2, <2>3
<1>4. CASE RPut
  <2>1. /\ rstep = "put" /\ rstep' = "rotate" /\ rbuf' = Null
        /\ cell' = [cell EXCEPT ![ridx] = rbuf] /\ UNCHANGED <<freed, wbuf>>
    BY <1>4 DEF RPut, wrVars
  <2>2. cell[ridx] = Null /\ rbuf # Null
    BY <1>h, <2>1 DEF ReaderHas
  <2> QED  BY <1>0, <2>1, <2>2 DEF OneOwner, Gone
<1>5. CASE RTake
  <2>1. /\ rstep = "take" /\ rstep' # "gone" /\ rbuf' = cell[rmid]
        /\ cell' = [cell EXCEPT ![rmid] = Null] /\ UNCHANGED <<freed, wbuf>>
    BY <1>5 DEF RTake, wrVars
  <2>2. rbuf = Null
    BY <1>h, <2>1, SMTT(30) DEF ReaderHas
  <2> QED  BY <1>0, <2>1, <2>2 DEF OneOwner, Gone
<1>6. CASE KeepBuffer
  <2>1. /\ rstep = "idle" /\ rstep' = "idle" /\ rbuf # Null /\ rbuf' = Null
        /\ freed' = freed \cup {rbuf} /\ UNCHANGED <<cell, wbuf>>
    BY <1>6 DEF KeepBuffer, tShared, wrVars
  <2> QED  BY <1>0, <2>1 DEF OneOwner, Gone
<1>7. CASE DropReader
  <2>1. /\ rstep' = "gone" /\ rbuf' = Null /\ UNCHANGED <<wstep, wbuf>>
    BY <1>7 DEF DropReader, wrVars, rdVars
  <2>2. CASE wstep = "gone"
    <3>1. /\ \A i \in Slots : cell'[i] = Null
          /\ \A b : b \in freed' <=> b \in freed \/ (b # Null /\ (b = rbuf \/ \E i \in Slots : cell[i] = b))
      BY <1>7, <2>2 DEF DropReader, InSlots
    <3>2. wbuf = Null /\ \A b \in Buffers : b \in freed \/ b \in {wbuf, rbuf} \/ \E i \in Slots : cell[i] = b
      BY <1>0, <1>h, <2>2 DEF OneOwner, WriterHas, ReaderHas
    <3>3. \A b : b \in freed' <=> b \in Buffers
      BY <1>0, <3>1, <3>2
    <3>4. freed' = Buffers
      BY <3>3, Zenon
    <3> QED  BY <2>1, <3>1, <3>2, <3>4, Zenon DEF OneOwner, Gone
  <2>3. CASE wstep # "gone"
    <3>1. cell' = cell /\ \A b : b \in freed' <=> b \in freed \/ (b # Null /\ b = rbuf)
      BY <1>7, <2>3 DEF DropReader
    <3> QED  BY <1>0, <2>1, <2>3, <3>1 DEF OneOwner, Gone
  <2> QED  BY <2>2, <2>3
<1>8. CASE UNCHANGED <<cell, wbuf, rbuf, freed>> /\ (Gone' => Gone)
  BY <1>0, <1>8, Zenon DEF OneOwner
<1>9. ASSUME \/ WriterElsewhere \/ WriterEnters \/ (\E m \in {"sync", "fast"} : StartPublish(m))
             \/ WLoad \/ WLen \/ WRotate \/ WGen
             \/ ReaderElsewhere \/ ReaderEnters \/ RGen \/ RLoad \/ RRotate \/ RLen \/ RCommit
      PROVE  UNCHANGED <<cell, wbuf, rbuf, freed>> /\ (Gone' => Gone)
  BY ONLY <1>9, Zenon DEF WriterElsewhere, WriterEnters, StartPublish, WLoad, WLen, WRotate, WGen,
                   ReaderElsewhere, ReaderEnters, RGen, RLoad, RRotate, RLen, RCommit,
                   tShared, wrVars, rdVars, Gone
<1> QED
  BY ONLY <1>1, <1>2, <1>3, <1>4, <1>5, <1>6, <1>7, <1>8, <1>9, <1>0, TSteps, [TNext]_tVars, ZenonT(40)

\* The slots hold what the invariant says: the buffer of each side, and the middle.
LEMMA StepKeepsHas ==
  ASSUME TInv, [TNext]_tVars
  PROVE  WriterHas' /\ ReaderHas' /\ MiddleHas'
<1>0. TTypeOK
  BY DEF TInv
<1>i. /\ Turns /\ Indices /\ WriterHas /\ ReaderHas /\ MiddleHas
      /\ NextGen(lastRead) # lastRead
      /\ cell \in [Slots -> Buffers \cup {Null}]
      /\ widx \in Slots /\ ridx \in Slots /\ midx \in Slots
  BY NextGenMoves, SMTT(30) DEF TInv, TTypeOK
<1> USE DEF Turns, Indices, WriterHas, ReaderHas, MiddleHas, WriterIn, ReaderIn, Away,
            Unread, Gone, tShared, wrVars, rdVars
<1>1. CASE WriterElsewhere
  BY <1>i, <1>1, SMTT(30) DEF WriterElsewhere
<1>2. CASE WriterEnters
  BY <1>i, <1>2, SMTT(30) DEF WriterEnters
<1>3. CASE \E m \in {"sync", "fast"} : StartPublish(m)
  BY <1>i, <1>3, SMTT(30) DEF StartPublish
<1>4. CASE WLoad
  BY <1>i, <1>4, SMTT(30) DEF WLoad
<1>5. CASE WPut
  BY <1>i, <1>5, SMTT(30) DEF WPut
<1>6. CASE WLen
  BY <1>i, <1>6, SMTT(30) DEF WLen
<1>7. CASE WRotate
  BY <1>i, <1>7, SMTT(30) DEF WRotate
<1>8. CASE WGen
  BY <1>i, <1>8, SMTT(30) DEF WGen
<1>9. CASE WTake
  BY <1>i, <1>9, SMTT(30) DEF WTake
<1>10. CASE DropWriter
  <2>1. /\ wstep \in {"idle", "panicked"} /\ wstep' = "gone" /\ wbuf' = Null
        /\ cell' = IF rstep = "gone" THEN [i \in Slots |-> Null] ELSE cell
        /\ UNCHANGED <<widx, ridx, midx, gen, lastRead, short, rstep, rbuf>>
    BY <1>10, SMTT(30) DEF DropWriter
  <2> QED  BY <1>i, <2>1
<1>11. CASE ReaderElsewhere
  BY <1>i, <1>11, SMTT(30) DEF ReaderElsewhere
<1>12. CASE ReaderEnters
  BY <1>i, <1>12 DEF ReaderEnters
<1>13. CASE KeepBuffer
  BY <1>i, <1>13, SMTT(30) DEF KeepBuffer
<1>14. CASE RGen
  BY <1>i, <1>14, SMTT(30) DEF RGen
<1>15. CASE RLoad
  BY <1>i, <1>15, SMTT(30) DEF RLoad
<1>16. CASE RPut
  BY <1>i, <1>16, SMTT(30) DEF RPut
<1>17. CASE RRotate
  BY <1>i, <1>17, SMTT(30) DEF RRotate
<1>18. CASE RTake
  BY <1>i, <1>18, SMTT(30) DEF RTake
<1>19. CASE RLen
  BY <1>i, <1>19 DEF RLen
<1>20. CASE RCommit
  BY <1>i, <1>20 DEF RCommit
<1>21. CASE DropReader
  <2>1. /\ rstep \in {"idle", "panicked"} /\ rstep' = "gone" /\ rbuf' = Null
        /\ cell' = IF wstep = "gone" THEN [i \in Slots |-> Null] ELSE cell
        /\ UNCHANGED <<widx, ridx, midx, gen, lastRead, short, wstep, wbuf>>
    BY <1>21 DEF DropReader
  <2> QED  BY <1>i, <2>1
<1> QED
  BY ONLY <1>1, <1>2, <1>3, <1>4, <1>5, <1>6, <1>7, <1>8, <1>9, <1>10, <1>11, <1>12,
     <1>13, <1>14, <1>15, <1>16, <1>17, <1>18, <1>19, <1>20, <1>21, <1>0, TSteps,
     [TNext]_tVars, ZenonT(40)

\* The stamp and the length of a publication stay with it.
LEMMA StepKeepsContents ==
  ASSUME TInv, [TNext]_tVars
  PROVE  Contents'
<1>0. TTypeOK
  BY DEF TInv
<1>i. Contents /\ Turns /\ Indices /\ WriterHas /\ ReaderHas /\ MiddleHas
  BY DEF TInv
<1>t. /\ cell \in [Slots -> Buffers \cup {Null}] /\ lens \in [Slots -> 0 .. Generations]
      /\ data \in [Buffers -> 0 .. Generations]
      /\ widx \in Slots /\ ridx \in Slots /\ midx \in Slots
      /\ wbuf \in Buffers \cup {Null} /\ rbuf \in Buffers \cup {Null}
  BY DEF TInv, TTypeOK
<1>o. /\ \A i \in Slots : cell[i] # Null => cell[i] \notin {wbuf, rbuf}
      /\ wbuf # Null => wbuf # rbuf
  BY DEF TInv, OneOwner
<1> USE DEF Contents, Is, Unread, Gone, tShared, wrVars, rdVars
<1>1. CASE WriterElsewhere
  BY <1>i, <1>1, ZenonT(40) DEF WriterElsewhere
<1>2. CASE WriterEnters
  BY <1>i, <1>2, Zenon DEF WriterEnters
<1>3. CASE \E m \in {"sync", "fast"} : StartPublish(m)
  <2>1. /\ wstep = "idle" /\ wstep' = "check" /\ wbuf # Null
        /\ data' = [data EXCEPT ![wbuf] = Stamp(NextGen(gen))] /\ wlen' = Stamp(NextGen(gen))
        /\ UNCHANGED <<tShared, wbuf, rdVars>>
    BY <1>3, Zenon DEF StartPublish
  <2>2. wbuf \in Buffers /\ data'[wbuf] = Stamp(NextGen(gen))
    BY <1>t, <2>1
  <2>3. \A b \in Buffers : b # wbuf => data'[b] = data[b]
    BY <1>t, <2>1
  <2>4. Unread /\ ~Gone => data'[cell[midx]] = data[cell[midx]]
    <3>1. Unread /\ ~Gone => cell[midx] # Null
      BY <1>i, Zenon DEF MiddleHas
    <3> QED  BY <1>t, <1>o, <2>3, <3>1, Zenon
  <2>5. rstep = "take" => data'[cell[ridx]] = data[cell[ridx]]
    <3>1. rstep = "take" => cell[ridx] # Null
      BY <1>i, Zenon DEF ReaderHas
    <3> QED  BY <1>t, <1>o, <2>3, <3>1, Zenon
  <2>6. rstep \in {"len", "commit"} => data'[rbuf] = data[rbuf]
    <3>1. rstep \in {"len", "commit"} => rbuf # Null
      BY <1>i, Zenon DEF ReaderHas
    <3> QED  BY <1>t, <1>o, <2>1, <2>3, <3>1, Zenon
  <2> QED  BY <1>i, <2>1, <2>2, <2>4, <2>5, <2>6, Zenon
<1>4. CASE WLoad
  BY <1>i, <1>4, ZenonT(40) DEF WLoad
<1>5. CASE WPut
  BY <1>i, <1>t, <1>5, SMTT(30) DEF WPut, Indices
<1>6. CASE WLen
  BY <1>i, <1>t, <1>6 DEF WLen, Indices
<1>7. CASE WRotate
  BY <1>i, <1>7, Zenon DEF WRotate, Indices
<1>8. CASE WGen
  BY <1>i, <1>8, ZenonT(40) DEF WGen
<1>9. CASE WTake
  BY <1>i, <1>t, <1>9 DEF WTake, Indices
<1>10. CASE DropWriter
  <2>1. /\ wstep \in {"idle", "panicked"} /\ wstep' = "gone"
        /\ rstep # "gone" => cell' = cell
        /\ UNCHANGED <<lens, widx, ridx, midx, gen, lastRead, data, rstep, rbuf, rlen, rgen>>
    BY <1>10 DEF DropWriter
  <2> QED  BY <1>i, <2>1, Zenon
<1>11. CASE ReaderElsewhere
  BY <1>i, <1>11, ZenonT(40) DEF ReaderElsewhere
<1>12. CASE ReaderEnters
  BY <1>i, <1>12, Zenon DEF ReaderEnters
<1>13. CASE KeepBuffer
  BY <1>i, <1>t, <1>o, <1>13, ZenonT(40) DEF KeepBuffer, MiddleHas, WriterHas, Away
<1>14. CASE RGen
  BY <1>i, <1>14, Zenon DEF RGen
<1>15. CASE RLoad
  BY <1>i, <1>15, ZenonT(40) DEF RLoad
<1>16. CASE RPut
  BY <1>i, <1>t, <1>o, <1>16 DEF RPut, Indices, MiddleHas, WriterHas, Away
<1>17. CASE RRotate
  BY <1>i, <1>17, ZenonT(40) DEF RRotate, Turns, Indices, WriterIn, ReaderIn
<1>18. CASE RTake
  BY <1>i, <1>t, <1>18 DEF RTake, Indices, ReaderHas
<1>19. CASE RLen
  BY <1>i, <1>19, Zenon DEF RLen, Indices
<1>20. CASE RCommit
  BY <1>i, <1>20, Zenon DEF RCommit, Turns, ReaderIn
<1>21. CASE DropReader
  <2>1. /\ rstep \in {"idle", "panicked"} /\ rstep' = "gone"
        /\ wstep # "gone" => cell' = cell
        /\ UNCHANGED <<lens, widx, ridx, midx, gen, lastRead, data, wstep, wbuf, wlen, rgen>>
    BY <1>21 DEF DropReader
  <2> QED  BY <1>i, <2>1, Zenon
<1> QED
  BY ONLY <1>1, <1>2, <1>3, <1>4, <1>5, <1>6, <1>7, <1>8, <1>9, <1>10, <1>11, <1>12,
     <1>13, <1>14, <1>15, <1>16, <1>17, <1>18, <1>19, <1>20, <1>21, <1>0, TSteps,
     [TNext]_tVars, ZenonT(40)

\* Every step of either side keeps the invariant.
LEMMA StepKeepsTInv ==
  ASSUME TInv, [TNext]_tVars
  PROVE  TInv'
BY StepKeepsTypes, StepKeepsTurns, StepKeepsOwners, StepKeepsHas, StepKeepsContents DEF TInv

\* The structure and the handles as triple_buffer makes them.
LEMMA TInitTInv == TInit => TInv
<1> SUFFICES ASSUME TInit PROVE TInv
  OBVIOUS
<1> USE DEF TInit, NewBuffer, NewHandles, Slots, Buffers, Null
<1>1. TTypeOK
  <2>1. NewSlot({R}) \in SlotType({W}, {R}) /\ NewSlot({W}) \in SlotType({R}, {W})
    BY DEF NewSlot, SlotType, SigPhase
  <2>2. 0 \in Gen /\ 0 \in 0 .. Generations
    BY GenerationsAssumption DEF Gen
  <2>3. cell \in [Slots -> Buffers \cup {Null}] /\ lens \in [Slots -> 0 .. Generations]
    BY <2>2
  <2>4. data \in [Buffers -> 0 .. Generations]
    BY <2>2
  <2>5. {widx, ridx, midx, wmid, rmid} \subseteq Slots /\ {gen, lastRead, rgen} \subseteq Gen
    BY <2>2
  <2> QED  BY <2>1, <2>2, <2>3, <2>4, <2>5, ZenonT(40) DEF TTypeOK, Attempt
<1>2. Turns /\ Indices
  BY DEF Turns, Indices, WriterIn, ReaderIn
<1>3. OneOwner
  BY DEF OneOwner, Gone
<1>4. WriterHas /\ ReaderHas /\ MiddleHas /\ Contents
  BY DEF WriterHas, ReaderHas, MiddleHas, Contents, Away, Unread, Gone
<1> QED  BY <1>1, <1>2, <1>3, <1>4 DEF TInv

\* One owner is one place.
LEMMA OwnerIsPlace ==
  ASSUME TTypeOK, OneOwner, NEW b \in Buffers
  PROVE  \E p \in 0 .. 5 : Places(b) = {p}
<1>0. b # Null
  BY DEF Buffers, Null
<1>1. CASE b \in freed
  <2>1. Places(b) = {5}
    BY <1>0, <1>1 DEF Places, OneOwner, TTypeOK, Slots
  <2> QED  BY ONLY <2>1, SMTT(30)
<1>2. CASE b = wbuf
  <2>1. Places(b) = {3}
    BY <1>0, <1>2 DEF Places, OneOwner, TTypeOK, Slots
  <2> QED  BY ONLY <2>1, SMTT(30)
<1>3. CASE b = rbuf
  <2>1. Places(b) = {4}
    BY <1>0, <1>3 DEF Places, OneOwner, TTypeOK, Slots
  <2> QED  BY ONLY <2>1, SMTT(30)
<1>4. ASSUME NEW i \in Slots, cell[i] = b PROVE \E p \in 0 .. 5 : Places(b) = {p}
  <2>1. Places(b) = {i}
    BY <1>0, <1>4 DEF Places, OneOwner, TTypeOK, Slots
  <2> QED  BY ONLY <1>4, <2>1, SMTT(30) DEF Slots
<1> QED  BY <1>1, <1>2, <1>3, <1>4, Zenon DEF OneOwner

\* What the invariant says to the callers.
LEMMA TInvImplies == TInv => ThreeBuffers /\ TakesEveryPublication
<1> SUFFICES ASSUME TInv PROVE ThreeBuffers /\ TakesEveryPublication
  BY SMTT(30)
<1>1. ThreeBuffers
  BY OwnerIsPlace, SMTT(30) DEF TInv, ThreeBuffers, Turns, OneOwner, WriterHas, Gone
<1>2. TakesEveryPublication
  BY NextGenMoves DEF TInv, TTypeOK, TakesEveryPublication, Turns, ReaderIn, Contents, Is
<1> QED  BY <1>1, <1>2

\* Every buffer has one owner at every moment, the reader never finds the middle
\* empty and the writer only after the reader kept a buffer, and dropping both
\* handles drops all three buffers: whatever is cancelled, for every width of the
\* generation counter.
THEOREM BuffersCirculate == TSpec => []ThreeBuffers
BY TInitTInv, StepKeepsTInv, TInvImplies, PTL DEF TSpec

\* The reader takes each publication once, in order, with its own content and
\* length, although the counters wrap and the lengths are plain stores.
THEOREM NoPublicationLost == TSpec => []TakesEveryPublication
BY TInitTInv, StepKeepsTInv, TInvImplies, PTL DEF TSpec
=============================================================================
