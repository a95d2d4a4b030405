---------------------------- MODULE TripleBuffer ----------------------------
(***************************************************************************)
(* src/site_d/triplebuffer.rs: three buffers that circulate between a      *)
(* writer, a reader and three slots, one access to the shared state per    *)
(* step, with the two WaiterSlots the futures park on.                     *)
(*                                                                         *)
(* The n-th publication fills its buffer with the stamp n and gives it the *)
(* length n, so that mixing up buffers or lengths shows; generations, and  *)
(* with them the stamps, wrap at Generations.                              *)
(***************************************************************************)
EXTENDS WaiterSlot

CONSTANTS Generations   \* where the wrapping generation counter wraps

ASSUME GenerationsAssumption == Generations \in Nat \ {0, 1}

VARIABLES
  cell, lens,          \* buffers and lens: the content of the three slots
  widx, ridx, midx,    \* writer_idx, reader_idx, middle_idx
  gen, lastRead,       \* generation, last_read_gen
  wslot, rslot,        \* writer_slot and reader_slot
  data,                \* the stamp each buffer was last filled with
  freed,               \* the buffers that were dropped
  short,               \* the reader has kept a buffer back
  wstep, wmode, wmid,    \* the writer: where it is, in which attempt, its middle index
  wbuf, wlen, wheld,   \* its buffer and that one's length; whether the handle holds it
  rstep, rmode, rmid,    \* the reader, likewise
  rgen,                \* the generation it is taking
  rbuf, rlen, rheld

tShared == <<cell, lens, widx, ridx, midx, gen, lastRead>>
wrVars == <<wstep, wmode, wmid, wbuf, wlen, wheld>>
rdVars == <<rstep, rmode, rmid, rgen, rbuf, rlen, rheld>>
tVars == <<cell, lens, widx, ridx, midx, gen, lastRead, wslot, rslot, data, freed, short,
           wstep, wmode, wmid, wbuf, wlen, wheld, rstep, rmode, rmid, rgen, rbuf, rlen, rheld>>

W == "writer"
R == "reader"
Buffers == {"b0", "b1", "b2"}
Null == "null"
Slots == 0 .. 2
Gen == 0 .. Generations - 1
NextGen(g) == (g + 1) % Generations
Stamp(g) == g + 1   \* 0 is the length of a fresh buffer

\* "sync" is try_publish or try_next, "fast" and "slow" are the attempts of a poll
\* before and after arm().
Attempt == {"sync", "fast", "slow"}

TTypeOK ==
  /\ cell \in [Slots -> Buffers \cup {Null}] /\ lens \in [Slots -> 0 .. Generations]
  /\ {widx, ridx, midx, wmid, rmid} \subseteq Slots
  /\ {gen, lastRead, rgen} \subseteq Gen
  /\ wslot \in SlotType({W}, {R}) /\ rslot \in SlotType({R}, {W})
  /\ data \in [Buffers -> 0 .. Generations]
  /\ freed \subseteq Buffers /\ {short, wheld, rheld} \subseteq BOOLEAN
  /\ wstep \in {"idle", "check", "load", "put", "len", "rotate", "gen", "take", "signal",
              "return", "register", "arm", "disarm", "parked", "panicked", "gone"}
  /\ rstep \in {"idle", "check", "gen", "load", "put", "rotate", "take", "len", "commit",
              "signal", "return", "register", "arm", "disarm", "parked", "panicked", "gone"}
  /\ wmode \in Attempt /\ rmode \in Attempt
  /\ {wbuf, rbuf} \subseteq Buffers \cup {Null} /\ {wlen, rlen} \subseteq 0 .. Generations

\* TripleBuffer::new
NewBuffer ==
  /\ cell = [i \in Slots |-> IF i = 0 THEN Null ELSE IF i = 1 THEN "b1" ELSE "b2"]
  /\ lens = [i \in Slots |-> 0]
  /\ widx = 0 /\ ridx = 1 /\ midx = 2 /\ gen = 0 /\ lastRead = 0
  /\ wslot = NewSlot({R}) /\ rslot = NewSlot({W})

\* triple_buffer, triple_buffer_aligned: the two handles, and a buffer to begin with.
NewHandles ==
  /\ wstep = "idle" /\ wmode = "sync" /\ wmid = 0
  /\ wbuf = "b0" /\ wlen = 0 /\ wheld = FALSE
  /\ rstep = "idle" /\ rmode = "sync" /\ rmid = 0 /\ rgen = 0
  /\ rbuf = Null /\ rlen = 0 /\ rheld = FALSE

TInit ==
  /\ NewBuffer /\ NewHandles
  /\ data = [b \in Buffers |-> 0] /\ freed = {} /\ short = FALSE

-----------------------------------------------------------------------------
(* Writer. *)

\* The caller has filled the buffer; publish parks it on the handle, not in the future.
StartPublish(m) ==
  /\ wstep = "idle" /\ wbuf # Null /\ ~wheld
  /\ data' = [data EXCEPT ![wbuf] = Stamp(NextGen(gen))]
  /\ wlen' = Stamp(NextGen(gen))
  /\ wheld' = (m = "fast") /\ wmode' = m /\ wstep' = "check"
  /\ UNCHANGED <<tShared, wslot, rslot, freed, short, wmid, wbuf, rdVars>>

Publish == StartPublish("fast")
TryPublish == StartPublish("sync")

\* A slip: the buffer goes down with the cancelled future.
CancelPublish_Lost ==
  /\ wstep = "parked" /\ wstep' = "idle" /\ wmode' = "sync"
  /\ wbuf' = Null /\ wheld' = FALSE
  /\ UNCHANGED <<tShared, wslot, rslot, data, freed, short, wmid, wlen, rdVars>>

\* The pending future is dropped: the handle keeps the buffer, the slot stays armed.
CancelPublish ==
  /\ wstep = "parked" /\ wstep' = "idle" /\ wmode' = "sync"
  /\ UNCHANGED <<tShared, wslot, rslot, data, freed, short, wmid, wbuf, wlen, wheld, rdVars>>

TakeHeldW ==
  /\ wstep = "idle" /\ wheld /\ wheld' = FALSE
  /\ UNCHANGED <<tShared, wslot, rslot, data, freed, short, wstep, wmode, wmid, wbuf, wlen, rdVars>>

\* A slip: the middle is taken for free one generation too early.
MiddleFree_Behind == gen = lastRead \/ gen = NextGen(lastRead)

\* middle_free
MiddleFree == gen = lastRead

\* try_publish_now: on a failed attempt the buffer goes back to where it was.
WCheck ==
  /\ wstep = "check"
  /\ wstep' = CASE MiddleFree -> "load"
              [] ~MiddleFree /\ wmode = "sync" -> "idle"
              [] ~MiddleFree /\ wmode = "fast" -> "register"
              [] ~MiddleFree /\ wmode = "slow" -> "parked"
  /\ UNCHANGED <<tShared, wslot, rslot, data, freed, short, wmode, wmid, wbuf, wlen, wheld, rdVars>>

\* writer_publish_now: the middle index, the completed buffer into the writer's
\* slot, its length, the rotation, the generation, and a buffer out of what was
\* the middle slot.
WLoad ==
  /\ wstep = "load" /\ wmid' = midx /\ wstep' = "put"
  /\ UNCHANGED <<tShared, wslot, rslot, data, freed, short, wmode, wbuf, wlen, wheld, rdVars>>

WPut ==
  /\ wstep = "put" /\ wstep' = "len"
  /\ cell' = [cell EXCEPT ![widx] = wbuf] /\ wbuf' = Null /\ wheld' = FALSE
  /\ UNCHANGED <<lens, widx, ridx, midx, gen, lastRead, wslot, rslot, data, freed, short,
                 wmode, wmid, wlen, rdVars>>

WLen ==
  /\ wstep = "len" /\ wstep' = "rotate"
  /\ lens' = [lens EXCEPT ![widx] = wlen] /\ wlen' = 0
  /\ UNCHANGED <<cell, widx, ridx, midx, gen, lastRead, wslot, rslot, data, freed, short,
                 wmode, wmid, wbuf, wheld, rdVars>>

WRotate ==
  /\ wstep = "rotate" /\ wstep' = "gen"
  /\ widx' = wmid /\ midx' = widx
  /\ UNCHANGED <<cell, lens, ridx, gen, lastRead, wslot, rslot, data, freed, short,
                 wmode, wmid, wbuf, wlen, wheld, rdVars>>

WGen ==
  /\ wstep = "gen" /\ wstep' = "take" /\ gen' = NextGen(gen)
  /\ UNCHANGED <<cell, lens, widx, ridx, midx, lastRead, wslot, rslot, data, freed, short,
                 wmode, wmid, wbuf, wlen, wheld, rdVars>>

WTake ==
  /\ wstep = "take"
  /\ wbuf' = cell[wmid] /\ cell' = [cell EXCEPT ![wmid] = Null]
  /\ wmid' = 0 /\ wstep' = IF cell[wmid] = Null THEN "panicked" ELSE "signal"
  /\ UNCHANGED <<lens, widx, ridx, midx, gen, lastRead, wslot, rslot, data, freed, short,
                 wmode, wlen, wheld, rdVars>>

WSignal ==
  /\ wstep = "signal" /\ rslot' = SignalLoad(rslot, W) /\ wstep' = "return"
  /\ UNCHANGED <<tShared, wslot, data, freed, short, wmode, wmid, wbuf, wlen, wheld, rdVars>>

WSignalOn ==
  /\ ~Quiet(rslot, W) /\ rslot' = SignalStep(rslot, W)
  /\ UNCHANGED <<tShared, wslot, data, freed, short, wrVars, rdVars>>

WReturn ==
  /\ wstep = "return" /\ Quiet(rslot, W)
  /\ wstep' = (IF wmode = "slow" THEN "disarm" ELSE "idle") /\ wmode' = "sync"
  /\ UNCHANGED <<tShared, wslot, rslot, data, freed, short, wmid, wbuf, wlen, wheld, rdVars>>

\* WriterPublish::poll: arm() the slot, then try again.
WRegister ==
  /\ wstep = "register" /\ wslot' \in RegisterWaker(wslot, W) /\ wstep' = "arm"
  /\ UNCHANGED <<tShared, rslot, data, freed, short, wmode, wmid, wbuf, wlen, wheld, rdVars>>

WArm ==
  /\ wstep = "arm" /\ wslot' = SetArmed(wslot) /\ wstep' = "check" /\ wmode' = "slow"
  /\ UNCHANGED <<tShared, rslot, data, freed, short, wmid, wbuf, wlen, wheld, rdVars>>

WDisarm ==
  /\ wstep = "disarm" /\ wslot' = Disarm(wslot) /\ wstep' = "idle"
  /\ UNCHANGED <<tShared, rslot, data, freed, short, wmode, wmid, wbuf, wlen, wheld, rdVars>>

WPoll ==
  /\ wstep = "parked" /\ wslot' = Polled(wslot, W) /\ wstep' = "check" /\ wmode' = "fast"
  /\ UNCHANGED <<tShared, rslot, data, freed, short, wmid, wbuf, wlen, wheld, rdVars>>

WriterStep ==
  \/ WCheck \/ WLoad \/ WPut \/ WLen \/ WRotate \/ WGen \/ WTake \/ WSignal
  \/ WSignalOn \/ WReturn \/ WRegister \/ WArm \/ WDisarm

-----------------------------------------------------------------------------
(* Reader. *)

\* The caller passes its previous buffer, if it has one.  After a cancelled call the
\* handle still has it; try_next then needs take_held_buffer.
StartNext(m) ==
  /\ rstep = "idle" /\ (m = "sync" => ~rheld)
  /\ rheld' = (m = "fast" /\ rbuf # Null) /\ rlen' = 0 /\ rmode' = m /\ rstep' = "check"
  /\ UNCHANGED <<tShared, wslot, rslot, data, freed, short, wrVars, rmid, rgen, rbuf>>

NextBuf == StartNext("fast")
TryNext == StartNext("sync")

CancelNext ==
  /\ rstep = "parked" /\ rstep' = "idle" /\ rmode' = "sync"
  /\ UNCHANGED <<tShared, wslot, rslot, data, freed, short, wrVars, rmid, rgen, rbuf, rlen, rheld>>

TakeHeldR ==
  /\ rstep = "idle" /\ rheld /\ rheld' = FALSE
  /\ UNCHANGED <<tShared, wslot, rslot, data, freed, short, wrVars, rstep, rmode, rmid, rgen, rbuf, rlen>>

\* The caller does not give its buffer back: "the pool drains".  Once is enough
\* for the next publication but one to find the middle empty.
KeepBuffer ==
  /\ rstep = "idle" /\ rbuf # Null /\ ~rheld /\ ~short
  /\ freed' = freed \cup {rbuf} /\ short' = TRUE /\ rbuf' = Null /\ rlen' = 0
  /\ data' = [data EXCEPT ![rbuf] = 0]
  /\ UNCHANGED <<tShared, wslot, rslot, wrVars, rstep, rmode, rmid, rgen, rheld>>

\* has_unread
HasUnread == gen # lastRead

\* try_take_now
RCheck ==
  /\ rstep = "check"
  /\ rstep' = CASE HasUnread -> "gen"
              [] ~HasUnread /\ rmode = "sync" -> "idle"
              [] ~HasUnread /\ rmode = "fast" -> "register"
              [] ~HasUnread /\ rmode = "slow" -> "parked"
  /\ UNCHANGED <<tShared, wslot, rslot, data, freed, short, wrVars, rmode, rmid, rgen, rbuf, rlen, rheld>>

\* reader_take_now: the generation, the middle index, the previous buffer into the
\* reader's slot, the rotation, the published buffer out of what was the middle
\* slot, its length, and only then the commit.
RGen ==
  /\ rstep = "gen" /\ rgen' = gen /\ rstep' = "load"
  /\ UNCHANGED <<tShared, wslot, rslot, data, freed, short, wrVars, rmode, rmid, rbuf, rlen, rheld>>

RLoad ==
  /\ rstep = "load" /\ rmid' = midx /\ rstep' = IF rbuf = Null THEN "rotate" ELSE "put"
  /\ UNCHANGED <<tShared, wslot, rslot, data, freed, short, wrVars, rmode, rgen, rbuf, rlen, rheld>>

RPut ==
  /\ rstep = "put" /\ rstep' = "rotate"
  /\ cell' = [cell EXCEPT ![ridx] = rbuf] /\ lens' = [lens EXCEPT ![ridx] = 0]
  /\ data' = [data EXCEPT ![rbuf] = 0]   \* what it held no longer matters
  /\ rbuf' = Null /\ rheld' = FALSE
  /\ UNCHANGED <<widx, ridx, midx, gen, lastRead, wslot, rslot, freed, short, wrVars,
                 rmode, rmid, rgen, rlen>>

RRotate ==
  /\ rstep = "rotate" /\ rstep' = "take" /\ ridx' = rmid /\ midx' = ridx
  /\ UNCHANGED <<cell, lens, widx, gen, lastRead, wslot, rslot, data, freed, short, wrVars,
                 rmode, rmid, rgen, rbuf, rlen, rheld>>

RTake ==
  /\ rstep = "take"
  /\ rbuf' = cell[rmid] /\ cell' = [cell EXCEPT ![rmid] = Null]
  /\ rstep' = IF cell[rmid] = Null THEN "panicked" ELSE "len"
  /\ UNCHANGED <<lens, widx, ridx, midx, gen, lastRead, wslot, rslot, data, freed, short, wrVars,
                 rmode, rmid, rgen, rlen, rheld>>

RLen ==
  /\ rstep = "len" /\ rlen' = lens[rmid] /\ rmid' = 0 /\ rstep' = "commit"
  /\ UNCHANGED <<tShared, wslot, rslot, data, freed, short, wrVars, rmode, rgen, rbuf, rheld>>

RCommit ==
  /\ rstep = "commit" /\ lastRead' = rgen /\ rgen' = 0 /\ rstep' = "signal"
  /\ UNCHANGED <<cell, lens, widx, ridx, midx, gen, wslot, rslot, data, freed, short, wrVars,
                 rmode, rmid, rbuf, rlen, rheld>>

RSignal ==
  /\ rstep = "signal" /\ wslot' = SignalLoad(wslot, R) /\ rstep' = "return"
  /\ UNCHANGED <<tShared, rslot, data, freed, short, wrVars, rmode, rmid, rgen, rbuf, rlen, rheld>>

RSignalOn ==
  /\ ~Quiet(wslot, R) /\ wslot' = SignalStep(wslot, R)
  /\ UNCHANGED <<tShared, rslot, data, freed, short, wrVars, rdVars>>

RReturn ==
  /\ rstep = "return" /\ Quiet(wslot, R)
  /\ rstep' = (IF rmode = "slow" THEN "disarm" ELSE "idle") /\ rmode' = "sync"
  /\ UNCHANGED <<tShared, wslot, rslot, data, freed, short, wrVars, rmid, rgen, rbuf, rlen, rheld>>

\* ReaderNext::poll: arm() the slot, then try again.
RRegister ==
  /\ rstep = "register" /\ rslot' \in RegisterWaker(rslot, R) /\ rstep' = "arm"
  /\ UNCHANGED <<tShared, wslot, data, freed, short, wrVars, rmode, rmid, rgen, rbuf, rlen, rheld>>

\* A slip: the reader parks as soon as it is armed.
RArm_NoRecheck ==
  /\ rstep = "arm" /\ rslot' = SetArmed(rslot) /\ rstep' = "parked" /\ rmode' = "slow"
  /\ UNCHANGED <<tShared, wslot, data, freed, short, wrVars, rmid, rgen, rbuf, rlen, rheld>>

RArm ==
  /\ rstep = "arm" /\ rslot' = SetArmed(rslot) /\ rstep' = "check" /\ rmode' = "slow"
  /\ UNCHANGED <<tShared, wslot, data, freed, short, wrVars, rmid, rgen, rbuf, rlen, rheld>>

RDisarm ==
  /\ rstep = "disarm" /\ rslot' = Disarm(rslot) /\ rstep' = "idle"
  /\ UNCHANGED <<tShared, wslot, data, freed, short, wrVars, rmode, rmid, rgen, rbuf, rlen, rheld>>

RPoll ==
  /\ rstep = "parked" /\ rslot' = Polled(rslot, R) /\ rstep' = "check" /\ rmode' = "fast"
  /\ UNCHANGED <<tShared, wslot, data, freed, short, wrVars, rmid, rgen, rbuf, rlen, rheld>>

ReaderStep ==
  \/ RCheck \/ RGen \/ RLoad \/ RPut \/ RRotate \/ RTake \/ RLen \/ RCommit
  \/ RSignal \/ RSignalOn \/ RReturn \/ RRegister \/ RArm \/ RDisarm

-----------------------------------------------------------------------------
(* The handles and the buffers their callers still have are dropped; the last    *)
(* handle takes the structure, and the buffers in its slots, with it.            *)

InSlots == {cell[i] : i \in Slots} \ {Null}

DropWriter ==
  /\ wstep \in {"idle", "panicked"} /\ wstep' = "gone"
  /\ freed' = freed \cup ({wbuf} \ {Null}) \cup (IF rstep = "gone" THEN InSlots ELSE {})
  /\ cell' = IF rstep = "gone" THEN [i \in Slots |-> Null] ELSE cell
  /\ wbuf' = Null /\ wlen' = 0 /\ wheld' = FALSE
  /\ UNCHANGED <<lens, widx, ridx, midx, gen, lastRead, wslot, rslot, data, short,
                 wmode, wmid, rdVars>>

DropReader ==
  /\ rstep \in {"idle", "panicked"} /\ rstep' = "gone"
  /\ freed' = freed \cup ({rbuf} \ {Null}) \cup (IF wstep = "gone" THEN InSlots ELSE {})
  /\ cell' = IF wstep = "gone" THEN [i \in Slots |-> Null] ELSE cell
  /\ rbuf' = Null /\ rlen' = 0 /\ rheld' = FALSE
  /\ UNCHANGED <<lens, widx, ridx, midx, gen, lastRead, wslot, rslot, data, short,
                 wrVars, rmode, rmid, rgen>>

TNext ==
  \/ Publish \/ TryPublish \/ CancelPublish \/ TakeHeldW \/ WPoll \/ DropWriter \/ WriterStep
  \/ NextBuf \/ TryNext \/ CancelNext \/ TakeHeldR \/ KeepBuffer \/ RPoll \/ DropReader \/ ReaderStep

\* Threads finish the attempts they start and a woken task is polled; nobody has
\* to call, to cancel or to poll spuriously.
TFairness ==
  /\ WF_tVars(WriterStep) /\ WF_tVars(ReaderStep)
  /\ WF_tVars(W \in wslot.woken /\ WPoll) /\ WF_tVars(R \in rslot.woken /\ RPoll)

TSpec == TInit /\ [][TNext]_tVars

-----------------------------------------------------------------------------
(* Properties. *)

\* The places a buffer is in.
Places(b) ==
  {i \in Slots : cell[i] = b} \cup {p \in {3, 4, 5} :
     \/ p = 3 /\ wbuf = b
     \/ p = 4 /\ rbuf = b
     \/ p = 5 /\ b \in freed}

\* "exactly three buffers, and ownership circulates": every buffer has one owner at
\* every moment, cancelled calls and handle drops included, and the "empty-middle
\* invariant violation" panics happen only after the reader kept a buffer.
ThreeBuffers ==
  /\ TTypeOK
  /\ \A b \in Buffers : \E p \in 0 .. 5 : Places(b) = {p}
  /\ "panicked" \in {wstep, rstep} => short
  /\ (wstep = "gone" /\ rstep = "gone") => freed = Buffers

\* "never overwrites unread data": the buffer the reader is about to commit is the
\* one published right after the last it took, with the length published with it.
TakesEveryPublication ==
  rstep = "commit" =>
    /\ rgen = NextGen(lastRead)
    /\ data[rbuf] = Stamp(rgen) /\ rlen = Stamp(rgen)

\* A parked side that could go on does, unless the other side has panicked on the
\* way to its signal().
TripleParkedIsServed ==
  /\ (rstep = "parked" /\ gen # lastRead /\ ~short) ~> rstep # "parked"
  /\ (wstep = "parked" /\ gen = lastRead) ~> wstep # "parked"
=============================================================================
