------------------------------ MODULE BipBuffer ------------------------------
(***************************************************************************)
(* src/site_d/bipbuffer.rs: the byte buffer that hands out contiguous      *)
(* regions, one access to the shared state per step.  Four kinds of actor  *)
(* touch it: the producer, the consumer, and the holders of write and of   *)
(* read grants, which are Send and may be committed, released or dropped   *)
(* on another thread while their handle is already being polled again.  A  *)
(* holder that has handed its flag back still has signal() calls to make   *)
(* when the next grant is out; at most one holder a side is that far.      *)
(*                                                                         *)
(* Bytes are named by their position: `unread` lists the positions that    *)
(* were committed and not released, oldest first.                          *)
(***************************************************************************)
EXTENDS FlagSlot, Sequences

CONSTANTS Capacity,   \* cap
          Requests,   \* the sizes the producer asks for
          Overlap     \* both sides may be called while their own holders are not through

ASSUME BipAssumption ==
  Capacity \in Nat \ {0} /\ Requests \subseteq 0 .. Capacity /\ Overlap \in BOOLEAN

VARIABLES
  wr, rd, last,     \* write, read, last
  epoch,            \* epoch, modulo 4: one reset at most happens during a try_read
  wip, rip,         \* a write grant, a read grant is out
  space, avail,     \* the slots space and data, where reserve() and read() park
  unread,
  ppc, pmode, pn,   \* the producer: where it is, in which attempt, the n it wants
  wg, wtail,        \* the write grant, and the holder that has given its flag back
  cpc, cmode, cs,   \* the consumer, and the cursors it has loaded
  rg, rtail         \* the read grant, likewise

bShared == <<wr, rd, last, epoch, wip, rip>>
pVars == <<ppc, pmode, pn>>
wgVars == <<wg, wtail>>
cVars == <<cpc, cmode, cs>>
rgVars == <<rg, rtail>>
bVars == <<wr, rd, last, epoch, wip, rip, space, avail, unread,
           ppc, pmode, pn, wg, wtail, cpc, cmode, cs, rg, rtail>>

Offset == 0 .. Capacity
NoGrant == [pc |-> "none", start |-> 0, len |-> 0]
NoCursors == [e |-> 0, w |-> 0, r |-> 0, l |-> 0]
Bytes(start, n) == [k \in 1 .. n |-> start + k - 1]

\* "fast" and "slow" are the attempts of a poll before and after arm(); the first is
\* also all there is to a try_reserve or try_read.
BMode == {"fast", "slow"}

BTypeOK ==
  /\ {wr, rd, last, pn} \subseteq Offset /\ epoch \in 0 .. 3
  /\ {wip, rip} \subseteq BOOLEAN
  /\ {space, avail} \subseteq FlagType
  /\ unread \in Seq(0 .. Capacity - 1)
  /\ ppc \in {"idle", "try", "read0", "write0", "last", "even", "arm", "disarm", "parked"}
  /\ cpc \in {"idle", "try", "write", "read", "last", "again", "wrap", "signal",
              "take", "arm", "disarm", "parked"}
  /\ pmode \in BMode /\ cmode \in BMode
  /\ cs \in [e : 0 .. 3, w : Offset, r : Offset, l : Offset]
  /\ wg \in [pc : {"none", "held", "write", "wip"}, start : Offset, len : Offset]
  /\ rg \in [pc : {"none", "held", "rip"}, start : Offset, len : Offset]
  /\ wtail \in {"none", "space", "data", "drop"} /\ rtail \in {"none", "space", "data", "drop"}

\* bip_buffer, bip_buffer_aligned
BInit ==
  /\ wr = 0 /\ rd = 0 /\ last = Capacity /\ epoch = 0 /\ wip = FALSE /\ rip = FALSE
  /\ space = NewFlag /\ avail = NewFlag /\ unread = <<>>
  /\ ppc = "idle" /\ pmode = "fast" /\ pn = 0 /\ wg = NoGrant /\ wtail = "none"
  /\ cpc = "idle" /\ cmode = "fast" /\ cs = NoCursors /\ rg = NoGrant /\ rtail = "none"

-----------------------------------------------------------------------------
(* Producer. *)

\* A holder of a side is not through with its grant or with its signals.
WOut == wg # NoGrant \/ wtail # "none"
ROut == rg # NoGrant \/ rtail # "none"

\* try_reserve(n), or reserve(n) and its first poll.
Reserve(n) ==
  /\ ppc = "idle" /\ (Overlap \/ ~(WOut /\ ROut /\ cpc # "idle"))
  /\ ppc' = "try" /\ pn' = n /\ space' = FlagPolled(space)
  /\ UNCHANGED <<bShared, avail, unread, pmode, wgVars, cVars, rgVars>>

\* An attempt that finds no room: try_reserve returns, a poll goes on to park.
NoRoom ==
  /\ \/ pmode = "fast" /\ ppc' = "idle" /\ pn' = 0
     \/ pmode = "fast" /\ ppc' = "arm" /\ pn' = pn
     \/ pmode = "slow" /\ ppc' = "parked" /\ pn' = pn
  /\ UNCHANGED <<pmode, wip, wg>>

\* Where n contiguous bytes are free, given the cursors.
Starts(n, w, r) ==
  IF w < r THEN {s \in {w} : n < r - w}
  ELSE IF n <= Capacity - w THEN {w} ELSE {s \in {0} : n < r}

\* The end of try_reserve: the flag is set and the grant handed out, or nothing fits.
Decide(w, r) ==
  \/ Starts(pn, w, r) = {} /\ NoRoom
  \/ \E s \in Starts(pn, w, r) :
       /\ wg' = [pc |-> "held", start |-> s, len |-> pn] /\ wip' = TRUE
       /\ pn' = 0 /\ pmode' = "fast"
       /\ ppc' = IF pmode = "slow" THEN "disarm" ELSE "idle"

\* A slip: drained cursors are left where they are.
Stranded_Never == FALSE

\* "Fully drained, but the cursors are stranded mid-buffer"
Stranded == rd = wr /\ wr # 0

\* try_reserve: the flag and the cursors; a reset begins with an odd epoch.
PTry ==
  /\ ppc = "try"
  /\ \/ wip /\ NoRoom /\ UNCHANGED epoch
     \/ ~wip /\ ~Stranded /\ Decide(wr, rd) /\ UNCHANGED epoch
     \/ /\ ~wip /\ Stranded /\ ppc' = "read0" /\ epoch' = (epoch + 1) % 4
        /\ UNCHANGED <<pmode, pn, wip, wg>>
  /\ UNCHANGED <<wr, rd, last, rip, space, avail, unread, wtail, cVars, rgVars>>

PResetRead ==
  /\ ppc = "read0" /\ ppc' = "write0" /\ rd' = 0
  /\ UNCHANGED <<wr, last, epoch, wip, rip, space, avail, unread, pmode, pn, wgVars, cVars, rgVars>>

PResetWrite ==
  /\ ppc = "write0" /\ ppc' = "last" /\ wr' = 0
  /\ UNCHANGED <<rd, last, epoch, wip, rip, space, avail, unread, pmode, pn, wgVars, cVars, rgVars>>

PResetLast ==
  /\ ppc = "last" /\ ppc' = "even" /\ last' = Capacity
  /\ UNCHANGED <<wr, rd, epoch, wip, rip, space, avail, unread, pmode, pn, wgVars, cVars, rgVars>>

PResetEven ==
  /\ ppc = "even" /\ epoch' = (epoch + 1) % 4 /\ Decide(0, 0)
  /\ UNCHANGED <<wr, rd, last, rip, space, avail, unread, wtail, cVars, rgVars>>

\* Reserve::poll: arm() the slot, then try again.
PArm ==
  /\ ppc = "arm" /\ space' \in FlagArm /\ ppc' = "try" /\ pmode' = "slow"
  /\ UNCHANGED <<bShared, avail, unread, pn, wgVars, cVars, rgVars>>

PDisarm ==
  /\ ppc = "disarm" /\ space' = FlagDisarm /\ ppc' = "idle"
  /\ UNCHANGED <<bShared, avail, unread, pmode, pn, wgVars, cVars, rgVars>>

PPoll ==
  /\ ppc = "parked" /\ space' = FlagPolled(space) /\ ppc' = "try" /\ pmode' = "fast"
  /\ UNCHANGED <<bShared, avail, unread, pn, wgVars, cVars, rgVars>>

\* The parked future is dropped; it leaves its slot armed.
PCancel ==
  /\ ppc = "parked" /\ ppc' = "idle" /\ pmode' = "fast" /\ pn' = 0
  /\ space' = FlagPolled(space)
  /\ UNCHANGED <<bShared, avail, unread, wgVars, cVars, rgVars>>

ProducerStep ==
  \/ PTry \/ PResetRead \/ PResetWrite \/ PResetLast \/ PResetEven
  \/ PArm \/ PDisarm

-----------------------------------------------------------------------------
(* The holder of the write grant. *)

\* commit(used): a grant at the head with data in the tail records the watermark.
Commit(used) ==
  /\ wg.pc = "held" /\ used <= wg.len
  /\ wg' = [wg EXCEPT !.pc = "write", !.len = used]
  /\ last' = IF wg.start = 0 /\ wr # 0 THEN wr ELSE last
  /\ UNCHANGED <<wr, rd, epoch, wip, rip, space, avail, unread, pVars, wtail, cVars, rgVars>>

CommitWrite ==
  /\ wg.pc = "write" /\ wr' = wg.start + wg.len
  /\ unread' = unread \o Bytes(wg.start, wg.len)
  /\ wg' = [NoGrant EXCEPT !.pc = "wip"]
  /\ UNCHANGED <<rd, last, epoch, wip, rip, space, avail, pVars, wtail, cVars, rgVars>>

CommitWip ==
  /\ wg.pc = "wip" /\ wtail = "none"
  /\ wip' = FALSE /\ wg' = NoGrant /\ wtail' = "space"
  /\ UNCHANGED <<wr, rd, last, epoch, rip, space, avail, unread, pVars, cVars, rgVars>>

CommitSpace ==
  /\ wtail = "space" /\ space' = FlagSignal(space) /\ wtail' = "data"
  /\ UNCHANGED <<bShared, avail, unread, pVars, wg, cVars, rgVars>>

CommitData ==
  /\ wtail = "data" /\ avail' = FlagSignal(avail) /\ wtail' = "none"
  /\ UNCHANGED <<bShared, space, unread, pVars, wg, cVars, rgVars>>

\* Drop without commit: nothing is published, the flag is handed back.
DropWrite ==
  /\ wg.pc = "held" /\ wtail = "none"
  /\ wip' = FALSE /\ wg' = NoGrant /\ wtail' = IF wip THEN "drop" ELSE "none"
  /\ UNCHANGED <<wr, rd, last, epoch, rip, space, avail, unread, pVars, cVars, rgVars>>

DropWriteSpace ==
  /\ wtail = "drop" /\ space' = FlagSignal(space) /\ wtail' = "none"
  /\ UNCHANGED <<bShared, avail, unread, pVars, wg, cVars, rgVars>>

WriteGrantStep == CommitWrite \/ CommitWip \/ CommitSpace \/ CommitData \/ DropWriteSpace

-----------------------------------------------------------------------------
(* Consumer. *)

\* try_read(), or read() and its first poll.
ReadBytes ==
  /\ cpc = "idle" /\ (Overlap \/ ~(ROut /\ WOut /\ ppc # "idle"))
  /\ cpc' = "try" /\ avail' = FlagPolled(avail)
  /\ UNCHANGED <<bShared, space, unread, pVars, wgVars, cmode, cs, rgVars>>

\* An attempt that finds nothing: try_read returns, a poll goes on to park.
NoData ==
  /\ \/ cmode = "fast" /\ cpc' \in {"idle", "arm"}
     \/ cmode = "slow" /\ cpc' = "parked"
  /\ cs' = NoCursors
  /\ UNCHANGED <<cmode, rip, rg>>

\* The flag, then the seqlock: the consumer spins while a reset is on ...
CTry ==
  /\ cpc = "try"
  /\ \/ rip /\ NoData
     \/ /\ ~rip /\ epoch % 2 = 0 /\ cs' = [cs EXCEPT !.e = epoch] /\ cpc' = "write"
        /\ UNCHANGED <<cmode, rip, rg>>
  /\ UNCHANGED <<wr, rd, last, epoch, wip, space, avail, unread, pVars, wgVars, rtail>>

CWrite ==
  /\ cpc = "write" /\ cs' = [cs EXCEPT !.w = wr] /\ cpc' = "read"
  /\ UNCHANGED <<bShared, space, avail, unread, pVars, wgVars, cmode, rgVars>>

CRead ==
  /\ cpc = "read" /\ cs' = [cs EXCEPT !.r = rd] /\ cpc' = "last"
  /\ UNCHANGED <<bShared, space, avail, unread, pVars, wgVars, cmode, rgVars>>

CLast ==
  /\ cpc = "last" /\ cs' = [cs EXCEPT !.l = last] /\ cpc' = "again"
  /\ UNCHANGED <<bShared, space, avail, unread, pVars, wgVars, cmode, rgVars>>

\* The end of try_read: the region up to the watermark or to write, if any.
TakeRegion(w, r, l) ==
  LET n == (IF w < r THEN l ELSE w) - r
  IN  \/ n = 0 /\ NoData
      \/ /\ n > 0 /\ rg' = [pc |-> "held", start |-> r, len |-> n] /\ rip' = TRUE
         /\ cs' = NoCursors /\ cmode' = "fast"
         /\ cpc' = IF cmode = "slow" THEN "disarm" ELSE "idle"

\* A slip: the cursors are used although a reset came in between.
Stable_Always == TRUE

\* The second load of the epoch agrees with the first.
Stable == epoch = cs.e

\* Consumed up to the watermark while inverted.
AtWatermark == cs.w < cs.r /\ cs.r = cs.l

\* ... and starts over when one came in between; at the watermark it wraps.
CAgain ==
  /\ cpc = "again"
  /\ \/ ~Stable /\ cpc' = "try" /\ cs' = NoCursors /\ UNCHANGED <<cmode, rip, rg>>
     \/ Stable /\ AtWatermark /\ cpc' = "wrap" /\ UNCHANGED <<cmode, cs, rip, rg>>
     \/ Stable /\ ~AtWatermark /\ TakeRegion(cs.w, cs.r, cs.l)
  /\ UNCHANGED <<wr, rd, last, epoch, wip, space, avail, unread, pVars, wgVars, rtail>>

CWrap ==
  /\ cpc = "wrap" /\ rd' = 0 /\ cs' = [cs EXCEPT !.r = 0] /\ cpc' = "signal"
  /\ UNCHANGED <<wr, last, epoch, wip, rip, space, avail, unread, pVars, wgVars, cmode, rgVars>>

\* A slip: the wrap is not announced.
CSignal_Silent ==
  /\ cpc = "signal" /\ cpc' = "take"
  /\ UNCHANGED <<bShared, space, avail, unread, pVars, wgVars, cmode, cs, rgVars>>

CSignal ==
  /\ cpc = "signal" /\ space' = FlagSignal(space) /\ cpc' = "take"
  /\ UNCHANGED <<bShared, avail, unread, pVars, wgVars, cmode, cs, rgVars>>

CTake ==
  /\ cpc = "take" /\ TakeRegion(cs.w, cs.r, cs.l)
  /\ UNCHANGED <<wr, rd, last, epoch, wip, space, avail, unread, pVars, wgVars, rtail>>

\* Read::poll: arm() the slot, then try again.
CArm ==
  /\ cpc = "arm" /\ avail' \in FlagArm /\ cpc' = "try" /\ cmode' = "slow"
  /\ UNCHANGED <<bShared, space, unread, pVars, wgVars, cs, rgVars>>

CDisarm ==
  /\ cpc = "disarm" /\ avail' = FlagDisarm /\ cpc' = "idle"
  /\ UNCHANGED <<bShared, space, unread, pVars, wgVars, cmode, cs, rgVars>>

CPoll ==
  /\ cpc = "parked" /\ avail' = FlagPolled(avail) /\ cpc' = "try" /\ cmode' = "fast"
  /\ UNCHANGED <<bShared, space, unread, pVars, wgVars, cs, rgVars>>

CCancel ==
  /\ cpc = "parked" /\ cpc' = "idle" /\ cmode' = "fast" /\ avail' = FlagPolled(avail)
  /\ UNCHANGED <<bShared, space, unread, pVars, wgVars, cs, rgVars>>

ConsumerStep ==
  \/ CTry \/ CWrite \/ CRead \/ CLast \/ CAgain \/ CWrap \/ CSignal \/ CTake
  \/ CArm \/ CDisarm

-----------------------------------------------------------------------------
(* The holder of the read grant. *)

\* release(used)
Release(used) ==
  /\ rg.pc = "held" /\ used <= rg.len
  /\ rd' = rd + used /\ unread' = SubSeq(unread, used + 1, Len(unread))
  /\ rg' = [NoGrant EXCEPT !.pc = "rip"]
  /\ UNCHANGED <<wr, last, epoch, wip, rip, space, avail, pVars, wgVars, cVars, rtail>>

ReleaseRip ==
  /\ rg.pc = "rip" /\ rtail = "none" /\ rip' = FALSE /\ rg' = NoGrant /\ rtail' = "data"
  /\ UNCHANGED <<wr, rd, last, epoch, wip, space, avail, unread, pVars, wgVars, cVars>>

ReleaseData ==
  /\ rtail = "data" /\ avail' = FlagSignal(avail) /\ rtail' = "space"
  /\ UNCHANGED <<bShared, space, unread, pVars, wgVars, cVars, rg>>

ReleaseSpace ==
  /\ rtail = "space" /\ space' = FlagSignal(space) /\ rtail' = "none"
  /\ UNCHANGED <<bShared, avail, unread, pVars, wgVars, cVars, rg>>

\* Drop without release: the bytes stay readable.
DropRead ==
  /\ rg.pc = "held" /\ rtail = "none" /\ rip' = FALSE /\ rg' = NoGrant /\ rtail' = "drop"
  /\ UNCHANGED <<wr, rd, last, epoch, wip, space, avail, unread, pVars, wgVars, cVars>>

DropReadData ==
  /\ rtail = "drop" /\ avail' = FlagSignal(avail) /\ rtail' = "none"
  /\ UNCHANGED <<bShared, space, unread, pVars, wgVars, cVars, rg>>

ReadGrantStep == ReleaseRip \/ ReleaseData \/ ReleaseSpace \/ DropReadData

-----------------------------------------------------------------------------

BNext ==
  \/ \E n \in Requests : Reserve(n)
  \/ PPoll \/ PCancel \/ ProducerStep
  \/ ReadBytes \/ CPoll \/ CCancel \/ ConsumerStep
  \/ \E used \in Offset : Commit(used) \/ Release(used)
  \/ DropWrite \/ WriteGrantStep \/ DropRead \/ ReadGrantStep

BSpec == BInit /\ [][BNext]_bVars

-----------------------------------------------------------------------------
(* Properties. *)

\* A write grant never covers a byte that is still to be read and keeps its flag
\* until it hands it back; a read grant shows exactly the oldest unread bytes in the
\* order they were committed: across wraps, watermarks and resets, whichever threads
\* hold the grants.
GrantsAreExclusive ==
  /\ BTypeOK
  /\ wg.pc # "none" => wip
  /\ rg.pc # "none" => rip
  /\ wg.pc \in {"held", "write"} =>
       /\ wg.start + wg.len <= Capacity
       /\ \A k \in DOMAIN unread : unread[k] \notin wg.start .. wg.start + wg.len - 1
  /\ rg.pc = "held" =>
       /\ rg.len <= Len(unread)
       /\ Bytes(rg.start, rg.len) = SubSeq(unread, 1, rg.len)

\* A parked side that could go on is woken, or somebody has still to look at its
\* armed flag: reserve() when its bytes fit and no write grant is out, read() when
\* bytes are unread and no read grant is out.
BipNoLostWakeup ==
  /\ (ppc = "parked" /\ ~wip /\ Starts(pn, wr, rd) # {}) =>
       \/ space.woken
       \/ /\ space.armed
          /\ wtail \in {"space", "drop"} \/ rg.pc = "rip" \/ rtail \in {"data", "space"}
               \/ cpc = "signal"
  /\ (cpc = "parked" /\ ~rip /\ unread # <<>>) =>
       \/ avail.woken
       \/ avail.armed /\ (wg.pc = "wip" \/ wtail \in {"space", "data"} \/ rtail \in {"data", "drop"})

\* The producer never "park[s] forever on an empty buffer": with both sides parked
\* and no grant out, somebody is about to be woken.
NoStandoff ==
  (ppc = "parked" /\ cpc = "parked" /\ ~WOut /\ ~ROut) =>
    space.woken \/ avail.woken
=============================================================================
