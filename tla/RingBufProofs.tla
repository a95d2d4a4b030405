---------------------------- MODULE RingBufProofs ----------------------------
(***************************************************************************)
(* Proofs about module RingBuf, for every capacity, every width of the     *)
(* wrapping indices and every length of a slice: the copies of the two     *)
(* sides never meet, no wakeup is lost, the count of a parked transfer is  *)
(* current, and the buffer is a bounded FIFO.                              *)
(***************************************************************************)
EXTENDS RingBuf, Integers, WaiterProofs

(* Indices modulo Modulus and slots modulo Cap. *)

\* A remainder with its quotient.
LEMMA ModDef ==
  ASSUME NEW m \in Nat \ {0}, NEW x \in Int
  PROVE  x \div m \in Int /\ x % m \in 0 .. m - 1 /\ x = m * (x \div m) + (x % m)
OBVIOUS

\* The remainder is the only one.
LEMMA ModUnique ==
  ASSUME NEW m \in Nat \ {0}, NEW x \in Int, NEW q \in Int, NEW r \in 0 .. m - 1,
         x = m * q + r
  PROVE  x % m = r
OBVIOUS

\* Whole turns around the buffer lead back to the same slot.
LEMMA ModShift ==
  ASSUME NEW m \in Nat \ {0}, NEW x \in Int, NEW q \in Int
  PROVE  (x + m * q) % m = x % m
<1> DEFINE a == x \div m
           r == x % m
<1>1. a \in Int /\ r \in 0 .. m - 1 /\ x = m * a + r
  BY ModDef
<1> HIDE DEF a, r
<1>2. x + m * q = m * (a + q) + r /\ a + q \in Int /\ x + m * q \in Int
  BY <1>1
<1>3. (x + m * q) % m = r
  BY <1>1, <1>2, ModUnique
<1> QED  BY <1>3 DEF r

\* Less than a turn leads to another slot.
LEMMA ModDiffers ==
  ASSUME NEW m \in Nat \ {0}, NEW x \in Int, NEW y \in Int, x % m = y % m,
         x - y < m, y - x < m
  PROVE  x = y
<1> DEFINE a == x \div m
           b == y \div m
           r == x % m
<1>1. a \in Int /\ b \in Int /\ r \in 0 .. m - 1 /\ x = m * a + r /\ y = m * b + r
  BY ModDef
<1> HIDE DEF a, b, r
<1>2. x - y = m * (a - b)
  BY <1>1
<1>3. a - b < 1
  <2> SUFFICES ASSUME a - b >= 1 PROVE FALSE
    BY <1>1
  <2>1. m * (a - b) >= m
    BY <1>1
  <2> QED  BY <1>1, <1>2, <2>1
<1>4. a - b > -1
  <2> SUFFICES ASSUME a - b <= -1 PROVE FALSE
    BY <1>1
  <2>1. m * (a - b) <= -m
    BY <1>1
  <2> QED  BY <1>1, <1>2, <2>1
<1> QED  BY <1>1, <1>3, <1>4

\* What wrapping_sub and wrapping_add compute.
LEMMA Wrapping ==
  /\ \A i, j \in Index : /\ Minus(i, j) = IF j <= i THEN i - j ELSE i - j + Modulus
                         /\ Minus(i, j) \in Index
  /\ \A i \in Index, n \in 0 .. Cap :
       /\ Plus(i, n) = IF i + n < Modulus THEN i + n ELSE i + n - Modulus
       /\ Plus(i, n) \in Index
<1>0. Modulus \in Nat \ {0} /\ Cap \in Nat /\ Modulus > Cap
  BY SizesAssumption
<1>1. ASSUME NEW i \in Index, NEW j \in Index
      PROVE  /\ Minus(i, j) = IF j <= i THEN i - j ELSE i - j + Modulus
             /\ Minus(i, j) \in Index
  <2> DEFINE q == IF j <= i THEN 0 ELSE -1
             r == IF j <= i THEN i - j ELSE i - j + Modulus
  <2>1. q \in Int /\ r \in 0 .. Modulus - 1 /\ i - j = Modulus * q + r /\ i - j \in Int
    BY <1>0 DEF Index
  <2>2. (i - j) % Modulus = r
    BY <1>0, <2>1, ModUnique
  <2> QED  BY <2>1, <2>2 DEF Minus, Index
<1>2. ASSUME NEW i \in Index, NEW n \in 0 .. Cap
      PROVE  /\ Plus(i, n) = IF i + n < Modulus THEN i + n ELSE i + n - Modulus
             /\ Plus(i, n) \in Index
  <2> DEFINE q == IF i + n < Modulus THEN 0 ELSE 1
             r == IF i + n < Modulus THEN i + n ELSE i + n - Modulus
  <2>1. q \in Int /\ r \in 0 .. Modulus - 1 /\ i + n = Modulus * q + r /\ i + n \in Int
    BY <1>0 DEF Index
  <2>2. (i + n) % Modulus = r
    BY <1>0, <2>1, ModUnique, Zenon
  <2> QED  BY <2>1, <2>2 DEF Plus, Index
<1> QED  BY <1>1, <1>2

\* An index that goes on by n is n further from the other one, or n nearer.
LEMMA Distance ==
  ASSUME NEW i \in Index, NEW j \in Index, NEW n \in 0 .. Cap
  PROVE  /\ Minus(i, j) + n <= Cap => Minus(Plus(i, n), j) = Minus(i, j) + n
         /\ n <= Minus(i, j) => Minus(i, Plus(j, n)) = Minus(i, j) - n
         /\ Minus(i, j) = 0 <=> i = j
<1>1. /\ Minus(i, j) = IF j <= i THEN i - j ELSE i - j + Modulus
      /\ Plus(i, n) = IF i + n < Modulus THEN i + n ELSE i + n - Modulus
      /\ Plus(j, n) = IF j + n < Modulus THEN j + n ELSE j + n - Modulus
      /\ Plus(i, n) \in Index /\ Plus(j, n) \in Index
  BY Wrapping
<1>2. /\ Minus(Plus(i, n), j) = IF j <= Plus(i, n) THEN Plus(i, n) - j ELSE Plus(i, n) - j + Modulus
      /\ Minus(i, Plus(j, n)) = IF Plus(j, n) <= i THEN i - Plus(j, n) ELSE i - Plus(j, n) + Modulus
  BY <1>1, Wrapping
<1>3. Modulus \in Nat /\ Cap \in Nat /\ Modulus > Cap
  BY SizesAssumption
<1>4. Minus(i, j) + n <= Cap => Minus(Plus(i, n), j) = Minus(i, j) + n
  BY <1>1, <1>2, <1>3 DEF Index
<1>5. n <= Minus(i, j) => Minus(i, Plus(j, n)) = Minus(i, j) - n
  BY <1>1, <1>2, <1>3 DEF Index
<1>6. Minus(i, j) = 0 <=> i = j
  BY <1>1, <1>3 DEF Index
<1> QED  BY <1>4, <1>5, <1>6

\* The slot d places after index i.
Place(i, d) == (i + d) % Cap

\* Places less than Cap apart are different slots, and Cap apart the same one.
LEMMA Places ==
  ASSUME NEW i \in Index
  PROVE  /\ \A d \in Nat : Place(i, d) \in 0 .. Cap - 1
         /\ \A d, e \in 0 .. Cap - 1 : Place(i, d) = Place(i, e) => d = e
         /\ \A d \in Nat : Place(i, d + Cap) = Place(i, d)
<1>0. Cap \in Nat \ {0} /\ i \in Nat
  BY SizesAssumption DEF Index
<1>1. ASSUME NEW d \in Nat PROVE Place(i, d) \in 0 .. Cap - 1
  BY <1>0, ModDef DEF Place
<1>2. ASSUME NEW d \in 0 .. Cap - 1, NEW e \in 0 .. Cap - 1, Place(i, d) = Place(i, e)
      PROVE  d = e
  <2>1. (i + d) % Cap = (i + e) % Cap /\ i + d \in Int /\ i + e \in Int
        /\ (i + d) - (i + e) < Cap /\ (i + e) - (i + d) < Cap
    BY <1>0, <1>2 DEF Place
  <2>2. i + d = i + e
    BY <1>0, <2>1, ModDiffers, Zenon
  <2> QED  BY <1>0, <2>2
<1>3. ASSUME NEW d \in Nat PROVE Place(i, d + Cap) = Place(i, d)
  <2>1. i + (d + Cap) = (i + d) + Cap * 1 /\ i + d \in Int /\ 1 \in Int
    BY <1>0
  <2>2. ((i + d) + Cap * 1) % Cap = (i + d) % Cap
    BY <1>0, <2>1, ModShift, Zenon
  <2> QED  BY <2>1, <2>2 DEF Place
<1> QED  BY <1>1, <1>2, <1>3

\* The slots after an index that went on, also when it wraps: Cap divides Modulus.
LEMMA PlaceAfter ==
  ASSUME NEW i \in Index, NEW n \in 0 .. Cap, NEW d \in Nat
  PROVE  Place(Plus(i, n), d) = Place(i, n + d)
<1> DEFINE m == Modulus \div Cap
<1>1. Cap \in Nat \ {0} /\ Modulus \in Nat /\ Modulus % Cap = 0 /\ Modulus > Cap
  BY SizesAssumption
<1>2. m \in Int /\ Modulus = Cap * m
  BY <1>1, ModDef
<1> HIDE DEF m
<1>3. Plus(i, n) = i + n \/ Plus(i, n) = i + n - Modulus
  BY Wrapping
<1>4. CASE Plus(i, n) = i + n
  <2>1. Plus(i, n) + d = i + (n + d)
    BY <1>1, <1>4 DEF Index
  <2> QED  BY <2>1 DEF Place
<1>5. CASE Plus(i, n) = i + n - Modulus
  <2>1. Plus(i, n) + d = (i + (n + d)) + Cap * (-m) /\ i + (n + d) \in Int /\ -m \in Int
    BY <1>1, <1>2, <1>5 DEF Index
  <2>2. ((i + (n + d)) + Cap * (-m)) % Cap = (i + (n + d)) % Cap
    BY <1>1, <2>1, ModShift, Zenon
  <2> QED  BY <2>1, <2>2 DEF Place
<1> QED  BY <1>3, <1>4, <1>5

\* A copy that is split at the end of the buffer goes to consecutive places.
LEMMA SlotOfPlace ==
  ASSUME NEW i \in Index, NEW n \in 0 .. Cap, NEW k \in 1 .. n
  PROVE  SlotOf(i, n, k) = Place(i, k - 1)
<1> DEFINE a == i \div Cap
           first == i % Cap
<1>0. Cap \in Nat \ {0} /\ i \in Nat
  BY SizesAssumption DEF Index
<1>1. a \in Int /\ first \in 0 .. Cap - 1 /\ i = Cap * a + first
  BY <1>0, ModDef
<1>2. SlotOf(i, n, k) = IF k <= Least(Cap - first, n) THEN first + k - 1
                        ELSE k - Least(Cap - first, n) - 1
  BY DEF SlotOf
<1> HIDE DEF a, first
<1>3. CASE first + (k - 1) < Cap
  <2>1. SlotOf(i, n, k) = first + k - 1
    BY <1>0, <1>1, <1>2, <1>3 DEF Least
  <2>2. i + (k - 1) = Cap * a + (first + k - 1) /\ first + k - 1 \in 0 .. Cap - 1 /\ i + (k - 1) \in Int
    BY <1>0, <1>1, <1>3
  <2>3. (i + (k - 1)) % Cap = first + k - 1
    BY <1>0, <1>1, <2>2, ModUnique
  <2> QED  BY <2>1, <2>3 DEF Place
<1>4. CASE ~(first + (k - 1) < Cap)
  <2>1. SlotOf(i, n, k) = first + k - 1 - Cap
    BY <1>0, <1>1, <1>2, <1>4 DEF Least
  <2>2. /\ i + (k - 1) = Cap * (a + 1) + (first + k - 1 - Cap)
        /\ first + k - 1 - Cap \in 0 .. Cap - 1 /\ i + (k - 1) \in Int /\ a + 1 \in Int
    BY <1>0, <1>1, <1>4
  <2>3. (i + (k - 1)) % Cap = first + k - 1 - Cap
    BY <1>0, <1>1, <2>2, ModUnique, Zenon
  <2> QED  BY <2>1, <2>3 DEF Place
<1> QED  BY <1>3, <1>4

\* What is left of a sequence after its first n elements.
LEMMA RestOf ==
  ASSUME NEW S, NEW s \in Seq(S), NEW n \in 0 .. Len(s)
  PROVE  /\ Rest(s, n) \in Seq(S) /\ Len(Rest(s, n)) = Len(s) - n
         /\ \A k \in 1 .. Len(s) - n : Rest(s, n)[k] = s[n + k]
         /\ SubSeq(s, 1, n) \in Seq(S) /\ Len(SubSeq(s, 1, n)) = n
         /\ \A k \in 1 .. n : SubSeq(s, 1, n)[k] = s[k]
BY DEF Rest

-----------------------------------------------------------------------------
(* The invariant. *)

Points == {"idle", "try", "copy", "publish", "signal", "return", "register", "arm",
           "disarm", "parked"}

Used == Minus(write, read)     \* the items in the buffer
Seen == Minus(write, pread)    \* the items the producer takes to be in it
Avail == Minus(cwrite, read)   \* the items the consumer takes to be in it

\* A call at point pc in mode m, with `left` items to go and room for `room` of them
\* as far as it knows: its batch of n items fits, and when it has items left after an
\* attempt it has found no more room.
CallInv(pc, m, n, left, room, untold) ==
  /\ pc \in Points /\ m \in Mode /\ untold \in BOOLEAN
  /\ n \in Nat /\ left \in Nat /\ room \in Nat
  /\ IF pc \in {"copy", "publish"}
     THEN 0 < n /\ n <= left /\ n <= room /\ (n = left \/ n = room)
     ELSE n = 0
  /\ pc \in {"idle", "disarm"} => left = 0 /\ m = "first"
  /\ pc \in {"signal", "return"} => left = 0 \/ room = 0
  /\ pc \in {"register", "arm", "parked"} \/ (pc = "try" /\ m = "slow") =>
       left > 0 /\ room = 0
  /\ pc \in {"register", "arm"} => m = "fast"
  /\ pc = "parked" => m = "slow" /\ untold = FALSE

ProducerInv ==
  /\ write \in Index /\ pread \in Index /\ next \in Index
  /\ todo \in Seq(Index) /\ Len(todo) <= MaxSlice
  /\ Seen <= Cap
  /\ CallInv(ppc, pmode, pn, Len(todo), Cap - Seen, puntold)

ConsumerInv ==
  /\ read \in Index /\ cwrite \in Index
  /\ want <= MaxSlice
  /\ CallInv(cpc, cmode, cn, want, Avail, cuntold)

\* The cached indices are behind, so each side takes the buffer for worse than it is.
CacheInv == Used <= Seen /\ Avail <= Used

\* The slots from read_index on are the ones with items, those being copied in
\* included and those moved out not.
Filled == IF ppc = "publish" THEN pn ELSE 0
Emptied == IF cpc = "publish" THEN cn ELSE 0

BufferInv ==
  /\ buf \in [0 .. Cap - 1 -> Index \cup {Uninit}] /\ hold \in Seq(Index)
  /\ \A d \in 0 .. Cap - 1 :
       buf[Place(read, d)] # Uninit <=> Emptied <= d /\ d < Used + Filled
  /\ ppc = "publish" => \A k \in 1 .. pn : buf[Place(read, Used + k - 1)] = todo[k]
  /\ cpc = "publish" => Len(hold) = cn

\* A slot between waiter w, at point wpc in mode wm, and signaller t at tpc.  Once
\* armed, w is woken unless what it saw last is `fresh`.
SlotInv(s, w, t, wpc, wm, fresh, tpc) ==
  /\ s \in SlotType({w}, {t})
  /\ tpc = "return" \/ Quiet(s, t)
  /\ wpc = "arm" \/ wm = "slow" => Registered(s, w)
  /\ wm = "slow" => s.armed \/ WakeComing(s, w)
  /\ wm = "slow" /\ wpc # "try" => fresh \/ WakeComing(s, w) \/ (s.armed /\ tpc = "signal")

IndexInv == ProducerInv /\ ConsumerInv /\ CacheInv
WakeInv ==
  /\ SlotInv(pslot, P, C, ppc, pmode, pread = read, cpc)
  /\ SlotInv(cslot, C, P, cpc, cmode, cwrite = write, ppc)

Inv == IndexInv /\ BufferInv /\ WakeInv

-----------------------------------------------------------------------------
(* The calls. *)

\* The steps of a call, the same on both sides.
LEMMA CallSteps ==
  ASSUME NEW pc, NEW m, NEW n, NEW left, NEW room, NEW untold,
         CallInv(pc, m, n, left, room, untold)
  PROVE  /\ pc = "idle" => \A k \in Nat : CallInv("try", "first", n, k, room, FALSE)
         /\ pc = "idle" => \A r \in Nat : CallInv(pc, m, n, left, r, untold)
         /\ pc = "parked" => /\ CallInv("try", "fast", n, left, room, untold)
                             /\ CallInv("idle", "first", n, 0, room, untold)
         /\ pc = "copy" => CallInv("publish", m, n, left, room, untold)
         /\ pc = "signal" => CallInv("return", m, n, left, room, untold)
         /\ pc = "register" => CallInv("arm", m, n, left, room, untold)
         /\ pc = "arm" => CallInv("try", "slow", n, left, room, untold)
         /\ pc = "disarm" => CallInv("idle", m, n, left, room, untold)
BY DEF CallInv, Points, Mode

\* An attempt takes what fits into the room it sees.
LEMMA CallTries ==
  ASSUME NEW m, NEW n, NEW left, NEW room, NEW untold, NEW r \in Nat,
         CallInv("try", m, n, left, room, untold)
  PROVE  CallInv(IF Least(left, r) = 0 THEN "return" ELSE "copy", m, Least(left, r), left, r,
                 untold)
<1> DEFINE k == Least(left, r)
<1>1. /\ left \in Nat /\ m \in Mode /\ untold \in BOOLEAN
      /\ k \in Nat /\ k <= left /\ k <= r /\ (k = left \/ k = r)
  BY DEF CallInv, Least
<1> HIDE DEF k
<1>2. k = 0 => CallInv("return", m, k, left, r, untold)
  BY <1>1 DEF CallInv, Points
<1>3. k # 0 => CallInv("copy", m, k, left, r, untold)
  BY <1>1 DEF CallInv, Points
<1> QED  BY <1>2, <1>3 DEF k

\* A batch is published.
LEMMA CallPublishes ==
  ASSUME NEW m, NEW n, NEW left, NEW room, NEW untold,
         CallInv("publish", m, n, left, room, untold)
  PROVE  CallInv("signal", m, 0, left - n, room - n, TRUE)
BY DEF CallInv, Points

\* An attempt is over: the call ends or makes the next one.
LEMMA CallReturns ==
  ASSUME NEW m, NEW n, NEW left, NEW room, NEW untold,
         CallInv("return", m, n, left, room, untold)
  PROVE  /\ \A pc \in {"idle", "disarm"}, u \in BOOLEAN : CallInv(pc, "first", n, 0, room, u)
         /\ left > 0 => /\ \A u \in BOOLEAN : CallInv("try", "fast", n, left, room, u)
                        /\ \A u \in BOOLEAN : m = "fast" => CallInv("register", m, n, left, room, u)
                        /\ m = "slow" => CallInv("parked", m, n, left, room, FALSE)
BY DEF CallInv, Points, Mode

-----------------------------------------------------------------------------
(* The steps. *)

ProducerMoves ==
  \/ \E n \in 1 .. MaxSlice : StartPush(n)
  \/ FreeCount \/ PushPoll \/ PushCancel \/ ProducerStep

ConsumerMoves ==
  \/ \E n \in 1 .. MaxSlice : StartPop(n)
  \/ AvailableCount \/ PopPoll \/ PopCancel \/ ConsumerStep

\* Whose step a step of Next is.
LEMMA NextCases ==
  ASSUME [Next]_vars
  PROVE  ProducerMoves \/ ConsumerMoves \/ Drop \/ UNCHANGED vars
<1>1. 1 \in 1 .. MaxSlice /\ \A n \in 2 .. MaxSlice : n \in 1 .. MaxSlice
  BY SizesAssumption, SMTT(30)
<1> QED  BY <1>1 DEF Next, Push, Pop, PushSlice, PopSlice, ProducerMoves, ConsumerMoves

\* What a step leaves to the other side.
LEMMA OtherSide ==
  /\ ProducerMoves => UNCHANGED <<read, cVars>>
  /\ ConsumerMoves => UNCHANGED <<write, pVars>>
BY DEF ProducerMoves, ConsumerMoves, ProducerStep, ConsumerStep, shared, cVars, pVars,
       StartPush, FreeCount, PushPoll, PushCancel, TryPush, PushCopy, PushPublish,
       PushSignal, PushSignalOn, PushReturn, PushRegister, PushArm, PushDisarm,
       StartPop, AvailableCount, PopPoll, PopCancel, TryPop, PopCopy, PopPublish,
       PopSignal, PopSignalOn, PopReturn, PopRegister, PopArm, PopDisarm

\* The distances are numbers.
LEMMA Numbers ==
  ASSUME IndexInv
  PROVE  /\ Used \in Nat /\ Seen \in Nat /\ Avail \in Nat /\ Used <= Cap
         /\ Cap \in Nat \ {0} /\ MaxSlice \in Nat \ {0}
         /\ Modulus \in Nat /\ Modulus > Cap /\ 0 \in Index
<1>1. Cap \in Nat \ {0} /\ MaxSlice \in Nat \ {0} /\ Modulus \in Nat /\ Modulus > Cap
  BY SizesAssumption
<1>2. Used \in Index /\ Seen \in Index /\ Avail \in Index
  BY Wrapping DEF IndexInv, ProducerInv, ConsumerInv, Used, Seen, Avail
<1>3. Index \subseteq Nat /\ 0 \in Index
  BY <1>1 DEF Index
<1>4. Used \in Nat /\ Seen \in Nat /\ Avail \in Nat
  BY <1>2, <1>3
<1> QED  BY <1>1, <1>3, <1>4 DEF IndexInv, ProducerInv, CacheInv

\* The store of write_index.
LEMMA PublishDistance ==
  ASSUME IndexInv, ppc = "publish", write' = Plus(write, pn), UNCHANGED <<read, pread, cwrite>>
  PROVE  /\ pn \in 0 .. Cap /\ write' \in Index
         /\ Used' = Used + pn /\ Seen' = Seen + pn /\ Avail' = Avail
<1>1. /\ write \in Index /\ read \in Index /\ pread \in Index /\ pn \in 0 .. Cap
      /\ Used + pn <= Cap /\ Seen + pn <= Cap
  <2>1. Used \in Nat /\ Seen \in Nat /\ Cap \in Nat /\ Used <= Seen
    BY Numbers DEF IndexInv, CacheInv
  <2>2. pn \in Nat /\ pn <= Cap - Seen
    <3>1. CallInv(ppc, pmode, pn, Len(todo), Cap - Seen, puntold)
      BY DEF IndexInv, ProducerInv
    <3> QED  BY <3>1 DEF CallInv
  <2> QED  BY <2>1, <2>2 DEF IndexInv, ProducerInv, ConsumerInv
<1>2. write' \in Index
  BY <1>1, Wrapping
<1>3. Minus(Plus(write, pn), read) = Minus(write, read) + pn
  BY <1>1, Distance DEF Used
<1>4. Minus(Plus(write, pn), pread) = Minus(write, pread) + pn
  BY <1>1, Distance DEF Seen
<1> QED  BY <1>1, <1>2, <1>3, <1>4 DEF Used, Seen, Avail

\* The store of read_index.
LEMMA GiveBackDistance ==
  ASSUME IndexInv, cpc = "publish", read' = Plus(read, cn), UNCHANGED <<write, pread, cwrite>>
  PROVE  /\ cn \in 0 .. Cap /\ cn <= Used /\ read' \in Index
         /\ Used' = Used - cn /\ Avail' = Avail - cn /\ Seen' = Seen
<1>1. /\ write \in Index /\ read \in Index /\ cwrite \in Index /\ cn \in 0 .. Cap
      /\ cn <= Used /\ cn <= Avail
  <2>1. Used \in Nat /\ Avail \in Nat /\ Cap \in Nat /\ Avail <= Used /\ Used <= Cap
    BY Numbers DEF IndexInv, CacheInv
  <2>2. cn \in Nat /\ cn <= Avail
    <3>1. CallInv(cpc, cmode, cn, want, Avail, cuntold)
      BY DEF IndexInv, ConsumerInv
    <3> QED  BY <3>1 DEF CallInv
  <2> QED  BY <2>1, <2>2 DEF IndexInv, ProducerInv, ConsumerInv
<1>2. read' \in Index
  BY <1>1, Wrapping
<1>3. Minus(write, Plus(read, cn)) = Minus(write, read) - cn
  BY <1>1, Distance DEF Used
<1>4. Minus(cwrite, Plus(read, cn)) = Minus(cwrite, read) - cn
  BY <1>1, Distance DEF Avail
<1> QED  BY <1>1, <1>2, <1>3, <1>4 DEF Used, Seen, Avail

\* The producer's steps keep its batch within the room it sees.
LEMMA ProducerKeepsIndex == ASSUME IndexInv, ProducerMoves PROVE IndexInv'
<1>0. /\ Used \in Nat /\ Seen \in Nat /\ Avail \in Nat /\ Used <= Cap
      /\ Cap \in Nat \ {0} /\ MaxSlice \in Nat \ {0} /\ Modulus \in Nat
  BY Numbers
<1>1. /\ write \in Index /\ pread \in Index /\ next \in Index /\ read \in Index
      /\ todo \in Seq(Index) /\ Len(todo) <= MaxSlice /\ Len(todo) \in Nat
      /\ Seen <= Cap /\ CacheInv
      /\ CallInv(ppc, pmode, pn, Len(todo), Cap - Seen, puntold)
  BY DEF IndexInv, ConsumerInv, ProducerInv
<1>2. UNCHANGED <<read, cVars>>
  BY OtherSide
<1>3. ConsumerInv'
  BY <1>2 DEF IndexInv, ConsumerInv, Avail, cVars
<1>4. <<>> \in Seq(Index) /\ Len(<<>>) = 0 /\ (Len(todo) = 0 => todo = <<>>)
  BY <1>1
<1>5. CASE \/ \E n \in 1 .. MaxSlice : StartPush(n)
           \/ PushPoll \/ PushCancel \/ PushCopy \/ PushSignal \/ PushSignalOn
           \/ PushReturn \/ PushRegister \/ PushArm \/ PushDisarm
  <2>1. UNCHANGED <<write, pread, next, pn>>
    BY <1>5 DEF shared, pVars, StartPush, PushPoll, PushCancel, PushCopy, PushSignal,
                PushSignalOn, PushReturn, PushRegister, PushArm, PushDisarm
  <2>2. Used' = Used /\ Seen' = Seen /\ Avail' = Avail
    BY <1>2, <2>1 DEF Used, Seen, Avail, cVars
  <2> DEFINE Good(pc, m, t, u) ==
        t \in Seq(Index) /\ Len(t) <= MaxSlice /\ CallInv(pc, m, pn, Len(t), Cap - Seen, u)
  <2>3. Good(ppc', pmode', todo', puntold')
    <3>1. ASSUME NEW n \in 1 .. MaxSlice, StartPush(n) PROVE Good(ppc', pmode', todo', puntold')
      <4>1. /\ todo' = [k \in 1 .. n |-> Plus(next, k - 1)]
            /\ puntold' = FALSE /\ pmode' = "first" /\ ppc' = "try" /\ ppc = "idle"
        BY <3>1 DEF StartPush
      <4>2. \A k \in 1 .. n : Plus(next, k - 1) \in Index
        <5> TAKE k \in 1 .. n
        <5>1. Modulus \in Nat \ {0} /\ next + (k - 1) \in Int
          BY <1>0, <1>1, SizesAssumption DEF Index
        <5> QED  BY <5>1, ModDef DEF Plus, Index
      <4>3. todo' \in Seq(Index) /\ Len(todo') = n
        BY <1>0, <4>1, <4>2
      <4>4. CallInv("try", "first", pn, n, Cap - Seen, FALSE)
        <5>1. n \in Nat
          BY <1>0
        <5> QED  BY <1>1, <4>1, <5>1, CallSteps, Zenon
      <4>5. puntold' = FALSE /\ pmode' = "first" /\ ppc' = "try" /\ n <= MaxSlice
        BY <1>0, <4>1
      <4> QED  BY <4>3, <4>4, <4>5, Zenon
    <3>2. CASE PushPoll
      BY <1>1, <3>2, CallSteps, Zenon DEF PushPoll
    <3>3. CASE PushCancel
      <4>1. /\ ppc = "parked" /\ ppc' = "idle" /\ pmode' = "first" /\ puntold' = puntold
            /\ todo' \in Seq(Index) /\ Len(todo') = 0
        BY <1>4, <3>3 DEF PushCancel
      <4>2. CallInv("idle", "first", pn, 0, Cap - Seen, puntold)
        BY <1>1, <4>1, CallSteps, Zenon
      <4> QED  BY <1>0, <4>1, <4>2
    <3>4. CASE PushCopy
      BY <1>1, <3>4, CallSteps, Zenon DEF PushCopy
    <3>5. CASE PushSignal
      BY <1>1, <3>5, CallSteps, Zenon DEF PushSignal
    <3>6. CASE PushSignalOn
      BY <1>1, <3>6 DEF PushSignalOn, pVars
    <3>7. CASE PushRegister
      BY <1>1, <3>7, CallSteps, Zenon DEF PushRegister
    <3>8. CASE PushArm
      BY <1>1, <3>8, CallSteps, Zenon DEF PushArm
    <3>9. CASE PushDisarm
      BY <1>1, <3>9, CallSteps, Zenon DEF PushDisarm
    <3>10. CASE PushReturn
      <4>1. ppc = "return" /\ puntold' = (puntold /\ ~Recorded(pmode, Len(todo)))
        BY <3>10 DEF PushReturn
      <4>2. puntold' \in BOOLEAN
        BY <4>1
      <4>3. CASE todo' = <<>> /\ ppc' \in {"idle", "disarm"} /\ pmode' = "first"
        <5>1. todo' \in Seq(Index) /\ Len(todo') = 0
          BY <1>4, <4>3
        <5>2. CallInv(ppc', "first", pn, 0, Cap - Seen, puntold')
          BY <1>1, <4>1, <4>2, <4>3, CallReturns, Zenon
        <5> QED  BY <1>0, <4>3, <5>1, <5>2
      <4>4. CASE /\ todo # <<>> /\ UNCHANGED todo
                 /\ \/ pmode = "first" /\ ppc' = "try" /\ pmode' = "fast"
                    \/ pmode = "fast" /\ ppc' = "register" /\ UNCHANGED pmode
                    \/ pmode = "slow" /\ ppc' = "parked" /\ UNCHANGED pmode
        <5>1. Len(todo) > 0
          BY <1>1, <1>4, <4>4
        <5>2. puntold' = FALSE
          BY <4>1, <5>1, Zenon DEF Recorded
        <5> QED  BY <1>1, <4>1, <4>2, <4>4, <5>1, <5>2, CallReturns, Zenon
      <4> QED  BY <3>10, <4>3, <4>4 DEF PushReturn
    <3> QED  BY <1>5, <3>1, <3>2, <3>3, <3>4, <3>5, <3>6, <3>7, <3>8, <3>9, <3>10
  <2>4. ProducerInv'
    BY <1>1, <2>1, <2>2, <2>3 DEF ProducerInv
  <2> QED  BY <1>1, <1>3, <2>2, <2>4, SMTT(30) DEF IndexInv, CacheInv
<1>6. CASE TryPush \/ FreeCount
  <2>1. UNCHANGED <<write, pmode, todo, puntold, next>> /\ pread' \in {pread, read}
    BY <1>6 DEF TryPush, FreeCount, shared
  <2>2. Used' = Used /\ Avail' = Avail /\ (Seen' = Seen \/ Seen' = Used)
    BY <1>2, <2>1 DEF Used, Seen, Avail, cVars
  <2>3. CacheInv' /\ Seen' \in Nat /\ Seen' <= Cap /\ Cap - Seen' \in Nat
    BY <1>0, <1>1, <2>2 DEF CacheInv
  <2>4. CallInv(ppc', pmode', pn', Len(todo)', Cap - Seen', puntold')
    <3>1. CASE FreeCount
      BY <1>1, <2>1, <2>3, <3>1, CallSteps, Zenon DEF FreeCount
    <3>2. CASE TryPush
      <4>1. /\ ppc = "try" /\ pn' = Least(Len(todo), Room(pread'))
            /\ ppc' = IF pn' = 0 THEN "return" ELSE "copy"
        BY <3>2 DEF TryPush
      <4>2. Room(pread') = Cap - Seen'
        BY <1>0, <2>1, <2>3 DEF Room, Seen
      <4> QED  BY <1>1, <2>1, <2>3, <4>1, <4>2, CallTries
    <3> QED  BY <1>6, <3>1, <3>2
  <2>5. ProducerInv'
    BY <1>1, <2>1, <2>3, <2>4 DEF ProducerInv
  <2> QED  BY <1>3, <2>3, <2>5 DEF IndexInv
<1>7. CASE PushPublish
  <2>1. /\ ppc = "publish" /\ ppc' = "signal" /\ write' = Plus(write, pn) /\ next' = Plus(next, pn)
        /\ todo' = Rest(todo, pn) /\ puntold' = TRUE /\ pn' = 0 /\ UNCHANGED <<pmode, pread>>
    BY <1>7 DEF PushPublish
  <2>2. /\ pn \in 0 .. Cap /\ write' \in Index
        /\ Used' = Used + pn /\ Seen' = Seen + pn /\ Avail' = Avail
    BY <1>2, <2>1, PublishDistance DEF cVars
  <2>3. next' \in Index
    BY <1>1, <2>1, <2>2, Wrapping
  <2>4. pn <= Len(todo) /\ Seen + pn <= Cap
    BY <1>0, <1>1, <2>1, <2>2 DEF CallInv
  <2>5. todo' \in Seq(Index) /\ Len(todo') = Len(todo) - pn
    BY <1>1, <2>1, <2>2, <2>4, RestOf
  <2>6. CallInv("signal", pmode, 0, Len(todo) - pn, (Cap - Seen) - pn, TRUE)
    BY <1>1, <2>1, CallPublishes, Zenon
  <2>7. (Cap - Seen) - pn = Cap - Seen' /\ Seen' <= Cap /\ Len(todo') <= MaxSlice
    BY <1>0, <1>1, <2>2, <2>4, <2>5
  <2>8. ProducerInv'
    BY <1>1, <2>1, <2>2, <2>3, <2>5, <2>6, <2>7, Zenon DEF ProducerInv
  <2>9. CacheInv'
    BY <1>0, <1>1, <2>2 DEF CacheInv
  <2> QED  BY <1>3, <2>8, <2>9 DEF IndexInv
<1> QED  BY <1>5, <1>6, <1>7 DEF ProducerMoves, ProducerStep

\* The consumer's steps keep its batch within the items it sees.
LEMMA ConsumerKeepsIndex == ASSUME IndexInv, ConsumerMoves PROVE IndexInv'
<1>0. /\ Used \in Nat /\ Seen \in Nat /\ Avail \in Nat /\ MaxSlice \in Nat
  BY Numbers
<1>1. /\ write \in Index /\ read \in Index /\ cwrite \in Index
      /\ want <= MaxSlice /\ want \in Nat /\ CacheInv
      /\ CallInv(cpc, cmode, cn, want, Avail, cuntold)
  BY DEF IndexInv, ConsumerInv, ProducerInv, CallInv
<1>2. UNCHANGED <<write, pVars>>
  BY OtherSide
<1>3. ProducerInv'
  BY <1>2 DEF IndexInv, ProducerInv, Seen, pVars
<1>4. CASE \/ \E n \in 1 .. MaxSlice : StartPop(n)
           \/ PopPoll \/ PopCancel \/ PopCopy \/ PopSignal \/ PopSignalOn
           \/ PopReturn \/ PopRegister \/ PopArm \/ PopDisarm
  <2>1. UNCHANGED <<read, cwrite, cn>>
    BY <1>4 DEF shared, cVars, StartPop, PopPoll, PopCancel, PopCopy, PopSignal,
                PopSignalOn, PopReturn, PopRegister, PopArm, PopDisarm
  <2>2. Used' = Used /\ Seen' = Seen /\ Avail' = Avail
    BY <1>2, <2>1 DEF Used, Seen, Avail, pVars
  <2> DEFINE Good(pc, m, k, u) == k <= MaxSlice /\ CallInv(pc, m, cn, k, Avail, u)
  <2>3. Good(cpc', cmode', want', cuntold')
    <3>1. ASSUME NEW n \in 1 .. MaxSlice, StartPop(n) PROVE Good(cpc', cmode', want', cuntold')
      <4>1. n \in Nat /\ n <= MaxSlice
        BY <1>0
      <4> QED  BY <1>1, <3>1, <4>1, CallSteps, Zenon DEF StartPop
    <3>2. CASE PopPoll
      BY <1>1, <3>2, CallSteps, Zenon DEF PopPoll
    <3>3. CASE PopCancel
      <4>1. /\ cpc = "parked" /\ cpc' = "idle" /\ cmode' = "first" /\ cuntold' = cuntold
            /\ want' = 0
        BY <3>3 DEF PopCancel
      <4>2. CallInv("idle", "first", cn, 0, Avail, cuntold)
        BY <1>1, <4>1, CallSteps, Zenon
      <4> QED  BY <1>0, <4>1, <4>2
    <3>4. CASE PopCopy
      BY <1>1, <3>4, CallSteps, Zenon DEF PopCopy
    <3>5. CASE PopSignal
      BY <1>1, <3>5, CallSteps, Zenon DEF PopSignal
    <3>6. CASE PopSignalOn
      BY <1>1, <3>6 DEF PopSignalOn, cVars
    <3>7. CASE PopRegister
      BY <1>1, <3>7, CallSteps, Zenon DEF PopRegister
    <3>8. CASE PopArm
      BY <1>1, <3>8, CallSteps, Zenon DEF PopArm
    <3>9. CASE PopDisarm
      BY <1>1, <3>9, CallSteps, Zenon DEF PopDisarm
    <3>10. CASE PopReturn
      <4>1. cpc = "return" /\ cuntold' = (cuntold /\ ~Recorded(cmode, want))
        BY <3>10 DEF PopReturn
      <4>2. cuntold' \in BOOLEAN
        BY <4>1
      <4>3. CASE want' = 0 /\ cpc' \in {"idle", "disarm"} /\ cmode' = "first"
        <5>1. CallInv(cpc', "first", cn, 0, Avail, cuntold')
          BY <1>1, <4>1, <4>2, <4>3, CallReturns, Zenon
        <5> QED  BY <1>0, <4>3, <5>1
      <4>4. CASE /\ want > 0 /\ UNCHANGED want
                 /\ \/ cmode = "first" /\ cpc' = "try" /\ cmode' = "fast"
                    \/ cmode = "fast" /\ cpc' = "register" /\ UNCHANGED cmode
                    \/ cmode = "slow" /\ cpc' = "parked" /\ UNCHANGED cmode
        <5>1. cuntold' = FALSE
          BY <4>1, <4>4, Zenon DEF Recorded
        <5> QED  BY <1>1, <4>1, <4>2, <4>4, <5>1, CallReturns, Zenon
      <4> QED  BY <3>10, <4>3, <4>4 DEF PopReturn
    <3> QED  BY <1>4, <3>1, <3>2, <3>3, <3>4, <3>5, <3>6, <3>7, <3>8, <3>9, <3>10
  <2>4. ConsumerInv'
    BY <1>1, <2>1, <2>2, <2>3 DEF ConsumerInv
  <2> QED  BY <1>1, <1>3, <2>2, <2>4, SMTT(30) DEF IndexInv, CacheInv
<1>5. CASE TryPop \/ AvailableCount
  <2>1. UNCHANGED <<read, cmode, want, cuntold>> /\ cwrite' \in {cwrite, write}
    BY <1>5 DEF TryPop, AvailableCount, shared
  <2>2. Used' = Used /\ Seen' = Seen /\ (Avail' = Avail \/ Avail' = Used)
    BY <1>2, <2>1 DEF Used, Seen, Avail, pVars
  <2>3. CacheInv' /\ Avail' \in Nat
    BY <1>0, <1>1, <2>2 DEF CacheInv
  <2>4. CallInv(cpc', cmode', cn', want', Avail', cuntold')
    <3>1. CASE AvailableCount
      BY <1>1, <2>1, <2>3, <3>1, CallSteps, Zenon DEF AvailableCount
    <3>2. CASE TryPop
      <4>1. /\ cpc = "try" /\ cn' = Least(want, Avail')
            /\ cpc' = IF cn' = 0 THEN "return" ELSE "copy"
        BY <2>1, <3>2 DEF TryPop, Avail
      <4> QED  BY <1>1, <2>1, <2>3, <4>1, CallTries
    <3> QED  BY <1>5, <3>1, <3>2
  <2>5. ConsumerInv'
    BY <1>1, <2>1, <2>4 DEF ConsumerInv
  <2> QED  BY <1>3, <2>3, <2>5 DEF IndexInv
<1>6. CASE PopPublish
  <2>1. /\ cpc = "publish" /\ cpc' = "signal" /\ read' = Plus(read, cn)
        /\ want' = want - cn /\ cuntold' = TRUE /\ cn' = 0 /\ UNCHANGED <<cmode, cwrite>>
    BY <1>6 DEF PopPublish
  <2>2. /\ cn \in 0 .. Cap /\ cn <= Used /\ read' \in Index
        /\ Used' = Used - cn /\ Avail' = Avail - cn /\ Seen' = Seen
    BY <1>2, <2>1, GiveBackDistance DEF pVars
  <2>3. CallInv("signal", cmode, 0, want - cn, Avail - cn, TRUE)
    BY <1>1, <2>1, CallPublishes, Zenon
  <2>4. want - cn <= MaxSlice /\ cn \in Nat
    BY <1>0, <1>1, <2>2, SizesAssumption
  <2>5. ConsumerInv'
    BY <1>1, <2>1, <2>2, <2>3, <2>4, Zenon DEF ConsumerInv
  <2>6. CacheInv'
    BY <1>0, <1>1, <2>2, <2>4 DEF CacheInv
  <2> QED  BY <1>3, <2>5, <2>6 DEF IndexInv
<1> QED  BY <1>4, <1>5, <1>6 DEF ConsumerMoves, ConsumerStep

-----------------------------------------------------------------------------
(* The buffer. *)

\* The batches and the places they go to.
LEMMA Batches ==
  ASSUME IndexInv
  PROVE  /\ pn \in 0 .. Cap /\ cn \in 0 .. Cap /\ Used \in 0 .. Cap
         /\ Used + pn <= Cap /\ cn <= Used /\ pn <= Len(todo)
         /\ read \in Index /\ write \in Index /\ Cap \in Nat \ {0}
         /\ (ppc # "publish" => Filled = 0) /\ (ppc = "publish" => Filled = pn)
         /\ (cpc # "publish" => Emptied = 0) /\ (cpc = "publish" => Emptied = cn)
<1>1. /\ Used \in Nat /\ Seen \in Nat /\ Avail \in Nat /\ Used <= Cap /\ Cap \in Nat \ {0}
      /\ Used <= Seen /\ Avail <= Used
  BY Numbers DEF IndexInv, CacheInv
<1>2. pn \in Nat /\ pn <= Cap - Seen /\ pn <= Len(todo)
  <2>1. CallInv(ppc, pmode, pn, Len(todo), Cap - Seen, puntold)
    BY DEF IndexInv, ProducerInv
  <2> QED  BY <2>1 DEF CallInv
<1>3. cn \in Nat /\ cn <= Avail
  <2>1. CallInv(cpc, cmode, cn, want, Avail, cuntold)
    BY DEF IndexInv, ConsumerInv
  <2> QED  BY <2>1 DEF CallInv
<1>4. /\ (ppc # "publish" => Filled = 0) /\ (ppc = "publish" => Filled = pn)
      /\ (cpc # "publish" => Emptied = 0) /\ (cpc = "publish" => Emptied = cn)
  BY DEF Filled, Emptied
<1> QED  BY <1>1, <1>2, <1>3, <1>4 DEF IndexInv, ProducerInv, ConsumerInv

\* The slots from write_index on are those Used places after read_index.
LEMMA WritePlace ==
  ASSUME IndexInv, NEW d \in Nat
  PROVE  Place(write, d) = Place(read, Used + d)
<1>1. read \in Index /\ write \in Index /\ Used \in 0 .. Cap
  BY Batches
<1>2. /\ Used = IF read <= write THEN write - read ELSE write - read + Modulus
      /\ Plus(read, Used) = IF read + Used < Modulus THEN read + Used ELSE read + Used - Modulus
  BY <1>1, Wrapping DEF Used
<1>3. Plus(read, Used) = write
  BY <1>1, <1>2, SizesAssumption DEF Index
<1> QED  BY <1>1, <1>3, PlaceAfter

\* What the producer's copy does to the slots.
LEMMA CopiedIn ==
  ASSUME IndexInv, BufferInv, PushCopy
  PROVE  /\ buf' \in [0 .. Cap - 1 -> Index \cup {Uninit}]
         /\ \A d \in 0 .. Cap - 1 :
              buf'[Place(read, d)] = IF Used <= d /\ d < Used + pn THEN todo[d - Used + 1]
                                     ELSE buf[Place(read, d)]
<1>0. /\ pn \in 0 .. Cap /\ Used \in 0 .. Cap /\ Used + pn <= Cap /\ pn <= Len(todo)
      /\ read \in Index /\ write \in Index /\ Cap \in Nat \ {0}
      /\ todo \in Seq(Index) /\ buf \in [0 .. Cap - 1 -> Index \cup {Uninit}]
  BY Batches DEF IndexInv, ProducerInv, BufferInv
<1>1. \A k \in 1 .. pn : SlotOf(write, pn, k) = Place(read, Used + k - 1)
  <2> TAKE k \in 1 .. pn
  <2>1. SlotOf(write, pn, k) = Place(write, k - 1)
    BY <1>0, SlotOfPlace
  <2>2. k - 1 \in Nat /\ Used + (k - 1) = Used + k - 1
    BY <1>0
  <2>3. Place(write, k - 1) = Place(read, Used + (k - 1))
    BY <2>2, WritePlace
  <2> QED  BY <2>1, <2>2, <2>3
<1>2. \A d, e \in 0 .. Cap - 1 : Place(read, d) = Place(read, e) => d = e
  BY <1>0, Places
<1>3. \A d \in 0 .. Cap - 1 : Place(read, d) \in 0 .. Cap - 1
  <2>1. \A d \in Nat : Place(read, d) \in 0 .. Cap - 1
    BY <1>0, Places, Zenon
  <2>2. \A d \in 0 .. Cap - 1 : d \in Nat
    BY <1>0
  <2> QED  BY <2>1, <2>2
<1>4. buf' = [i \in 0 .. Cap - 1 |->
                IF \E k \in 1 .. pn : SlotOf(write, pn, k) = i
                THEN todo[CHOOSE k \in 1 .. pn : SlotOf(write, pn, k) = i]
                ELSE buf[i]]
  <2>1. DOMAIN buf = 0 .. Cap - 1
    BY <1>0
  <2> QED  BY <2>1, Zenon DEF PushCopy
<1>5. ASSUME NEW d \in 0 .. Cap - 1
      PROVE  buf'[Place(read, d)] = IF Used <= d /\ d < Used + pn THEN todo[d - Used + 1]
                                    ELSE buf[Place(read, d)]
  <2> DEFINE i == Place(read, d)
             Here(k) == SlotOf(write, pn, k) = i
  <2>1. \A k \in 1 .. pn : Here(k) <=> k = d - Used + 1
    <3> SUFFICES ASSUME NEW k \in 1 .. pn PROVE Here(k) <=> k = d - Used + 1
      OBVIOUS
    <3>1. Used + k - 1 \in 0 .. Cap - 1
      BY <1>0
    <3>2. Here(k) <=> Used + k - 1 = d
      BY <1>1, <1>2, <3>1
    <3> QED  BY <1>0, <3>2
  <2>2. buf'[i] = IF \E k \in 1 .. pn : Here(k) THEN todo[CHOOSE k \in 1 .. pn : Here(k)]
                  ELSE buf[i]
    BY <1>3, <1>4
  <2> HIDE DEF Here
  <2>3. CASE Used <= d /\ d < Used + pn
    <3>1. d - Used + 1 \in 1 .. pn
      BY <1>0, <2>3
    <3>2. (CHOOSE k \in 1 .. pn : Here(k)) = d - Used + 1
      BY <2>1, <3>1
    <3> QED  BY <2>1, <2>2, <2>3, <3>1, <3>2
  <2>4. CASE ~(Used <= d /\ d < Used + pn)
    <3>1. d - Used + 1 \notin 1 .. pn
      BY <1>0, <2>4
    <3> QED  BY <2>1, <2>2, <2>4, <3>1
  <2> QED  BY <2>3, <2>4
<1>6. ASSUME NEW i \in 0 .. Cap - 1 PROVE buf'[i] \in Index \cup {Uninit}
  <2>1. CASE \E k \in 1 .. pn : SlotOf(write, pn, k) = i
    <3> DEFINE c == CHOOSE k \in 1 .. pn : SlotOf(write, pn, k) = i
    <3>1. c \in 1 .. pn
      BY <2>1
    <3>2. buf'[i] = todo[c]
      BY <1>4, <2>1
    <3> HIDE DEF c
    <3>3. c \in 1 .. Len(todo)
      BY <1>0, <3>1
    <3> QED  BY <1>0, <3>2, <3>3
  <2>2. CASE ~\E k \in 1 .. pn : SlotOf(write, pn, k) = i
    BY <1>0, <1>4, <2>2
  <2> QED  BY <2>1, <2>2
<1>7. buf' \in [0 .. Cap - 1 -> Index \cup {Uninit}]
  BY <1>4, <1>6
<1> QED  BY <1>5, <1>7

\* What the consumer's move out does to the slots.
LEMMA MovedOut ==
  ASSUME IndexInv, BufferInv, PopCopy
  PROVE  /\ buf' \in [0 .. Cap - 1 -> Index \cup {Uninit}]
         /\ \A d \in 0 .. Cap - 1 :
              buf'[Place(read, d)] = IF d < cn THEN Uninit ELSE buf[Place(read, d)]
         /\ hold' \in Seq(Index) /\ Len(hold') = cn
         /\ \A k \in 1 .. cn : hold'[k] = buf[Place(read, k - 1)]
<1>0. /\ cn \in 0 .. Cap /\ Used \in 0 .. Cap /\ cn <= Used
      /\ read \in Index /\ Cap \in Nat \ {0}
      /\ buf \in [0 .. Cap - 1 -> Index \cup {Uninit}]
  BY Batches DEF IndexInv, BufferInv
<1>1. \A k \in 1 .. cn : SlotOf(read, cn, k) = Place(read, k - 1)
  BY <1>0, SlotOfPlace
<1>2. \A d, e \in 0 .. Cap - 1 : Place(read, d) = Place(read, e) => d = e
  BY <1>0, Places
<1>3. \A d \in 0 .. Cap - 1 : Place(read, d) \in 0 .. Cap - 1
  <2>1. \A d \in Nat : Place(read, d) \in 0 .. Cap - 1
    BY <1>0, Places, Zenon
  <2>2. \A d \in 0 .. Cap - 1 : d \in Nat
    BY <1>0
  <2> QED  BY <2>1, <2>2
<1>4. /\ hold' = [k \in 1 .. cn |-> buf[SlotOf(read, cn, k)]]
      /\ buf' = [i \in 0 .. Cap - 1 |-> IF i \in Span(read, cn) THEN Uninit ELSE buf[i]]
      /\ cpc = "copy"
  <2>1. DOMAIN buf = 0 .. Cap - 1
    BY <1>0
  <2> QED  BY <2>1, Zenon DEF PopCopy
<1>5. ASSUME NEW d \in 0 .. Cap - 1 PROVE Place(read, d) \in Span(read, cn) <=> d < cn
  <2>1. ASSUME d < cn PROVE Place(read, d) \in Span(read, cn)
    <3>1. d + 1 \in 1 .. cn /\ (d + 1) - 1 = d
      BY <1>0, <2>1
    <3> QED  BY <1>1, <3>1 DEF Span
  <2>2. ASSUME Place(read, d) \in Span(read, cn) PROVE d < cn
    <3>1. PICK k \in 1 .. cn : Place(read, d) = Place(read, k - 1)
      BY <1>1, <2>2 DEF Span
    <3>2. k - 1 \in 0 .. Cap - 1
      BY <1>0
    <3>3. d = k - 1
      BY <1>2, <3>1, <3>2
    <3> QED  BY <1>0, <3>3
  <2> QED  BY <2>1, <2>2
<1>6. \A d \in 0 .. Cap - 1 :
         buf'[Place(read, d)] = IF d < cn THEN Uninit ELSE buf[Place(read, d)]
  BY <1>3, <1>4, <1>5
<1>7. buf' \in [0 .. Cap - 1 -> Index \cup {Uninit}]
  BY <1>0, <1>4
<1>8. \A k \in 1 .. cn : hold'[k] = buf[Place(read, k - 1)] /\ hold'[k] \in Index
  <2> TAKE k \in 1 .. cn
  <2>1. hold'[k] = buf[Place(read, k - 1)]
    BY <1>1, <1>4
  <2>2. k - 1 \in 0 .. Cap - 1 /\ k - 1 < Used /\ 0 <= k - 1
    BY <1>0
  <2>3. Emptied = 0 /\ Filled \in Nat
    BY <1>0, <1>4, Batches
  <2>4. buf[Place(read, k - 1)] # Uninit
    BY <1>0, <2>2, <2>3 DEF BufferInv
  <2> QED  BY <1>0, <1>3, <2>1, <2>2, <2>4
<1>9. hold' \in Seq(Index) /\ Len(hold') = cn
  <2>1. hold' = [k \in 1 .. cn |-> hold'[k]] /\ cn \in Nat
    BY SMTT(30), <1>0, <1>4
  <2> QED  BY <1>8, <2>1
<1> QED  BY <1>6, <1>7, <1>8, <1>9

\* The steps that neither copy nor publish.
LEMMA OtherMoves ==
  /\ ProducerMoves /\ ~PushCopy /\ ~PushPublish =>
       /\ UNCHANGED <<buf, write>>
       /\ ppc' = "publish" <=> ppc = "publish"
       /\ ppc' = "publish" => UNCHANGED <<pn, todo>>
  /\ ConsumerMoves /\ ~PopCopy /\ ~PopPublish =>
       /\ UNCHANGED <<buf, read>>
       /\ cpc' = "publish" <=> cpc = "publish"
       /\ cpc' = "publish" => UNCHANGED <<cn, hold>>
       /\ hold' = hold \/ hold' = <<>>
       /\ PopSignal \/ (cpc' # "signal" /\ cpc # "signal") \/ UNCHANGED cVars
BY DEF ProducerMoves, ProducerStep, shared, pVars, StartPush, FreeCount, PushPoll, PushCancel,
       TryPush, PushSignal, PushSignalOn, PushReturn, PushRegister, PushArm, PushDisarm,
       ConsumerMoves, ConsumerStep, cVars, StartPop, AvailableCount, PopPoll, PopCancel,
       TryPop, PopSignal, PopSignalOn, PopReturn, PopRegister, PopArm, PopDisarm

\* Steps that touch neither the slots nor a batch that is being copied.
LEMMA BufferUntouched ==
  ASSUME BufferInv, UNCHANGED <<buf, write, read>>, hold' \in Seq(Index),
         ppc' = "publish" <=> ppc = "publish", ppc' = "publish" => UNCHANGED <<pn, todo>>,
         cpc' = "publish" <=> cpc = "publish", cpc' = "publish" => UNCHANGED <<cn, hold>>
  PROVE  BufferInv'
<1>1. Used' = Used /\ Filled' = Filled /\ Emptied' = Emptied
  BY DEF Used, Filled, Emptied
<1> QED  BY <1>1 DEF BufferInv

\* The producer's steps keep the account of the slots.
LEMMA ProducerKeepsBuffer == ASSUME IndexInv, BufferInv, ProducerMoves PROVE BufferInv'
<1>0. /\ pn \in 0 .. Cap /\ Used \in 0 .. Cap /\ Used + pn <= Cap /\ Cap \in Nat \ {0}
      /\ cn \in 0 .. Cap /\ cn <= Used
      /\ todo \in Seq(Index) /\ pn <= Len(todo)
      /\ (cpc # "publish" => Emptied = 0) /\ (cpc = "publish" => Emptied = cn)
  BY Batches DEF IndexInv, ProducerInv
<1>1. UNCHANGED <<read, cpc, cn, hold>>
  BY OtherSide DEF cVars
<1>2. Emptied' = Emptied /\ hold' \in Seq(Index)
  BY <1>1 DEF Emptied, BufferInv
<1>3. CASE PushCopy
  <2>1. ppc = "copy" /\ ppc' = "publish" /\ UNCHANGED <<write, pn, todo>>
    BY <1>3 DEF PushCopy
  <2>2. Used' = Used /\ Filled' = pn /\ Filled = 0
    BY <1>1, <2>1 DEF Used, Filled
  <2>3. /\ buf' \in [0 .. Cap - 1 -> Index \cup {Uninit}]
        /\ \A d \in 0 .. Cap - 1 :
             buf'[Place(read, d)] = IF Used <= d /\ d < Used + pn THEN todo[d - Used + 1]
                                    ELSE buf[Place(read, d)]
    BY <1>3, CopiedIn
  <2>4. ASSUME NEW d \in 0 .. Cap - 1
        PROVE  buf'[Place(read, d)] # Uninit <=> Emptied <= d /\ d < Used + pn
    <3>1. CASE Used <= d /\ d < Used + pn
      <4>1. d - Used + 1 \in 1 .. Len(todo)
        BY <1>0, <3>1
      <4>2. todo[d - Used + 1] \in Index
        BY <1>0, <4>1
      <4>3. buf'[Place(read, d)] # Uninit
        <5>1. buf'[Place(read, d)] = todo[d - Used + 1]
          BY ONLY <2>3, <2>4, <3>1, Zenon
        <5> QED  BY ONLY <4>2, <5>1, SizesAssumption DEF Index, Uninit
      <4>4. Emptied <= d
        BY <1>0, <3>1
      <4> QED  BY <3>1, <4>3, <4>4
    <3>2. CASE ~(Used <= d /\ d < Used + pn)
      <4>1. buf'[Place(read, d)] = buf[Place(read, d)]
        BY <2>3, <3>2
      <4>2. buf[Place(read, d)] # Uninit <=> Emptied <= d /\ d < Used
        BY <1>0, <2>2 DEF BufferInv
      <4> QED  BY <1>0, <3>2, <4>1, <4>2
    <3> QED  BY <3>1, <3>2
  <2>5. ASSUME NEW k \in 1 .. pn PROVE buf'[Place(read, Used + k - 1)] = todo[k]
    <3>1. /\ Used + k - 1 \in 0 .. Cap - 1 /\ (Used + k - 1) - Used + 1 = k
          /\ Used <= Used + k - 1 /\ Used + k - 1 < Used + pn
      BY <1>0, SMTT(30)
    <3> QED  BY <2>3, <3>1
  <2> QED  BY <1>1, <1>2, <2>1, <2>2, <2>3, <2>4, <2>5 DEF BufferInv
<1>4. CASE PushPublish
  <2>1. /\ ppc = "publish" /\ ppc' = "signal" /\ write' = Plus(write, pn)
        /\ pn' = 0 /\ UNCHANGED <<buf, pread>>
    BY <1>4 DEF PushPublish
  <2>2. Used' = Used + pn
    BY <1>1, <2>1, PublishDistance, OtherSide DEF cVars
  <2>3. Filled = pn /\ Filled' = 0
    BY <2>1 DEF Filled
  <2>4. Used' + Filled' = Used + Filled
    BY <1>0, <2>2, <2>3
  <2> QED  BY <1>1, <1>2, <2>1, <2>4 DEF BufferInv
<1>5. CASE ~PushCopy /\ ~PushPublish
  <2>1. /\ UNCHANGED <<buf, write>>
        /\ ppc' = "publish" <=> ppc = "publish"
        /\ ppc' = "publish" => UNCHANGED <<pn, todo>>
    BY <1>5, OtherMoves
  <2> QED  BY <1>1, <1>2, <2>1, BufferUntouched
<1> QED  BY <1>3, <1>4, <1>5

\* The consumer's steps keep the account of the slots.
LEMMA ConsumerKeepsBuffer == ASSUME IndexInv, BufferInv, ConsumerMoves PROVE BufferInv'
<1>0. /\ pn \in 0 .. Cap /\ Used \in 0 .. Cap /\ Used + pn <= Cap /\ Cap \in Nat \ {0}
      /\ cn \in 0 .. Cap /\ cn <= Used /\ read \in Index
      /\ (ppc # "publish" => Filled = 0) /\ (ppc = "publish" => Filled = pn)
  BY Batches
<1>1. UNCHANGED <<write, ppc, pn, todo, pread>>
  BY OtherSide DEF pVars
<1>2. Filled' = Filled /\ Filled \in 0 .. pn
  BY <1>0, <1>1 DEF Filled
<1>3. CASE PopCopy
  <2>1. cpc = "copy" /\ cpc' = "publish" /\ UNCHANGED <<read, cn>>
    BY <1>3 DEF PopCopy
  <2>2. Used' = Used /\ Emptied' = cn /\ Emptied = 0
    BY <1>1, <2>1 DEF Used, Emptied
  <2>3. /\ buf' \in [0 .. Cap - 1 -> Index \cup {Uninit}]
        /\ \A d \in 0 .. Cap - 1 :
             buf'[Place(read, d)] = IF d < cn THEN Uninit ELSE buf[Place(read, d)]
        /\ hold' \in Seq(Index) /\ Len(hold') = cn
    BY <1>3, MovedOut
  <2>4. ASSUME NEW d \in 0 .. Cap - 1
        PROVE  buf'[Place(read, d)] # Uninit <=> cn <= d /\ d < Used + Filled
    <3>1. buf[Place(read, d)] # Uninit <=> d < Used + Filled
      BY <2>2 DEF BufferInv
    <3> QED  BY <1>0, <1>2, <2>3, <3>1
  <2>5. ASSUME ppc = "publish", NEW k \in 1 .. pn
        PROVE  buf'[Place(read, Used + k - 1)] = todo[k]
    <3>1. Used + k - 1 \in 0 .. Cap - 1 /\ ~(Used + k - 1 < cn)
      BY <1>0
    <3>2. buf[Place(read, Used + k - 1)] = todo[k]
      BY <2>5 DEF BufferInv
    <3> QED  BY <2>3, <3>1, <3>2
  <2> QED  BY <1>1, <1>2, <2>1, <2>2, <2>3, <2>4, <2>5 DEF BufferInv
<1>4. CASE PopPublish
  <2>1. /\ cpc = "publish" /\ cpc' = "signal" /\ read' = Plus(read, cn) /\ UNCHANGED <<buf, cwrite, hold>>
    BY <1>4 DEF PopPublish
  <2>2. Used' = Used - cn
    BY <1>1, <2>1, GiveBackDistance
  <2>3. Emptied = cn /\ Emptied' = 0
    BY <2>1 DEF Emptied
  <2>4. \A d \in Nat : Place(read', d) = Place(read, cn + d)
    BY <1>0, <2>1, PlaceAfter
  <2>5. ASSUME NEW d \in 0 .. Cap - 1
        PROVE  buf[Place(read', d)] # Uninit <=> 0 <= d /\ d < Used' + Filled
    <3>1. Place(read', d) = Place(read, cn + d)
      BY <1>0, <2>4
    <3>2. CASE cn + d < Cap
      <4>1. cn + d \in 0 .. Cap - 1
        BY <1>0, <3>2
      <4>2. buf[Place(read, cn + d)] # Uninit <=> cn <= cn + d /\ cn + d < Used + Filled
        BY <2>3, <4>1 DEF BufferInv
      <4> QED  BY <1>0, <1>2, <2>2, <3>1, <4>2
    <3>3. CASE ~(cn + d < Cap)
      <4> DEFINE e == cn + d - Cap
      <4>1. e \in 0 .. Cap - 1 /\ e \in Nat /\ e + Cap = cn + d /\ e < cn
        BY <1>0, <3>3
      <4>2. Place(read, cn + d) = Place(read, e)
        BY <1>0, <4>1, Places
      <4>3. buf[Place(read, e)] # Uninit <=> cn <= e /\ e < Used + Filled
        BY <2>3, <4>1 DEF BufferInv
      <4>4. ~(d < Used' + Filled)
        BY <1>0, <1>2, <2>2, <3>3
      <4> HIDE DEF e
      <4>5. ~(cn <= e)
        BY <1>0, <4>1
      <4> QED  BY <3>1, <4>2, <4>3, <4>4, <4>5
    <3> QED  BY <3>2, <3>3
  <2>6. ASSUME ppc = "publish", NEW k \in 1 .. pn
        PROVE  buf[Place(read', Used' + k - 1)] = todo[k]
    <3>1. Used' + k - 1 \in Nat /\ cn + (Used' + k - 1) = Used + k - 1
      BY <1>0, <2>2
    <3>2. Place(read', Used' + k - 1) = Place(read, Used + k - 1)
      BY <2>4, <3>1
    <3> QED  BY <2>6, <3>2 DEF BufferInv
  <2> QED  BY <1>1, <1>2, <2>1, <2>3, <2>5, <2>6 DEF BufferInv
<1>5. CASE ~PopCopy /\ ~PopPublish
  <2>1. /\ UNCHANGED <<buf, read>>
        /\ cpc' = "publish" <=> cpc = "publish"
        /\ cpc' = "publish" => UNCHANGED <<cn, hold>>
        /\ hold' = hold \/ hold' = <<>>
    BY <1>5, OtherMoves
  <2>2. <<>> \in Seq(Index)
    OBVIOUS
  <2>3. hold' \in Seq(Index)
    BY <2>1, <2>2, ZenonT(40) DEF BufferInv
  <2> QED  BY <1>1, <2>1, <2>3, BufferUntouched
<1> QED  BY <1>3, <1>4, <1>5

-----------------------------------------------------------------------------
(* The slots. *)

\* A waiter that is not armed asks nothing of its slot.
LEMMA WaiterAwake ==
  ASSUME NEW s, NEW w, NEW t, NEW wpc, NEW wm, NEW fresh, NEW tpc,
         SlotInv(s, w, t, wpc, wm, fresh, tpc),
         NEW n \in SlotType({w}, {t}), n.sig = s.sig,
         NEW pc, NEW m, NEW f, pc # "arm", m # "slow"
  PROVE  SlotInv(n, w, t, pc, m, f, tpc)
BY DEF SlotInv, Quiet

\* register() stores the waker, and the store of arm() makes a signal() see it.
LEMMA WaiterArms ==
  ASSUME NEW s, NEW w, NEW t, NEW wpc, NEW wm, NEW fresh, NEW tpc,
         SlotInv(s, w, t, wpc, wm, fresh, tpc)
  PROVE  /\ \A n \in RegisterWaker(s, w) : SlotInv(n, w, t, "arm", "fast", fresh, tpc)
         /\ wpc = "arm" => SlotInv(SetArmed(s), w, t, "try", "slow", fresh, tpc)
<1>0. s \in SlotType({w}, {t}) /\ w \in {w} /\ t \in {t} /\ (tpc = "return" \/ Quiet(s, t))
  BY DEF SlotInv
<1>1. ASSUME NEW n \in RegisterWaker(s, w) PROVE SlotInv(n, w, t, "arm", "fast", fresh, tpc)
  <2>1. n \in SlotType({w}, {t})
    BY <1>0, SlotOpsType, ZenonT(30)
  <2>2. Registered(n, w) /\ n.sig = s.sig
    BY <1>0, WaiterOps, ZenonT(30)
  <2> QED  BY <1>0, <2>1, <2>2 DEF SlotInv, Quiet
<1>2. ASSUME wpc = "arm" PROVE SlotInv(SetArmed(s), w, t, "try", "slow", fresh, tpc)
  <2>1. SetArmed(s) \in SlotType({w}, {t})
    BY <1>0, SlotOpsType, ZenonT(30)
  <2>2. SetArmed(s).armed /\ SetArmed(s).sig = s.sig
    BY <1>0 DEF SetArmed, SlotType
  <2>3. Registered(SetArmed(s), w)
    <3>1. Registered(s, w)
      BY <1>2 DEF SlotInv
    <3> QED  BY <1>0, <3>1, WaiterOps, ZenonT(30)
  <2> QED  BY <1>0, <2>1, <2>2, <2>3 DEF SlotInv, Quiet
<1> QED  BY <1>1, <1>2

\* The attempt of an armed waiter: it looks at the other side's index, and what it
\* does after that keeps what it saw.
LEMMA WaiterLooks ==
  ASSUME NEW s, NEW w, NEW t, NEW wpc, NEW wm, NEW fresh, NEW tpc,
         SlotInv(s, w, t, wpc, wm, fresh, tpc), NEW pc, pc # "arm", pc # "try"
  PROVE  /\ SlotInv(s, w, t, pc, wm, TRUE, tpc)
         /\ wpc # "try" => SlotInv(s, w, t, pc, wm, fresh, tpc)
BY DEF SlotInv

\* The signaller's store makes what the waiter saw stale, but it is about to look at
\* the flag; its load of the flag and the rest of signal() wake an armed waiter.
LEMMA SignallerWakes ==
  ASSUME NEW s, NEW w, NEW t, NEW wpc, NEW wm, NEW fresh, NEW tpc, w # NoWaker,
         SlotInv(s, w, t, wpc, wm, fresh, tpc)
  PROVE  /\ tpc = "publish" => \A f : SlotInv(s, w, t, wpc, wm, f, "signal")
         /\ tpc = "signal" => SlotInv(SignalLoad(s, t), w, t, wpc, wm, fresh, "return")
         /\ ~Quiet(s, t) => SlotInv(SignalStep(s, t), w, t, wpc, wm, fresh, tpc)
         /\ tpc # "signal" /\ Quiet(s, t) => \A pc : SlotInv(s, w, t, wpc, wm, fresh, pc)
<1>0. s \in SlotType({w}, {t}) /\ w \in {w} /\ t \in {t} /\ (tpc = "return" \/ Quiet(s, t))
  BY DEF SlotInv
<1>1. ASSUME tpc = "publish", NEW f PROVE SlotInv(s, w, t, wpc, wm, f, "signal")
  BY <1>1 DEF SlotInv
<1>2. ASSUME tpc = "signal" PROVE SlotInv(SignalLoad(s, t), w, t, wpc, wm, fresh, "return")
  <2> DEFINE n == SignalLoad(s, t)
  <2>1. n \in SlotType({w}, {t})
    BY <1>0, SlotOpsType, ZenonT(30)
  <2>2. Quiet(s, t)
    BY <1>0, <1>2
  <2>3. /\ n.armed <=> s.armed
        /\ Registered(s, w) => Registered(n, w)
        /\ WakeComing(s, w) => WakeComing(n, w)
        /\ s.armed /\ Registered(s, w) => WakeComing(n, w)
    BY <1>0, <2>2, SignalLoadWakes, ZenonT(30)
  <2> HIDE DEF n
  <2>4. SlotInv(n, w, t, wpc, wm, fresh, "return")
    BY <1>2, <2>1, <2>3 DEF SlotInv
  <2> QED  BY <2>4 DEF n
<1>3. ASSUME ~Quiet(s, t) PROVE SlotInv(SignalStep(s, t), w, t, wpc, wm, fresh, tpc)
  <2> DEFINE n == SignalStep(s, t)
  <2>1. n \in SlotType({w}, {t})
    BY <1>0, SlotOpsType, ZenonT(30)
  <2>2. tpc = "return"
    BY <1>0, <1>3
  <2>3. Registered(s, w) =>
          /\ Registered(n, w)
          /\ WakeComing(s, w) => WakeComing(n, w)
          /\ s.armed => n.armed \/ WakeComing(n, w)
    BY <1>0, <1>3, SignalStepWakes, ZenonT(30)
  <2> HIDE DEF n
  <2>4. SlotInv(n, w, t, wpc, wm, fresh, tpc)
    BY <2>1, <2>2, <2>3 DEF SlotInv
  <2> QED  BY <2>4 DEF n
<1>4. ASSUME tpc # "signal", Quiet(s, t), NEW pc PROVE SlotInv(s, w, t, wpc, wm, fresh, pc)
  BY <1>4 DEF SlotInv
<1> QED  BY <1>1, <1>2, <1>3, <1>4

\* The producer's steps keep both slots: it waits on its own and signals the other.
LEMMA ProducerKeepsWake == ASSUME IndexInv, WakeInv, ProducerMoves PROVE WakeInv'
<1>0. /\ SlotInv(pslot, P, C, ppc, pmode, pread = read, cpc)
      /\ SlotInv(cslot, C, P, cpc, cmode, cwrite = write, ppc)
      /\ P # NoWaker /\ C # NoWaker /\ P \in {P} /\ C \in {C}
  BY DEF WakeInv, P, C, NoWaker
<1>1. UNCHANGED <<read, cpc, cmode, cwrite>>
  BY OtherSide DEF cVars
<1>2. /\ pslot \in SlotType({P}, {C}) /\ (ppc = "return" \/ Quiet(cslot, P))
  BY <1>0 DEF SlotInv
<1>3. /\ ppc \in {"idle", "disarm"} => pmode = "first"
      /\ ppc \in {"register", "arm"} => pmode = "fast"
      /\ ppc = "try" /\ pmode = "slow" => Seen >= Cap
  <2>1. CallInv(ppc, pmode, pn, Len(todo), Cap - Seen, puntold) /\ Seen \in Nat /\ Cap \in Nat
    BY Numbers DEF IndexInv, ProducerInv
  <2> QED  BY <2>1 DEF CallInv
<1>4. SlotInv(cslot', C, P, cpc, cmode, cwrite = write', ppc')
  <2>1. CASE PushPublish
    <3>1. ppc = "publish" /\ ppc' = "signal" /\ cslot' = cslot
      BY <2>1 DEF PushPublish
    <3>2. \A f : SlotInv(cslot, C, P, cpc, cmode, f, "signal")
      BY <1>0, <3>1, SignallerWakes, ZenonT(30)
    <3> QED  BY <3>1, <3>2
  <2>2. CASE PushSignal
    <3>1. ppc = "signal" /\ ppc' = "return" /\ cslot' = SignalLoad(cslot, P) /\ write' = write
      BY <2>2 DEF PushSignal, shared
    <3>2. SlotInv(SignalLoad(cslot, P), C, P, cpc, cmode, cwrite = write, "return")
      BY <1>0, <3>1, SignallerWakes, ZenonT(30)
    <3> QED  BY <3>1, <3>2
  <2>3. CASE PushSignalOn
    <3>1. ~Quiet(cslot, P) /\ ppc' = ppc /\ cslot' = SignalStep(cslot, P) /\ write' = write
      BY <2>3 DEF PushSignalOn, shared, pVars
    <3>2. SlotInv(SignalStep(cslot, P), C, P, cpc, cmode, cwrite = write, ppc)
      BY <1>0, <3>1, SignallerWakes, ZenonT(30)
    <3> QED  BY <3>1, <3>2
  <2>4. CASE ~PushPublish /\ ~PushSignal /\ ~PushSignalOn
    <3>1. ppc # "signal" /\ (ppc = "return" => Quiet(cslot, P)) /\ UNCHANGED <<cslot, write>>
      BY <2>4 DEF ProducerMoves, ProducerStep, shared, pVars, StartPush, FreeCount, PushPoll,
                  PushCancel, TryPush, PushCopy, PushReturn, PushRegister, PushArm, PushDisarm
    <3>2. \A pc : SlotInv(cslot, C, P, cpc, cmode, cwrite = write, pc)
      BY <1>0, <1>2, <3>1, SignallerWakes, ZenonT(30)
    <3> QED  BY <3>1, <3>2, SMTT(30)
  <2> QED  BY <2>1, <2>2, <2>3, <2>4
<1>5. SlotInv(pslot', P, C, ppc', pmode', pread' = read, cpc)
  <2>1. CASE PushSignalOn
    BY <1>0, <2>1 DEF PushSignalOn, pVars
  <2>2. CASE PushRegister
    <3>1. pslot' \in RegisterWaker(pslot, P) /\ ppc' = "arm" /\ pmode' = "fast" /\ pread' = pread
      BY <1>3, <2>2 DEF PushRegister
    <3>2. SlotInv(pslot', P, C, "arm", "fast", pread = read, cpc)
      BY <1>0, <3>1, WaiterArms, ZenonT(30)
    <3> QED  BY <3>1, <3>2
  <2>3. CASE PushArm
    <3>1. pslot' = SetArmed(pslot) /\ ppc = "arm" /\ ppc' = "try" /\ pmode' = "slow" /\ pread' = pread
      BY <2>3 DEF PushArm
    <3>2. SlotInv(SetArmed(pslot), P, C, "try", "slow", pread = read, cpc)
      BY <1>0, <3>1, WaiterArms, ZenonT(30)
    <3> QED  BY <3>1, <3>2
  <2>4. CASE TryPush /\ pmode = "slow"
    <3>1. ppc = "try" /\ ppc' \in {"return", "copy"} /\ UNCHANGED <<pslot, pmode>>
      BY <2>4 DEF TryPush
    <3>2. pread' = read
      <4>1. Room(pread) = 0
        BY <1>3, <2>4, <3>1 DEF Room, Seen
      <4> QED  BY <2>4, <4>1 DEF TryPush
    <3>3. ppc' # "arm" /\ ppc' # "try"
      BY <3>1
    <3>4. SlotInv(pslot, P, C, ppc', pmode, TRUE, cpc)
      BY <1>0, <3>3, WaiterLooks, ZenonT(30)
    <3> QED  BY <3>1, <3>2, <3>4, Zenon
  <2>5. CASE \/ pmode = "slow" /\ (PushCopy \/ PushPublish \/ PushSignal)
             \/ pmode' = "slow" /\ PushReturn
    <3>1. /\ ppc # "try" /\ ppc' # "try" /\ ppc' # "arm" /\ UNCHANGED <<pslot, pmode, pread>>
      BY <2>5 DEF PushCopy, PushPublish, PushSignal, PushReturn
    <3>2. SlotInv(pslot, P, C, ppc', pmode, pread = read, cpc)
      BY <1>0, <3>1, WaiterLooks, ZenonT(30)
    <3> QED  BY <3>1, <3>2
  <2>6. CASE \/ \E n \in 1 .. MaxSlice : StartPush(n)
             \/ FreeCount \/ PushPoll \/ PushCancel \/ PushDisarm \/ (PushReturn /\ pmode' # "slow")
             \/ pmode # "slow" /\ (TryPush \/ PushCopy \/ PushPublish \/ PushSignal)
    <3>1. /\ ppc' # "arm" /\ pmode' # "slow"
          /\ pslot' \in {pslot, Polled(pslot, P), Disarm(pslot)}
      BY <1>3, <2>6 DEF StartPush, FreeCount, PushPoll, PushCancel, PushDisarm, TryPush, PushCopy,
                        PushPublish, PushSignal, PushReturn
    <3>2. pslot' \in SlotType({P}, {C}) /\ pslot'.sig = pslot.sig
      <4>1. /\ Polled(pslot, P) \in SlotType({P}, {C}) /\ Disarm(pslot) \in SlotType({P}, {C})
        BY <1>0, <1>2, SlotOpsType, ZenonT(30)
      <4>2. Polled(pslot, P).sig = pslot.sig /\ Disarm(pslot).sig = pslot.sig
        BY <1>2 DEF Polled, Disarm, SlotType
      <4> QED  BY <1>2, <3>1, <4>1, <4>2
    <3> QED  BY <1>0, <3>1, <3>2, WaiterAwake, SMTT(30)
  <2> QED  BY <2>1, <2>2, <2>3, <2>4, <2>5, <2>6 DEF ProducerMoves, ProducerStep
<1> QED  BY <1>1, <1>4, <1>5 DEF WakeInv

\* The consumer's steps keep both slots.
LEMMA ConsumerKeepsWake == ASSUME IndexInv, WakeInv, ConsumerMoves PROVE WakeInv'
<1>0. /\ SlotInv(pslot, P, C, ppc, pmode, pread = read, cpc)
      /\ SlotInv(cslot, C, P, cpc, cmode, cwrite = write, ppc)
      /\ P # NoWaker /\ C # NoWaker /\ P \in {P} /\ C \in {C}
  BY DEF WakeInv, P, C, NoWaker
<1>1. UNCHANGED <<write, ppc, pmode, pread>>
  BY OtherSide DEF pVars
<1>2. /\ cslot \in SlotType({C}, {P}) /\ (cpc = "return" \/ Quiet(pslot, C))
  BY <1>0 DEF SlotInv
<1>3. /\ cpc \in {"idle", "disarm"} => cmode = "first"
      /\ cpc \in {"register", "arm"} => cmode = "fast"
      /\ cpc = "try" /\ cmode = "slow" => cwrite = read
  <2>1. CallInv(cpc, cmode, cn, want, Avail, cuntold)
    BY DEF IndexInv, ConsumerInv
  <2>2. read \in Index /\ cwrite \in Index /\ 0 \in 0 .. Cap
    BY SizesAssumption DEF IndexInv, ConsumerInv
  <2>3. Avail = 0 => cwrite = read
    BY <2>2, Distance DEF Avail
  <2> QED  BY <2>1, <2>3 DEF CallInv
<1>4. SlotInv(pslot', P, C, ppc, pmode, pread = read', cpc')
  <2>1. CASE PopPublish
    <3>1. cpc = "publish" /\ cpc' = "signal" /\ pslot' = pslot
      BY <2>1 DEF PopPublish
    <3>2. \A f : SlotInv(pslot, P, C, ppc, pmode, f, "signal")
      BY <1>0, <3>1, SignallerWakes, ZenonT(30)
    <3> QED  BY <3>1, <3>2
  <2>2. CASE PopSignal
    <3>1. cpc = "signal" /\ cpc' = "return" /\ pslot' = SignalLoad(pslot, C) /\ read' = read
      BY <2>2 DEF PopSignal, shared
    <3>2. SlotInv(SignalLoad(pslot, C), P, C, ppc, pmode, pread = read, "return")
      BY <1>0, <3>1, SignallerWakes, ZenonT(30)
    <3> QED  BY <3>1, <3>2
  <2>3. CASE PopSignalOn
    <3>1. ~Quiet(pslot, C) /\ cpc' = cpc /\ pslot' = SignalStep(pslot, C) /\ read' = read
      BY <2>3 DEF PopSignalOn, shared, cVars
    <3>2. SlotInv(SignalStep(pslot, C), P, C, ppc, pmode, pread = read, cpc)
      BY <1>0, <3>1, SignallerWakes, ZenonT(30)
    <3> QED  BY <3>1, <3>2
  <2>4. CASE ~PopPublish /\ ~PopSignal /\ ~PopSignalOn
    <3>1. cpc # "signal" /\ (cpc = "return" => Quiet(pslot, C)) /\ UNCHANGED <<pslot, read>>
      BY <2>4 DEF ConsumerMoves, ConsumerStep, shared, cVars, StartPop, AvailableCount, PopPoll,
                  PopCancel, TryPop, PopCopy, PopReturn, PopRegister, PopArm, PopDisarm
    <3>2. \A pc : SlotInv(pslot, P, C, ppc, pmode, pread = read, pc)
      BY <1>0, <1>2, <3>1, SignallerWakes, ZenonT(30)
    <3> QED  BY <3>1, <3>2, SMTT(30)
  <2> QED  BY <2>1, <2>2, <2>3, <2>4
<1>5. SlotInv(cslot', C, P, cpc', cmode', cwrite' = write, ppc)
  <2>1. CASE PopSignalOn
    BY <1>0, <2>1 DEF PopSignalOn, cVars
  <2>2. CASE PopRegister
    <3>1. cslot' \in RegisterWaker(cslot, C) /\ cpc' = "arm" /\ cmode' = "fast" /\ cwrite' = cwrite
      BY <1>3, <2>2 DEF PopRegister
    <3>2. SlotInv(cslot', C, P, "arm", "fast", cwrite = write, ppc)
      BY <1>0, <3>1, WaiterArms, ZenonT(30)
    <3> QED  BY <3>1, <3>2
  <2>3. CASE PopArm
    <3>1. cslot' = SetArmed(cslot) /\ cpc = "arm" /\ cpc' = "try" /\ cmode' = "slow" /\ cwrite' = cwrite
      BY <2>3 DEF PopArm
    <3>2. SlotInv(SetArmed(cslot), C, P, "try", "slow", cwrite = write, ppc)
      BY <1>0, <3>1, WaiterArms, ZenonT(30)
    <3> QED  BY <3>1, <3>2
  <2>4. CASE TryPop /\ cmode = "slow"
    <3>1. cpc = "try" /\ cpc' \in {"return", "copy"} /\ UNCHANGED <<cslot, cmode>>
      BY <2>4 DEF TryPop
    <3>2. cwrite' = write
      BY <1>3, <2>4 DEF TryPop
    <3>3. cpc' # "arm" /\ cpc' # "try"
      BY <3>1
    <3>4. SlotInv(cslot, C, P, cpc', cmode, TRUE, ppc)
      BY <1>0, <3>3, WaiterLooks, ZenonT(30)
    <3> QED  BY <3>1, <3>2, <3>4, Zenon
  <2>5. CASE \/ cmode = "slow" /\ (PopCopy \/ PopPublish \/ PopSignal)
             \/ cmode' = "slow" /\ PopReturn
    <3>1. /\ cpc # "try" /\ cpc' # "try" /\ cpc' # "arm" /\ UNCHANGED <<cslot, cmode, cwrite>>
      BY <2>5 DEF PopCopy, PopPublish, PopSignal, PopReturn
    <3>2. SlotInv(cslot, C, P, cpc', cmode, cwrite = write, ppc)
      BY <1>0, <3>1, WaiterLooks, ZenonT(30)
    <3> QED  BY <3>1, <3>2
  <2>6. CASE \/ \E n \in 1 .. MaxSlice : StartPop(n)
             \/ AvailableCount \/ PopPoll \/ PopCancel \/ PopDisarm \/ (PopReturn /\ cmode' # "slow")
             \/ cmode # "slow" /\ (TryPop \/ PopCopy \/ PopPublish \/ PopSignal)
    <3>1. /\ cpc' # "arm" /\ cmode' # "slow"
          /\ cslot' \in {cslot, Polled(cslot, C), Disarm(cslot)}
      BY <1>3, <2>6 DEF StartPop, AvailableCount, PopPoll, PopCancel, PopDisarm, TryPop, PopCopy,
                        PopPublish, PopSignal, PopReturn
    <3>2. cslot' \in SlotType({C}, {P}) /\ cslot'.sig = cslot.sig
      <4>1. /\ Polled(cslot, C) \in SlotType({C}, {P}) /\ Disarm(cslot) \in SlotType({C}, {P})
        BY <1>0, <1>2, SlotOpsType, ZenonT(30)
      <4>2. Polled(cslot, C).sig = cslot.sig /\ Disarm(cslot).sig = cslot.sig
        BY <1>2 DEF Polled, Disarm, SlotType
      <4> QED  BY <1>2, <3>1, <4>1, <4>2
    <3> QED  BY <1>0, <3>1, <3>2, WaiterAwake, SMTT(30)
  <2> QED  BY <2>1, <2>2, <2>3, <2>4, <2>5, <2>6 DEF ConsumerMoves, ConsumerStep
<1> QED  BY <1>1, <1>4, <1>5 DEF WakeInv

-----------------------------------------------------------------------------
(* The invariant holds. *)

\* A buffer that was just made, by new() or after the drop of another.
New ==
  /\ buf = [i \in 0 .. Cap - 1 |-> Uninit] /\ write = 0 /\ read = 0
  /\ pslot = NewSlot({C}) /\ cslot = NewSlot({P})
  /\ ppc = "idle" /\ pmode = "first" /\ pread = 0 /\ todo = <<>> /\ pn = 0
  /\ puntold = FALSE /\ next = 0
  /\ cpc = "idle" /\ cmode = "first" /\ cwrite = 0 /\ want = 0 /\ cn = 0 /\ cuntold = FALSE
  /\ hold \in Seq(Index)

\* It satisfies the invariant.
LEMMA NewBuffer == New => Inv
<1> SUFFICES ASSUME New PROVE Inv
  OBVIOUS
<1>1. Cap \in Nat \ {0} /\ MaxSlice \in Nat /\ Modulus \in Nat /\ 0 \in Index /\ Modulus > Cap
  BY SizesAssumption DEF Index
<1>2. Minus(0, 0) = 0
  BY <1>1, Wrapping
<1>3. Used = 0 /\ Seen = 0 /\ Avail = 0 /\ Filled = 0 /\ Emptied = 0
  BY <1>2 DEF New, Used, Seen, Avail, Filled, Emptied
<1>4. todo \in Seq(Index) /\ Len(todo) = 0
  BY DEF New
<1>5. \A r \in Nat : CallInv("idle", "first", 0, 0, r, FALSE)
  BY DEF CallInv, Points, Mode
<1>6. ProducerInv
  BY <1>1, <1>3, <1>4, <1>5 DEF New, ProducerInv
<1>7. ConsumerInv
  BY <1>1, <1>3, <1>5 DEF New, ConsumerInv
<1>8. IndexInv
  BY <1>1, <1>3, <1>6, <1>7 DEF IndexInv, CacheInv
<1>9. BufferInv
  <2>1. /\ buf = [i \in 0 .. Cap - 1 |-> Uninit] /\ hold \in Seq(Index) /\ read \in Index
        /\ ppc # "publish" /\ cpc # "publish"
    BY <1>1 DEF New
  <2>2. \A d \in 0 .. Cap - 1 : d \in Nat /\ ~(d < Used + Filled)
    BY <1>1, <1>3
  <2>3. \A d \in Nat : Place(read, d) \in 0 .. Cap - 1
    BY <2>1, Places, Zenon
  <2>4. \A d \in 0 .. Cap - 1 : buf[Place(read, d)] = Uninit
    BY <2>1, <2>2, <2>3
  <2>5. buf \in [0 .. Cap - 1 -> Index \cup {Uninit}]
    BY <2>1
  <2> QED  BY <2>1, <2>2, <2>4, <2>5, Zenon DEF BufferInv
<1>10. ASSUME NEW w, NEW t, NEW f PROVE SlotInv(NewSlot({t}), w, t, "idle", "first", f, "idle")
  <2>1. NewSlot({t}) \in SlotType({w}, {t}) /\ Quiet(NewSlot({t}), t)
    BY DEF NewSlot, SlotType, SigPhase, Quiet
  <2> QED  BY <2>1 DEF SlotInv
<1>11. WakeInv
  BY <1>10 DEF New, WakeInv
<1> QED  BY <1>8, <1>9, <1>11 DEF Inv

\* The invariant holds of every execution.
THEOREM InvHolds == Spec => []Inv
<1>1. ASSUME Init PROVE Inv
  <2>1. <<>> \in Seq(Index)
    OBVIOUS
  <2>2. New
    BY <1>1, <2>1 DEF Init, New
  <2> QED  BY <2>2, NewBuffer
<1>2. ASSUME Inv, [Next]_vars PROVE Inv'
  <2>1. CASE ProducerMoves
    BY <1>2, <2>1, ProducerKeepsIndex, ProducerKeepsBuffer, ProducerKeepsWake DEF Inv
  <2>2. CASE ConsumerMoves
    BY <1>2, <2>2, ConsumerKeepsIndex, ConsumerKeepsBuffer, ConsumerKeepsWake DEF Inv
  <2>3. CASE Drop
    <3>1. New'
      <4>1. /\ CallInv(ppc, pmode, pn, Len(todo), Cap - Seen, puntold) /\ todo \in Seq(Index)
            /\ CallInv(cpc, cmode, cn, want, Avail, cuntold) /\ DOMAIN buf = 0 .. Cap - 1
            /\ hold \in Seq(Index) /\ ppc = "idle" /\ cpc = "idle"
        BY <1>2, <2>3 DEF Inv, IndexInv, ProducerInv, ConsumerInv, BufferInv, Drop
      <4>2. pmode = "first" /\ pn = 0 /\ Len(todo) = 0 /\ cmode = "first" /\ cn = 0 /\ want = 0
        BY <4>1 DEF CallInv
      <4>3. todo = <<>>
        <5>1. todo \in Seq(Index) /\ Len(todo) = 0
          BY SMTT(30), <4>1, <4>2
        <5> QED  BY <5>1
      <4> QED  BY <2>3, <4>1, <4>2, <4>3 DEF Drop, New
    <3> QED  BY <3>1, NewBuffer, PTL
  <2>4. CASE UNCHANGED vars
    BY <1>2, <2>4 DEF vars, Inv, IndexInv, ProducerInv, ConsumerInv, CacheInv, BufferInv, WakeInv,
                      Used, Seen, Avail, Filled, Emptied
  <2> QED  BY <1>2, <2>1, <2>2, <2>3, <2>4, NextCases
<1> QED  BY <1>1, <1>2, PTL DEF Spec

-----------------------------------------------------------------------------
(* The properties. *)

\* Whatever the capacity, the slices and the interleaving, the two unsynchronised
\* copies of the two threads touch different slots: the producer's free ones, the
\* consumer's initialised ones.
THEOREM CopiesNeverMeet == Spec => []CopiesAreExclusive
<1>1. Inv => CopiesAreExclusive
  <2> SUFFICES ASSUME Inv PROVE CopiesAreExclusive
    OBVIOUS
  <2>0. /\ pn \in 0 .. Cap /\ cn \in 0 .. Cap /\ Used \in 0 .. Cap
        /\ Used + pn <= Cap /\ cn <= Used /\ Cap \in Nat \ {0}
        /\ read \in Index /\ write \in Index
        /\ (ppc # "publish" => Filled = 0) /\ (cpc # "publish" => Emptied = 0)
    BY Batches DEF Inv
  <2>1. TypeOK
    <3>1. /\ CallInv(ppc, pmode, pn, Len(todo), Cap - Seen, puntold)
          /\ CallInv(cpc, cmode, cn, want, Avail, cuntold)
          /\ Len(todo) <= MaxSlice /\ want <= MaxSlice /\ MaxSlice \in Nat
      BY SizesAssumption DEF Inv, IndexInv, ProducerInv, ConsumerInv
    <3>2. {pn, want, cn} \subseteq 0 .. MaxSlice
      BY <3>1 DEF CallInv, Points
    <3>3. /\ ppc \in Points /\ cpc \in Points /\ pmode \in Mode /\ cmode \in Mode
          /\ puntold \in BOOLEAN /\ cuntold \in BOOLEAN
      BY <3>1 DEF CallInv
    <3>4. pslot \in SlotType({P}, {C}) /\ cslot \in SlotType({C}, {P})
      BY DEF Inv, WakeInv, SlotInv
    <3> QED  BY <3>2, <3>3, <3>4 DEF TypeOK, Inv, IndexInv, ProducerInv, ConsumerInv, BufferInv, Points
  <2>2. \A i \in Span(write, pn) : \E d \in Used .. Used + pn - 1 : i = Place(read, d)
    <3> TAKE i \in Span(write, pn)
    <3>1. PICK k \in 1 .. pn : i = SlotOf(write, pn, k)
      BY DEF Span
    <3>2. i = Place(write, k - 1)
      BY <2>0, <3>1, SlotOfPlace
    <3>3. k - 1 \in Nat
      BY <2>0
    <3>4. i = Place(read, Used + (k - 1))
      BY <3>2, <3>3, WritePlace DEF Inv
    <3>5. Used + (k - 1) \in Used .. Used + pn - 1
      BY <2>0
    <3> QED  BY <3>4, <3>5
  <2>3. \A i \in Span(read, cn) : \E d \in 0 .. cn - 1 : i = Place(read, d)
    <3> TAKE i \in Span(read, cn)
    <3>1. PICK k \in 1 .. cn : i = SlotOf(read, cn, k)
      BY DEF Span
    <3>2. i = Place(read, k - 1)
      BY <2>0, <3>1, SlotOfPlace
    <3>3. k - 1 \in 0 .. cn - 1
      BY <2>0
    <3> QED  BY <3>2, <3>3
  <2>4. \A d \in 0 .. Cap - 1 : buf[Place(read, d)] # Uninit <=> Emptied <= d /\ d < Used + Filled
    BY DEF Inv, BufferInv
  <2>5. ASSUME ppc = "copy", NEW i \in Span(write, pn) PROVE buf[i] = Uninit
    <3>1. PICK d \in Used .. Used + pn - 1 : i = Place(read, d)
      BY <2>2
    <3>2. d \in 0 .. Cap - 1 /\ ~(d < Used + Filled)
      BY <2>0, <2>5
    <3> QED  BY <2>4, <3>1, <3>2
  <2>6. ASSUME cpc = "copy", NEW i \in Span(read, cn) PROVE buf[i] # Uninit
    <3>1. PICK d \in 0 .. cn - 1 : i = Place(read, d)
      BY <2>3
    <3>2. Filled \in Nat
      BY <2>0, Batches DEF Inv
    <3>3. d \in 0 .. Cap - 1 /\ Emptied <= d /\ d < Used + Filled
      BY <2>0, <2>6, <3>2
    <3> QED  BY <2>4, <3>1, <3>3
  <2>7. Span(write, pn) \cap Span(read, cn) = {}
    <3> SUFFICES ASSUME NEW i \in Span(write, pn), i \in Span(read, cn) PROVE FALSE
      OBVIOUS
    <3>1. PICK d \in Used .. Used + pn - 1 : i = Place(read, d)
      BY <2>2
    <3>2. PICK e \in 0 .. cn - 1 : i = Place(read, e)
      BY <2>3
    <3>3. d \in 0 .. Cap - 1 /\ e \in 0 .. Cap - 1 /\ e < d
      BY <2>0
    <3>4. \A a, b \in 0 .. Cap - 1 : Place(read, a) = Place(read, b) => a = b
      BY <2>0, Places
    <3>5. d = e
      BY <3>1, <3>2, <3>3, <3>4, Zenon
    <3>6. e # d
      BY <2>0, <3>3
    <3> QED  BY <3>5, <3>6
  <2> QED  BY <2>1, <2>5, <2>6, <2>7 DEF CopiesAreExclusive
<1> QED  BY <1>1, InvHolds, PTL

\* A side parks only after it armed its slot and then saw the other side's index, so
\* the store that makes that index stale is followed by a signal() that sees it armed.
THEOREM WakeupNeverLost == Spec => []NoLostWakeup
<1>1. Inv => NoLostWakeup
  <2> SUFFICES ASSUME Inv PROVE NoLostWakeup
    OBVIOUS
  <2>0. /\ CallInv(ppc, pmode, pn, Len(todo), Cap - Seen, puntold)
        /\ CallInv(cpc, cmode, cn, want, Avail, cuntold)
        /\ read \in Index /\ cwrite \in Index /\ 0 \in 0 .. Cap
        /\ Seen \in Nat /\ Cap \in Nat
    BY Numbers, SizesAssumption DEF Inv, IndexInv, ProducerInv, ConsumerInv
  <2>1. ASSUME cpc = "parked", write # read
        PROVE  WakeComing(cslot, C) \/ (cslot.armed /\ ppc = "signal")
    <3>1. cmode = "slow" /\ Avail = 0
      BY <2>0, <2>1 DEF CallInv
    <3>2. cwrite = read
      BY <2>0, <3>1, Distance DEF Avail
    <3>3. cwrite # write
      BY <2>1, <3>2
    <3> QED  BY <2>1, <3>1, <3>3 DEF Inv, WakeInv, SlotInv
  <2>2. ASSUME ppc = "parked", Minus(write, read) < Cap
        PROVE  WakeComing(pslot, P) \/ (pslot.armed /\ cpc = "signal")
    <3>1. pmode = "slow" /\ Cap - Seen = 0
      BY <2>0, <2>2 DEF CallInv
    <3>2. Minus(write, pread) = Cap
      BY <2>0, <3>1 DEF Seen
    <3>3. pread # read
      BY <2>0, <2>2, <3>2, SMTT(30)
    <3> QED  BY <2>2, <3>1, <3>3 DEF Inv, WakeInv, SlotInv
  <2> QED  BY <2>1, <2>2 DEF NoLostWakeup
<1> QED  BY <1>1, InvHolds, PTL

\* A slice transfer parks only through the return of an attempt that has items left,
\* and that return writes the caller's count.
THEOREM CountToldBeforeParking == Spec => []CountSurvivesCancel
<1>1. Inv => CountSurvivesCancel
  <2> SUFFICES ASSUME Inv PROVE CountSurvivesCancel
    OBVIOUS
  <2>1. /\ CallInv(ppc, pmode, pn, Len(todo), Cap - Seen, puntold)
        /\ CallInv(cpc, cmode, cn, want, Avail, cuntold)
    BY DEF Inv, IndexInv, ProducerInv, ConsumerInv
  <2> QED  BY <2>1 DEF CallInv, CountSurvivesCancel
<1> QED  BY <1>1, InvHolds, PTL

-----------------------------------------------------------------------------
(* The ring buffer implements the bounded FIFO. *)

\* Sequences of the same length with the same elements are equal.
LEMMA SameSeq ==
  ASSUME NEW S, NEW s \in Seq(S), NEW t \in Seq(S), Len(s) = Len(t),
         \A k \in 1 .. Len(s) : s[k] = t[k]
  PROVE  s = t
OBVIOUS

\* The abstract queue, element by element.
ContentsAre ==
  /\ Contents \in Seq(Index) /\ Len(Contents) = Used
  /\ \A k \in 1 .. Used :
       Contents[k] = IF cpc = "publish" /\ k <= cn THEN hold[k] ELSE buf[Place(read, k - 1)]

\* It is a sequence of items, those from read_index on.
LEMMA ContentsKnown == Inv => ContentsAre
<1> SUFFICES ASSUME Inv PROVE ContentsAre
  OBVIOUS
<1>0. /\ cn \in 0 .. Cap /\ Used \in 0 .. Cap /\ cn <= Used /\ Cap \in Nat \ {0}
      /\ read \in Index /\ Filled \in Nat
      /\ (cpc # "publish" => Emptied = 0) /\ (cpc = "publish" => Emptied = cn)
  BY Batches DEF Inv
<1>1. Contents = [k \in 1 .. Used |->
                    IF cpc = "publish" /\ k <= cn THEN hold[k] ELSE Remaining[k]]
  BY DEF Contents, Used
<1>2. \A k \in 1 .. Used : Remaining[k] = buf[Place(read, k - 1)]
  <2> TAKE k \in 1 .. Used
  <2>1. Remaining[k] = buf[SlotOf(read, Used, k)]
    BY DEF Remaining, Used
  <2>2. SlotOf(read, Used, k) = Place(read, k - 1)
    BY <1>0, SlotOfPlace
  <2> QED  BY <2>1, <2>2
<1>3. \A k \in 1 .. Used :
         Contents[k] = IF cpc = "publish" /\ k <= cn THEN hold[k] ELSE buf[Place(read, k - 1)]
  BY <1>1, <1>2
<1>4. ASSUME NEW k \in 1 .. Used PROVE Contents[k] \in Index
  <2>1. CASE cpc = "publish" /\ k <= cn
    <3>1. hold \in Seq(Index) /\ k \in 1 .. Len(hold)
      BY <1>0, <2>1 DEF Inv, BufferInv
    <3> QED  BY <1>3, <2>1, <3>1
  <2>2. CASE ~(cpc = "publish" /\ k <= cn)
    <3>1. k - 1 \in 0 .. Cap - 1 /\ Emptied <= k - 1 /\ k - 1 < Used + Filled /\ k - 1 \in Nat
      BY <1>0, <2>2
    <3>2. buf[Place(read, k - 1)] # Uninit
      BY <3>1 DEF Inv, BufferInv
    <3>3. Place(read, k - 1) \in 0 .. Cap - 1
      BY <1>0, <3>1, Places
    <3>4. buf[Place(read, k - 1)] \in Index \cup {Uninit}
      BY <3>3 DEF Inv, BufferInv
    <3> QED  BY <1>3, <2>2, <3>2, <3>4
  <2> QED  BY <2>1, <2>2
<1>5. Contents \in Seq(Index) /\ Len(Contents) = Used
  <2>1. Contents = [k \in 1 .. Used |-> Contents[k]] /\ Used \in Nat
    BY <1>0, <1>1
  <2> QED  BY <1>4, <2>1
<1> QED  BY <1>3, <1>5 DEF ContentsAre

\* The batch the consumer has taken and not yet looked away from.
Delivered == IF cpc = "signal" THEN hold ELSE <<>>

\* The producer's steps: a call, a batch that enters, or nothing.
LEMMA ProducerRefines ==
  ASSUME Inv, Inv', ContentsAre, ContentsAre', ProducerMoves
  PROVE  /\ todo' \in Seq(Index) /\ Delivered' = Delivered
         /\ \/ Contents' = Contents
            \/ \E n \in 1 .. Len(todo) :
                 /\ Len(Contents) + n <= Cap
                 /\ Contents' = Contents \o SubSeq(todo, 1, n) /\ todo' = Rest(todo, n)
<1>0. /\ pn \in 0 .. Cap /\ Used \in 0 .. Cap /\ Used + pn <= Cap /\ Cap \in Nat \ {0}
      /\ cn \in 0 .. Cap /\ cn <= Used /\ read \in Index
      /\ pn <= Len(todo) /\ todo \in Seq(Index)
  BY Batches DEF Inv, IndexInv, ProducerInv
<1>1. UNCHANGED <<read, cpc, cn, hold, cwrite>>
  BY OtherSide DEF cVars
<1>2. todo' \in Seq(Index) /\ Delivered' = Delivered
  BY <1>1 DEF Delivered, Inv, IndexInv, ProducerInv
<1>3. CASE PushCopy
  <2>1. Used' = Used
    BY <1>1, <1>3, SMTT(30) DEF PushCopy, Used
  <2>2. \A d \in 0 .. Cap - 1 :
           buf'[Place(read, d)] = IF Used <= d /\ d < Used + pn THEN todo[d - Used + 1]
                                  ELSE buf[Place(read, d)]
    BY <1>3, CopiedIn, SMTT(30) DEF Inv
  <2>3. ASSUME NEW k \in 1 .. Used PROVE Contents'[k] = Contents[k]
    <3>1. k - 1 \in 0 .. Cap - 1 /\ ~(Used <= k - 1)
      BY <1>0
    <3>2. buf'[Place(read, k - 1)] = buf[Place(read, k - 1)]
      BY <2>2, <3>1
    <3> QED  BY <1>1, <2>1, <3>2 DEF ContentsAre
  <2>4. Contents' = Contents
    <3>1. Contents' \in Seq(Index) /\ Contents \in Seq(Index) /\ Len(Contents') = Used
          /\ Len(Contents) = Used
      BY <2>1 DEF ContentsAre
    <3> QED  BY <2>3, <3>1, SameSeq, SMTT(30)
  <2> QED  BY <1>2, <2>4, SMTT(30)
<1>4. CASE PushPublish
  <2>1. /\ ppc = "publish" /\ write' = Plus(write, pn) /\ todo' = Rest(todo, pn)
        /\ UNCHANGED <<buf, pread>>
    BY <1>4 DEF PushPublish
  <2>2. Used' = Used + pn
    BY <1>1, <2>1, PublishDistance DEF Inv
  <2>3. pn \in 1 .. Len(todo)
    <3>1. CallInv(ppc, pmode, pn, Len(todo), Cap - Seen, puntold)
      BY DEF Inv, IndexInv, ProducerInv
    <3>2. 0 < pn
      BY <2>1, <3>1, SMTT(30) DEF CallInv
    <3> QED  BY <1>0, <3>2
  <2> DEFINE t == SubSeq(todo, 1, pn)
             q == Contents \o t
  <2>4. t \in Seq(Index) /\ Len(t) = pn /\ \A k \in 1 .. pn : t[k] = todo[k]
    <3>1. pn \in 0 .. Len(todo)
      BY <1>0
    <3> QED  BY <1>0, <3>1, RestOf
  <2> HIDE DEF t
  <2>5. Contents \in Seq(Index) /\ Len(Contents) = Used
    BY DEF ContentsAre
  <2>6. /\ q \in Seq(Index) /\ Len(q) = Used + pn
        /\ \A k \in 1 .. Used + pn : q[k] = IF k <= Used THEN Contents[k] ELSE t[k - Used]
    BY <1>0, <2>4, <2>5
  <2> HIDE DEF q
  <2>7. ASSUME NEW k \in 1 .. Used + pn PROVE Contents'[k] = q[k]
    <3>0. k \in 1 .. Used'
      BY <2>2, SMTT(30)
    <3>1. CASE k <= Used
      <4>1. k \in 1 .. Used
        BY <1>0, <3>1, SMTT(30)
      <4>2. Contents[k] = IF cpc = "publish" /\ k <= cn THEN hold[k] ELSE buf[Place(read, k - 1)]
        BY <4>1, SMTT(30) DEF ContentsAre
      <4>3. Contents'[k] = IF cpc = "publish" /\ k <= cn THEN hold[k] ELSE buf[Place(read, k - 1)]
        BY <1>1, <2>1, <3>0, SMTT(30) DEF ContentsAre
      <4> QED  BY <2>6, <3>1, <4>2, <4>3
    <3>2. CASE ~(k <= Used)
      <4>1. k - Used \in 1 .. pn /\ Used + (k - Used) - 1 = k - 1 /\ ~(k <= cn)
        BY <1>0, <3>2, SMTT(30)
      <4>2. buf[Place(read, Used + (k - Used) - 1)] = todo[k - Used]
        BY <2>1, <4>1, SMTT(30) DEF Inv, BufferInv
      <4>3. Contents'[k] = buf[Place(read, k - 1)]
        BY <1>1, <2>1, <3>0, <4>1, SMTT(30) DEF ContentsAre
      <4> QED  BY <2>4, <2>6, <3>2, <4>1, <4>2, <4>3, SMTT(30)
    <3> QED  BY <3>1, <3>2
  <2>8. Contents' = q
    <3>1. Contents' \in Seq(Index) /\ Len(Contents') = Used + pn
      BY <2>2 DEF ContentsAre
    <3> QED  BY <2>6, <2>7, <3>1, SameSeq
  <2> QED  BY <1>0, <1>2, <2>1, <2>3, <2>5, <2>8, ZenonT(40) DEF q, t
<1>5. CASE ~PushCopy /\ ~PushPublish
  <2>1. UNCHANGED <<buf, write>>
    BY <1>5, OtherMoves, SMTT(30)
  <2>2. Contents' = Contents
    BY <1>1, <2>1 DEF Contents, Remaining
  <2> QED  BY <1>2, <2>2
<1> QED  BY <1>3, <1>4, <1>5, ZenonT(40)

\* The consumer's steps: a batch that leaves, the batch let go of, or nothing.
LEMMA ConsumerRefines ==
  ASSUME Inv, Inv', ContentsAre, ContentsAre', ConsumerMoves
  PROVE  /\ todo' = todo
         /\ \/ Contents' = Contents /\ Delivered' \in {Delivered, <<>>}
            \/ \E n \in 1 .. Len(Contents) :
                 Delivered' = SubSeq(Contents, 1, n) /\ Contents' = Rest(Contents, n)
<1>0. /\ Used \in 0 .. Cap /\ Cap \in Nat \ {0} /\ cn \in 0 .. Cap /\ cn <= Used /\ read \in Index
  BY Batches DEF Inv
<1>1. UNCHANGED <<write, todo, pread>>
  BY OtherSide DEF pVars
<1>2. CASE PopCopy
  <2>1. cpc = "copy" /\ cpc' = "publish" /\ UNCHANGED <<read, cn>>
    BY <1>2 DEF PopCopy
  <2>2. Used' = Used
    BY <1>1, <2>1 DEF Used
  <2>3. /\ \A d \in 0 .. Cap - 1 :
             buf'[Place(read, d)] = IF d < cn THEN Uninit ELSE buf[Place(read, d)]
        /\ \A k \in 1 .. cn : hold'[k] = buf[Place(read, k - 1)]
    BY <1>2, MovedOut DEF Inv
  <2>4. ASSUME NEW k \in 1 .. Used PROVE Contents'[k] = Contents[k]
    <3>1. Contents[k] = buf[Place(read, k - 1)]
      BY <2>1 DEF ContentsAre
    <3>2. Contents'[k] = IF k <= cn THEN hold'[k] ELSE buf'[Place(read, k - 1)]
      BY <2>1, <2>2 DEF ContentsAre
    <3>3. CASE k <= cn
      <4>1. k \in 1 .. cn
        BY <1>0, <3>3
      <4> QED  BY <2>3, <3>1, <3>2, <3>3, <4>1
    <3>4. CASE ~(k <= cn)
      <4>1. k - 1 \in 0 .. Cap - 1 /\ ~(k - 1 < cn)
        BY <1>0, <3>4
      <4> QED  BY <2>3, <3>1, <3>2, <3>4, <4>1
    <3> QED  BY <3>3, <3>4, SMTT(30)
  <2>5. Contents' = Contents
    <3>1. Contents' \in Seq(Index) /\ Contents \in Seq(Index) /\ Len(Contents') = Used
          /\ Len(Contents) = Used
      BY <2>2 DEF ContentsAre
    <3> QED  BY <2>4, <3>1, SameSeq
  <2> QED  BY <1>1, <2>1, <2>5 DEF Delivered
<1>3. CASE PopPublish
  <2>1. /\ cpc = "publish" /\ cpc' = "signal" /\ read' = Plus(read, cn)
        /\ UNCHANGED <<buf, cwrite, hold>>
    BY <1>3 DEF PopPublish
  <2>2. Used' = Used - cn
    BY <1>1, <2>1, GiveBackDistance DEF Inv
  <2>3. Contents \in Seq(Index) /\ Len(Contents) = Used
    BY DEF ContentsAre
  <2>4. cn \in 1 .. Used /\ cn \in 0 .. Len(Contents)
    <3>1. CallInv(cpc, cmode, cn, want, Avail, cuntold)
      BY DEF Inv, IndexInv, ConsumerInv
    <3>2. 0 < cn
      BY <2>1, <3>1 DEF CallInv
    <3> QED  BY <1>0, <2>3, <3>2
  <2> DEFINE taken == SubSeq(Contents, 1, cn)
             rest == Rest(Contents, cn)
  <2>5. /\ rest \in Seq(Index) /\ Len(rest) = Used - cn
        /\ \A k \in 1 .. Used - cn : rest[k] = Contents[cn + k]
        /\ taken \in Seq(Index) /\ Len(taken) = cn
        /\ \A k \in 1 .. cn : taken[k] = Contents[k]
    BY <2>3, <2>4, RestOf, Zenon
  <2> HIDE DEF taken, rest
  <2>6. hold = taken
    <3>1. hold \in Seq(Index) /\ Len(hold) = cn
      BY <2>1 DEF Inv, BufferInv
    <3>2. ASSUME NEW k \in 1 .. cn PROVE hold[k] = taken[k]
      <4>1. k \in 1 .. Used /\ k <= cn
        BY <1>0
      <4>2. Contents[k] = hold[k]
        BY <2>1, <4>1 DEF ContentsAre
      <4> QED  BY <2>5, <4>2
    <3> QED  BY <2>5, <3>1, <3>2, SameSeq, SMTT(30)
  <2>7. Contents' = rest
    <3>1. Contents' \in Seq(Index) /\ Len(Contents') = Used - cn
      BY <2>2 DEF ContentsAre
    <3>2. ASSUME NEW k \in 1 .. Used - cn PROVE Contents'[k] = rest[k]
      <4>1. /\ cn + k \in 1 .. Used /\ ~(cn + k <= cn) /\ k \in 1 .. Used'
            /\ k - 1 \in Nat /\ cn + (k - 1) = (cn + k) - 1
        BY SMTT(30), <1>0, <2>2
      <4>2. Contents[cn + k] = buf[Place(read, (cn + k) - 1)]
        BY <4>1 DEF ContentsAre
      <4>3. Contents'[k] = buf[Place(read', k - 1)]
        BY <2>1, <4>1 DEF ContentsAre
      <4>4. Place(read', k - 1) = Place(read, cn + (k - 1))
        BY <1>0, <2>1, <4>1, PlaceAfter
      <4> QED  BY <2>5, <4>1, <4>2, <4>3, <4>4
    <3> QED  BY <2>5, <3>1, <3>2, SameSeq
  <2>8. Delivered' = taken
    BY <2>1, <2>6 DEF Delivered
  <2> QED  BY <1>1, <2>3, <2>4, <2>7, <2>8 DEF taken, rest
<1>4. CASE ~PopCopy /\ ~PopPublish
  <2>1. /\ UNCHANGED <<buf, read>>
        /\ cpc' = "publish" <=> cpc = "publish"
        /\ cpc' = "publish" => UNCHANGED <<cn, hold>>
        /\ PopSignal \/ (cpc' # "signal" /\ cpc # "signal") \/ UNCHANGED cVars
    BY <1>4, OtherMoves, SMTT(30)
  <2>2. Contents' = Contents
    BY <1>1, <2>1 DEF Contents, Remaining
  <2>3. Delivered' \in {Delivered, <<>>}
    BY <2>1 DEF Delivered, PopSignal, cVars
  <2> QED  BY <1>1, <2>2, <2>3
<1> QED  BY <1>2, <1>3, <1>4

\* The ring buffer is a bounded FIFO for every capacity, index width and slice
\* length: batches enter and leave whole and in order, each item exactly once.
THEOREM RingBufImplementsFifo == Spec => ImplementsFifo
<1>1. ASSUME Init PROVE Fifo!Init
  <2>1. 0 \in Index /\ Minus(0, 0) = 0
    BY SizesAssumption, Wrapping DEF Index
  <2>2. Contents = <<>>
    BY <1>1, <2>1 DEF Init, Contents
  <2> QED  BY <1>1, <2>2 DEF Init, Fifo!Init
<1>2. ASSUME Inv, Inv', ContentsAre, ContentsAre', [Next]_vars PROVE [Fifo!Next]_(Fifo!vars)
  <2> USE DEF Fifo!vars
  <2>0. (IF cpc = "signal" THEN hold ELSE <<>>) = Delivered
        /\ (IF cpc' = "signal" THEN hold' ELSE <<>>) = Delivered'
    BY DEF Delivered
  <2>1. CASE ProducerMoves
    <3>1. todo' \in Seq(Index) /\ Delivered' = Delivered
      BY <1>2, <2>1, ProducerRefines
    <3>2. CASE Contents' = Contents
      BY <2>0, <3>1, <3>2 DEF Fifo!Next, Fifo!Offer
    <3>3. CASE \E n \in 1 .. Len(todo) :
                 /\ Len(Contents) + n <= Cap
                 /\ Contents' = Contents \o SubSeq(todo, 1, n) /\ todo' = Rest(todo, n)
      BY <2>0, <3>1, <3>3, Zenon DEF Fifo!Next, Fifo!Accept, Fifo!From, Rest
    <3> QED  BY <1>2, <2>1, <3>2, <3>3, ProducerRefines
  <2>2. CASE ConsumerMoves
    <3>1. todo' = todo
      BY <1>2, <2>2, ConsumerRefines
    <3>2. CASE Contents' = Contents /\ Delivered' \in {Delivered, <<>>}
      BY <2>0, <3>1, <3>2 DEF Fifo!Next, Fifo!Clear
    <3>3. CASE \E n \in 1 .. Len(Contents) :
                 Delivered' = SubSeq(Contents, 1, n) /\ Contents' = Rest(Contents, n)
      BY <2>0, <3>1, <3>3 DEF Fifo!Next, Fifo!Take, Fifo!From, Rest
    <3> QED  BY <1>2, <2>2, <3>2, <3>3, ConsumerRefines
  <2>3. CASE Drop
    <3>1. ppc = "idle" /\ cpc' = "idle" /\ todo' = todo /\ write' = 0 /\ read' = 0
      BY <2>3 DEF Drop
    <3>2. todo = <<>>
      <4>1. CallInv(ppc, pmode, pn, Len(todo), Cap - Seen, puntold) /\ todo \in Seq(Index)
        BY <1>2 DEF Inv, IndexInv, ProducerInv
      <4>2. Len(todo) = 0
        BY <3>1, <4>1 DEF CallInv
      <4> QED  BY <4>1, <4>2
    <3>3. Used' = 0
      <4>1. 0 \in Index /\ Minus(0, 0) = 0
        BY SizesAssumption, Wrapping DEF Index
      <4> QED  BY <3>1, <4>1 DEF Used
    <3>4. Contents' = <<>>
      BY <1>2, <3>3 DEF ContentsAre
    <3> QED  BY <3>1, <3>2, <3>4 DEF Fifo!Next, Fifo!Drop
  <2>4. CASE UNCHANGED vars
    <3>1. Contents' = Contents /\ Delivered' = Delivered /\ todo' = todo
      BY <2>4 DEF vars, Contents, Remaining, Delivered
    <3> QED  BY <2>0, <3>1
  <2> QED  BY <1>2, <2>1, <2>2, <2>3, <2>4, NextCases
<1> QED  BY <1>1, <1>2, InvHolds, ContentsKnown, PTL DEF Spec, ImplementsFifo, Fifo!Spec
=============================================================================
