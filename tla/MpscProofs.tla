----------------------------- MODULE MpscProofs -----------------------------
(***************************************************************************)
(* Proofs about module MpscLight, for any number of senders, any capacity  *)
(* and any quotas.                                                         *)
(***************************************************************************)
EXTENDS MpscLight, WaiterProofs

\* The handles that `senders` counts.
Alive(s) == pc[s] \notin {"none", "last_signal", "gone"}

\* `senders` is the number of live handles: a list of them has that length.
CountInv ==
  \E q \in Seq(Senders) : /\ Distinct(q) /\ Len(q) = senders
                          /\ \A s \in Senders : Queued(q, s) <=> Alive(s)

\* A call at x has h items in hand while it may push, has pushed m only when it is
\* about to signal, and never exceeds the quota with the d it was told before.
HandOk(s, x, h, m, d) ==
  /\ h \in Nat /\ m \in Nat /\ d \in Nat /\ d + m + h <= Quota[s]
  /\ m # 0 => x = "signal"
  /\ x \in {"try_push", "check", "push", "park", "parked", "repoll_waiter"} => h # 0

HandsOk ==
  /\ hand \in [Senders -> Nat] /\ moved \in [Senders -> Nat] /\ told \in [Senders -> Nat]
  /\ \A s \in Senders : HandOk(s, pc[s], hand[s], moved[s], told[s])

GotOk == got \in [Senders -> Nat] /\ \A s \in Senders : got[s] <= Quota[s]

HandInv == HandsOk /\ GotOk

\* Where the consumer is when it has an item, an empty staging buffer, a window to
\* spin in, or has dropped the receiver; why it disarms.
FlowInv ==
  /\ cpc \in {"wake_all_waiters", "gone"} => closed
  /\ closed => cpc \in {"wake_all_waiters", "wake", "gone"}
  /\ hold # None => cpc \in {"wake_one_waiter", "wake", "disarm", "end"} /\ ~closed
  /\ cpc = "steal_into" => staging = <<>>
  /\ stage = "spin" => spin # 0 \/ cpc \in {"register", "arm"}
  /\ cpc = "spin" => stage = "spin"
  /\ cpc = "disarm" => hold # None \/ stage = "last"

\* What TypeOK says of the channel's contents.
DataType ==
  /\ queue \in Seq(Item) /\ Len(queue) <= Cap /\ nonempty = (queue # <<>>)
  /\ staging \in Seq(Item) /\ Len(staging) < Cap /\ hold \in Item \cup {None}

\* c holds exactly the items of each sender after the first g[s] up to the t[s]-th.
Numbered(c, g, t) ==
  /\ Ordered(c)
  /\ \A s \in Senders : g[s] <= t[s] /\ Of(s, c) = (g[s] + 1) .. t[s]

Accepted == [s \in Senders |-> told[s] + moved[s]]

\* The channel holds of each sender what was accepted and not delivered.
DataInv == ~closed => Numbered(Contents, got, Accepted)

\* No sender is left when the consumer looks for the last time; the end is reported
\* on an empty channel.
EndInv ==
  /\ stage = "last" => senders = 0
  /\ stage = "last" /\ cpc = "end" /\ hold = None => queue = <<>> /\ staging = <<>>

-----------------------------------------------------------------------------
(* The wait-list. *)

WaitPoint == {"parked", "repoll_waiter", "cancel_waiter"}

\* The waker of s has fired, or some thread is about to fire it.
Awake(s) == s \in woken \/ \E p \in Procs : s \in towake[p]

\* The wakers a thread holds are those it fires next.
HeldInv ==
  /\ cpc # "wake" => towake[C] = {}
  /\ \A s \in Senders : pc[s] # "wake" => towake[s] = {}
  /\ \A s \in Senders : \A t, u \in towake[s] : t = u

\* The receiver's drop has emptied the wait-list.
Cleared == closed /\ cpc # "wake_all_waiters"

\* The entries and the selected ids are those of parked senders; a selected sender
\* has been woken, and a parked one is found in the list, selected, or woken by the
\* receiver's drop.
WaitInv ==
  /\ Distinct(waiting)
  /\ \A s \in Senders : Queued(waiting, s) => pc[s] \in WaitPoint /\ s \notin selected
  /\ \A s \in Senders : s \in selected => pc[s] \in WaitPoint
  /\ \A s \in Senders : s \in selected /\ pc[s] = "parked" => Awake(s)
  /\ \A s \in Senders : pc[s] = "parked" =>
       IF Cleared THEN Awake(s) ELSE Queued(waiting, s) \/ s \in selected

\* A queue that stays empty beside parked senders has an heir.
HeirInv ==
  (~closed /\ waiting # <<>> /\ queue = <<>>) =>
    \E s \in Senders : pc[s] \in {"repoll_waiter", "check", "push", "park"} \/ s \in selected

-----------------------------------------------------------------------------
(* The consumer's wakeup. *)

\* A thread that is inside signal() has no other call in progress.
QuietInv == \A s \in Senders : recv.sig[s] # "idle" => pc[s] \in {"idle", "gone"}

\* A signal from now on reaches the consumer.
Reachable == Registered(recv, C) /\ (recv.armed \/ WakeComing(recv, C))

Signalling == \E s \in Senders : pc[s] \in {"signal", "last_signal"}

\* A signal is under way.
Due == WakeComing(recv, C) \/ Signalling

\* The consumer found the channel empty after it armed, and is going to sleep.
Asleep ==
  \/ cpc \in {"sleep", "parked"}
  \/ cpc \in {"wake_one_waiter", "wake"} /\ hold = None /\ ~closed

\* It has found the queue empty since it armed.
Looked == Asleep \/ (stage = "armed" /\ cpc = "senders")

\* It has armed and not disarmed.
Expecting == Asleep \/ (stage = "armed" /\ cpc \in {"next_staged", "steal_into", "senders"})

WakeInv ==
  /\ cpc = "arm" => Registered(recv, C)
  /\ Expecting => Reachable
  /\ Looked /\ queue # <<>> => Due
  /\ Asleep /\ senders = 0 => Due

Inv ==
  /\ TypeOK /\ CountInv /\ HandInv /\ FlowInv /\ DataInv /\ EndInv
  /\ HeldInv /\ WaitInv /\ HeirInv /\ QuietInv /\ WakeInv

-----------------------------------------------------------------------------
(* Sequences, and the numbers of the items in one. *)

\* The elements of a concatenation.
LEMMA Concat ==
  ASSUME NEW S, NEW a \in Seq(S), NEW b \in Seq(S)
  PROVE  /\ a \o b \in Seq(S) /\ DOMAIN (a \o b) = 1 .. (Len(a) + Len(b))
         /\ Len(a) \in Nat /\ Len(b) \in Nat /\ DOMAIN a = 1 .. Len(a) /\ DOMAIN b = 1 .. Len(b)
         /\ \A i \in 1 .. Len(a) : (a \o b)[i] = a[i]
         /\ \A i \in 1 .. Len(b) : (a \o b)[Len(a) + i] = b[i]
OBVIOUS

\* The first element and the rest make up the sequence.
LEMMA HeadTail ==
  ASSUME NEW S, NEW a \in Seq(S), a # <<>>
  PROVE  /\ Head(a) \in S /\ Tail(a) \in Seq(S) /\ Len(Tail(a)) = Len(a) - 1
         /\ <<Head(a)>> \o Tail(a) = a /\ SubSeq(a, 2, Len(a)) = Tail(a)
OBVIOUS

\* The empty sequence adds nothing.
LEMMA EmptyConcat ==
  ASSUME NEW S, NEW a \in Seq(S)
  PROVE  <<>> \o a = a /\ a \o <<>> = a
OBVIOUS

\* The held item is the first one of the contents.
LEMMA ConsTail ==
  ASSUME NEW S, NEW h \in S, NEW a \in Seq(S), NEW b \in Seq(S)
  PROVE  /\ (<<h>> \o a) \o b \in Seq(S) /\ (<<h>> \o a) \o b # <<>>
         /\ Tail((<<h>> \o a) \o b) = a \o b /\ Head((<<h>> \o a) \o b) = h
BY SMTT(30)

\* What is appended leaves the prefix alone.
LEMMA Prefix ==
  ASSUME NEW S, NEW a \in Seq(S), NEW b \in Seq(S)
  PROVE  SubSeq(a \o b, 1, Len(a)) = a /\ SubSeq(a, 1, Len(a)) = a
OBVIOUS

\* An item of a sequence is one of its sender's numbers there.
LEMMA ItemNumber ==
  ASSUME NEW c \in Seq(Item), NEW i \in DOMAIN c
  PROVE  /\ c[i][1] \in Senders /\ c[i][2] \in Nat /\ c[i][2] \in Of(c[i][1], c)
         /\ c[i] = <<c[i][1], c[i][2]>>
<1>1. c[i] \in Item
  OBVIOUS
<1>2. /\ c[i][1] \in Senders /\ c[i][2] \in Nat /\ c[i][2] \in 1 .. Quota[c[i][1]]
      /\ c[i] = <<c[i][1], c[i][2]>>
  BY <1>1 DEF Item
<1> QED  BY <1>2, Zenon DEF Of

\* The items that a push appends.
LEMMA PushedItems ==
  ASSUME NEW s \in Senders, NEW m \in Nat, NEW n \in Nat, m + n <= Quota[s]
  PROVE  LET x == [i \in 1 .. n |-> <<s, m + i>>]
         IN  x \in Seq(Item) /\ Len(x) = n /\ \A i \in 1 .. n : x[i] = <<s, m + i>>
<1>1. Quota[s] \in Nat
  BY ChannelAssumption
<1>2. \A i \in 1 .. n : <<s, m + i>> \in Item
  BY <1>1 DEF Item
<1> QED  BY <1>2

\* A sender's next n items go to the end.
LEMMA PushNumbers ==
  ASSUME NEW c \in Seq(Item), NEW g \in [Senders -> Nat], NEW t \in [Senders -> Nat],
         Numbered(c, g, t), NEW s \in Senders, NEW n \in Nat, t[s] + n <= Quota[s],
         NEW x \in Seq(Item), Len(x) = n, \A i \in 1 .. n : x[i] = <<s, t[s] + i>>
  PROVE  Numbered(c \o x, g, [t EXCEPT ![s] = @ + n])
<1> DEFINE d == c \o x
           u == [t EXCEPT ![s] = @ + n]
<1>1. Quota[s] \in Nat /\ t[s] \in Nat /\ g[s] \in Nat
  BY ChannelAssumption
<1>5. /\ Len(c) \in Nat /\ DOMAIN d = 1 .. (Len(c) + n) /\ DOMAIN c = 1 .. Len(c)
      /\ \A i \in 1 .. Len(c) : d[i] = c[i]
      /\ \A i \in 1 .. n : d[Len(c) + i] = <<s, t[s] + i>>
  <2>1. DOMAIN d = 1 .. (Len(c) + Len(x)) /\ Len(c) \in Nat /\ DOMAIN c = 1 .. Len(c)
    BY ONLY c \in Seq(Item), x \in Seq(Item)
  <2>2. \A i \in 1 .. Len(c) : d[i] = c[i]
    BY ONLY c \in Seq(Item), x \in Seq(Item)
  <2>3. \A i \in 1 .. Len(x) : d[Len(c) + i] = x[i]
    BY ONLY c \in Seq(Item), x \in Seq(Item)
  <2> HIDE DEF d
  <2> QED  BY <2>1, <2>2, <2>3, SMTT(30)
<1> HIDE DEF d
<1>6. \A i \in DOMAIN d :
        i \in DOMAIN c \/ (i - Len(c) \in 1 .. n /\ d[i] = <<s, t[s] + (i - Len(c))>>)
  <2> TAKE i \in DOMAIN d
  <2>1. i \in DOMAIN c \/ (i - Len(c) \in 1 .. n /\ Len(c) + (i - Len(c)) = i)
    BY ONLY <1>5, i \in DOMAIN d
  <2> QED  BY <1>5, <2>1, SMTT(30)
<1>7. \A i \in DOMAIN c : i \in DOMAIN d /\ d[i] = c[i]
  BY <1>5
<1>8. \A i \in DOMAIN c : c[i][2] \in Nat /\ (c[i][1] = s => c[i][2] <= t[s])
  <2> TAKE i \in DOMAIN c
  <2>1. c[i][2] \in Nat /\ c[i][2] \in Of(c[i][1], c)
    BY ItemNumber
  <2>2. c[i][1] = s => c[i][2] \in (g[s] + 1) .. t[s]
    BY <2>1, Zenon DEF Numbered
  <2> QED  BY <1>1, <2>1, <2>2
<1>9. Ordered(d)
  <2> SUFFICES ASSUME NEW i \in DOMAIN d, NEW j \in DOMAIN d, i < j, d[i][1] = d[j][1]
               PROVE  d[i][2] < d[j][2]
    BY Zenon DEF Ordered
  <2>1. CASE i \in DOMAIN c /\ j \in DOMAIN c
    BY <1>7, <2>1, Zenon DEF Numbered, Ordered
  <2>2. CASE i \in DOMAIN c /\ j \notin DOMAIN c
    <3>1. j - Len(c) \in 1 .. n /\ d[j][1] = s /\ d[j][2] = t[s] + (j - Len(c))
      BY <1>6, <2>2
    <3>2. d[i] = c[i] /\ c[i][2] \in Nat /\ c[i][2] <= t[s]
      BY <1>7, <1>8, <2>2, <3>1, SMTT(30)
    <3> QED  BY <1>1, <3>1, <3>2, SMTT(30)
  <2>3. CASE i \notin DOMAIN c /\ j \notin DOMAIN c
    <3>1. /\ d[i][2] = t[s] + (i - Len(c)) /\ i - Len(c) \in 1 .. n
          /\ d[j][2] = t[s] + (j - Len(c)) /\ j - Len(c) \in 1 .. n
      BY <1>6, <2>3, SMTT(30)
    <3>2. i \in Nat /\ j \in Nat /\ Len(c) \in Nat
      BY <1>5
    <3>3. i - Len(c) < j - Len(c)
      BY ONLY <3>2, i < j
    <3> QED  BY ONLY <1>1, <3>1, <3>3
  <2>4. CASE i \notin DOMAIN c /\ j \in DOMAIN c
    BY ONLY <1>5, <2>4, i < j, i \in DOMAIN d
  <2> QED  BY <2>1, <2>2, <2>3, <2>4
<1>10. \A v \in Senders : v # s => Of(v, d) = Of(v, c)
  <2> SUFFICES ASSUME NEW v \in Senders, v # s, NEW k
               PROVE  (\E i \in DOMAIN d : d[i] = <<v, k>>) <=> (\E i \in DOMAIN c : c[i] = <<v, k>>)
    BY Zenon DEF Of
  <2>1. \A m : <<s, m>> # <<v, k>>
    OBVIOUS
  <2> QED  BY <1>6, <1>7, <2>1, Zenon
<1>11. Of(s, d) = (g[s] + 1) .. (t[s] + n)
  <2>1. ASSUME NEW k \in Of(s, d) PROVE k \in (g[s] + 1) .. (t[s] + n)
    <3>1. PICK i \in DOMAIN d : d[i] = <<s, k>>
      BY <2>1 DEF Of
    <3>2. k \in 1 .. Quota[s]
      BY <2>1 DEF Of
    <3>3. CASE i \in DOMAIN c
      <4>1. k \in Of(s, c)
        BY <1>7, <3>1, <3>2, <3>3, Zenon DEF Of
      <4>2. k \in (g[s] + 1) .. t[s]
        BY <4>1, Zenon DEF Numbered
      <4> QED  BY ONLY <1>1, <4>2, n \in Nat
    <3>4. CASE i \notin DOMAIN c
      <4>1. i - Len(c) \in 1 .. n /\ k = t[s] + (i - Len(c))
        BY <1>6, <3>1, <3>4
      <4>2. g[s] <= t[s]
        BY Zenon DEF Numbered
      <4> QED  BY ONLY <1>1, <4>1, <4>2, n \in Nat, SMTT(30)
    <3> QED  BY <3>3, <3>4
  <2>2. ASSUME NEW k \in (g[s] + 1) .. (t[s] + n) PROVE k \in Of(s, d)
    <3>1. k \in 1 .. Quota[s]
      BY <1>1
    <3>2. CASE k <= t[s]
      <4>1. k \in (g[s] + 1) .. t[s]
        BY <1>1, <3>2
      <4>2. k \in Of(s, c)
        BY <4>1, Zenon DEF Numbered
      <4>3. PICK i \in DOMAIN c : c[i] = <<s, k>>
        BY <4>2, Zenon DEF Of
      <4> QED  BY <1>7, <3>1, <4>3, Zenon DEF Of
    <3>3. CASE ~(k <= t[s])
      <4> DEFINE i == k - t[s]
      <4>1. i \in 1 .. n /\ t[s] + i = k
        BY ONLY <1>1, <3>3, k \in (g[s] + 1) .. (t[s] + n), n \in Nat
      <4> HIDE DEF i
      <4>2. Len(c) \in Nat
        BY <1>5
      <4>3. Len(c) + i \in 1 .. (Len(c) + n)
        BY ONLY <4>1, <4>2, n \in Nat
      <4>4. Len(c) + i \in DOMAIN d /\ d[Len(c) + i] = <<s, k>>
        BY <1>5, <4>1, <4>3, SMTT(30)
      <4> QED  BY <3>1, <4>4, Zenon DEF Of
    <3> QED  BY <3>2, <3>3
  <2> QED  BY <2>1, <2>2, Zenon
<1>12. \A v \in Senders : g[v] <= u[v] /\ Of(v, d) = (g[v] + 1) .. u[v]
  <2> TAKE v \in Senders
  <2>1. g[v] <= t[v] /\ Of(v, c) = (g[v] + 1) .. t[v]
    BY Zenon DEF Numbered
  <2>2. CASE v = s
    BY <1>1, <1>11, <2>1, <2>2
  <2>3. CASE v # s
    BY <1>10, <2>1, <2>3
  <2> QED  BY <2>2, <2>3
<1>13. Numbered(d, g, u)
  BY <1>9, <1>12, Zenon DEF Numbered
<1> QED  BY <1>13 DEF d

\* The first item is its sender's oldest: once it is delivered, the rest follow.
LEMMA PopNumbers ==
  ASSUME NEW c \in Seq(Item), c # <<>>, NEW g \in [Senders -> Nat], NEW t \in [Senders -> Nat],
         Numbered(c, g, t)
  PROVE  LET h == Head(c)
         IN  h \in Item /\ Numbered(Tail(c), [g EXCEPT ![h[1]] = h[2]], t)
<1> DEFINE h == Head(c)
           s == h[1]
           d == Tail(c)
           f == [g EXCEPT ![s] = h[2]]
<1>1. /\ d \in Seq(Item) /\ h = c[1] /\ 1 \in DOMAIN c /\ h \in Item
      /\ Len(c) \in Nat /\ DOMAIN c = 1 .. Len(c) /\ DOMAIN d = 1 .. (Len(c) - 1)
      /\ \A i \in 1 .. (Len(c) - 1) : d[i] = c[i + 1]
  OBVIOUS
<1> HIDE DEF d, h
<1>2. s \in Senders /\ h[2] \in Nat /\ h[2] \in Of(s, c) /\ h = <<s, h[2]>>
  BY <1>1, ItemNumber
<1> HIDE DEF s
<1>3. g[s] \in Nat /\ t[s] \in Nat /\ Of(s, c) = (g[s] + 1) .. t[s]
  BY <1>2 DEF Numbered
<1>4. \A i \in DOMAIN d : i + 1 \in DOMAIN c /\ 1 < i + 1 /\ d[i] = c[i + 1]
  BY ONLY <1>1
<1>5. \A i \in DOMAIN c : i = 1 \/ (i - 1 \in DOMAIN d /\ 1 < i /\ d[i - 1] = c[i])
  <2> TAKE i \in DOMAIN c
  <2>1. i = 1 \/ (i - 1 \in 1 .. (Len(c) - 1) /\ (i - 1) + 1 = i /\ 1 < i)
    BY ONLY <1>1, i \in DOMAIN c
  <2> QED  BY <1>1, <2>1
<1>6. \A i \in DOMAIN c : 1 < i /\ c[i][1] = s => h[2] < c[i][2]
  BY <1>1, Zenon DEF Numbered, Ordered, s
<1>7. h[2] = g[s] + 1
  <2>1. g[s] + 1 \in Of(s, c)
    BY <1>2, <1>3
  <2>2. PICK i \in DOMAIN c : c[i] = <<s, g[s] + 1>>
    BY <2>1 DEF Of
  <2>3. i = 1 \/ 1 < i
    BY <1>5, Zenon
  <2>4. CASE i = 1
    BY <1>1, <2>2, <2>4
  <2>5. CASE 1 < i
    <3>1. h[2] < g[s] + 1
      BY <1>6, <2>2, <2>5
    <3> QED  BY <1>2, <1>3, <3>1
  <2> QED  BY <2>3, <2>4, <2>5
<1>8. Ordered(d)
  <2> SUFFICES ASSUME NEW i \in DOMAIN d, NEW j \in DOMAIN d, i < j, d[i][1] = d[j][1]
               PROVE  d[i][2] < d[j][2]
    BY Zenon DEF Ordered
  <2>1. i + 1 < j + 1
    BY ONLY <1>1, i \in DOMAIN d, j \in DOMAIN d, i < j
  <2> QED  BY <1>4, <2>1, ZenonT(40) DEF Numbered, Ordered
<1>9. \A v \in Senders : v # s => Of(v, d) = Of(v, c)
  <2> SUFFICES ASSUME NEW v \in Senders, v # s, NEW k
               PROVE  (\E i \in DOMAIN d : d[i] = <<v, k>>) <=> (\E i \in DOMAIN c : c[i] = <<v, k>>)
    BY Zenon DEF Of
  <2>1. c[1] # <<v, k>>
    BY <1>1, <1>2
  <2>2. ASSUME NEW i \in DOMAIN c, c[i] = <<v, k>> PROVE \E j \in DOMAIN d : d[j] = <<v, k>>
    <3>1. i # 1
      BY <2>1, <2>2, Zenon
    <3>2. i - 1 \in DOMAIN d /\ d[i - 1] = <<v, k>>
      BY <1>5, <2>2, <3>1, Zenon
    <3> QED  BY <3>2
  <2> QED  BY <1>4, <2>2, Zenon
<1>10. Of(s, d) = (h[2] + 1) .. t[s]
  <2>1. ASSUME NEW k \in Of(s, d) PROVE k \in (h[2] + 1) .. t[s]
    <3>1. PICK i \in DOMAIN d : d[i] = <<s, k>>
      BY <2>1 DEF Of
    <3>2. i + 1 \in DOMAIN c /\ 1 < i + 1 /\ c[i + 1] = <<s, k>>
      BY <1>4, <3>1
    <3>3. k \in Of(s, c)
      BY <2>1, <3>2, Zenon DEF Of
    <3>4. h[2] < k
      BY <1>6, <3>2
    <3> QED  BY <1>2, <1>3, <3>3, <3>4
  <2>2. ASSUME NEW k \in (h[2] + 1) .. t[s] PROVE k \in Of(s, d)
    <3>1. k \in (g[s] + 1) .. t[s] /\ k # h[2]
      BY <1>2, <1>3, <1>7
    <3>2. k \in Of(s, c)
      BY <1>3, <3>1
    <3>3. PICK i \in DOMAIN c : c[i] = <<s, k>>
      BY <3>2 DEF Of
    <3>4. i # 1
      BY <1>1, <3>1, <3>3
    <3> QED  BY <1>5, <3>2, <3>3, <3>4, Zenon DEF Of
  <2> QED  BY <2>1, <2>2, Zenon
<1>11. \A v \in Senders : f[v] <= t[v] /\ Of(v, d) = (f[v] + 1) .. t[v]
  <2> TAKE v \in Senders
  <2>1. g[v] <= t[v] /\ Of(v, c) = (g[v] + 1) .. t[v]
    BY Zenon DEF Numbered
  <2>2. CASE v = s
    <3>1. h[2] <= t[s]
      BY <1>2, <1>3
    <3> QED  BY <1>2, <1>10, <2>2, <3>1
  <2>3. CASE v # s
    BY <1>9, <2>1, <2>3
  <2> QED  BY <2>2, <2>3
<1>12. Numbered(d, f, t)
  BY <1>8, <1>11, Zenon DEF Numbered
<1> QED  BY <1>1, <1>12 DEF h, d, s

\* The numbers of the channel.
LEMMA Numbers ==
  ASSUME TypeOK
  PROVE  /\ senders \in Nat /\ Cap \in Nat /\ Cap # 0
         /\ queue \in Seq(Item) /\ Len(queue) \in Nat /\ Len(queue) <= Cap
<1>1. senders \in Nat /\ queue \in Seq(Item) /\ Len(queue) <= Cap
  BY Zenon DEF TypeOK
<1>2. Len(queue) \in Nat
  BY <1>1
<1>3. Cap \in Nat /\ Cap # 0
  BY ChannelAssumption
<1> QED  BY <1>1, <1>2, <1>3, Zenon

-----------------------------------------------------------------------------
\* The steps of Next one by one.
LEMMA NextCases ==
  ASSUME [Next]_vars
  PROVE  \/ \E s \in Senders :
              \/ \E t \in Senders : Clone(s, t)
              \/ \E n \in 1 .. Quota[s] : TrySend(s, n)
              \/ Send(s) \/ PollSend(s) \/ DropSend(s) \/ DropSender(s) \/ Lock(s)
              \/ Repoll(s) \/ Check(s) \/ TryPush(s) \/ Park(s) \/ Signal(s)
              \/ SignalOn(s) \/ CancelWaiter(s) \/ CancelWake(s)
         \/ \E c \in {"try_recv", "recv_many", "recv", "recv_hot"} : Call(c)
         \/ PollRecv \/ DropRecv \/ DropReceiver \/ Lock(C) \/ NextStaged \/ StealInto
         \/ WakeOneWaiter \/ ConsumerWake \/ LoadSenders \/ Spin \/ RecvRegister
         \/ RecvArm \/ RecvDisarm \/ Sleep \/ End \/ WakeAllWaiters
         \/ UNCHANGED vars
BY Zenon DEF Next, SenderStep, ConsumerStep

-----------------------------------------------------------------------------
(* What a step does to the channel's contents. *)

DataSame == UNCHANGED <<queue, nonempty, staging, hold, got, told, moved, closed>>

Pushes(s, k) ==
  /\ pc[s] \in {"try_push", "push", "park"} /\ k # 0 /\ k <= hand[s] /\ k <= Cap - Len(queue)
  /\ pc'[s] = "signal" /\ Enqueue(s, k) /\ UNCHANGED <<staging, hold, got, told, closed>>

Serves ==
  /\ cpc = "next_staged" /\ staging # <<>> /\ hold' = Head(staging) /\ staging' = Tail(staging)
  /\ UNCHANGED <<queue, nonempty, got, told, moved, closed>>

Steals ==
  /\ cpc = "steal_into" /\ queue # <<>> /\ hold' = Head(queue) /\ staging' = Tail(queue)
  /\ queue' = staging /\ nonempty' = FALSE /\ UNCHANGED <<got, told, moved, closed>>

Reports(s) ==
  /\ told' = [told EXCEPT ![s] = @ + moved[s]] /\ moved' = [moved EXCEPT ![s] = 0]
  /\ UNCHANGED <<queue, nonempty, staging, hold, got, closed>>

Delivers ==
  /\ cpc = "end" /\ hold' = None
  /\ got' = IF hold = None THEN got ELSE [got EXCEPT ![hold[1]] = hold[2]]
  /\ UNCHANGED <<queue, nonempty, staging, told, moved, closed>>

Discards ==
  /\ closed' = TRUE /\ staging' = <<>> /\ got' = [s \in Senders |-> 0]
  /\ UNCHANGED <<queue, nonempty, hold, told, moved>>

\* try_push, try_push_many and push_or_park push what fits.
LEMMA PushSteps ==
  ASSUME TypeOK, HandInv, NEW s \in Senders, TryPush(s) \/ Park(s)
  PROVE  (\E k \in Nat : Pushes(s, k)) \/ DataSame
<1>1. /\ hand[s] \in Nat /\ Cap \in Nat /\ Len(queue) \in Nat
      /\ Len(queue) <= Cap /\ DOMAIN pc = Senders
  BY ChannelAssumption DEF TypeOK, HandInv, HandsOk, SenderSection
<1>2. CASE TryPush(s)
  <2> DEFINE k == Least(hand[s], Cap - Len(queue))
  <2>1. k \in Nat /\ k <= hand[s] /\ k <= Cap - Len(queue)
    BY ONLY <1>1 DEF Least
  <2>2. \/ /\ k > 0 /\ Enqueue(s, k) /\ pc' = [pc EXCEPT ![s] = "signal"]
           /\ pc[s] \in {"try_push", "push"} /\ UNCHANGED <<staging, hold, got, told, closed>>
        \/ DataSame
    BY <1>2, Zenon DEF TryPush, DataSame, life, cVars
  <2> HIDE DEF k
  <2>3. ASSUME k > 0, Enqueue(s, k), pc' = [pc EXCEPT ![s] = "signal"],
               pc[s] \in {"try_push", "push"}, UNCHANGED <<staging, hold, got, told, closed>>
        PROVE  Pushes(s, k)
    <3>1. k # 0
      BY <2>1, <2>3
    <3>2. pc'[s] = "signal"
      BY <1>1, <2>3
    <3> QED  BY <3>1, <3>2, <2>1, <2>3, Zenon DEF Pushes
  <2> QED  BY <2>1, <2>2, <2>3, Zenon
<1>3. CASE Park(s)
  <2>1. \/ /\ Len(queue) < Cap /\ At(s, "park", "signal") /\ Enqueue(s, 1)
           /\ UNCHANGED <<staging, hold, got, told, closed>>
        \/ DataSame
    BY <1>3, Zenon DEF Park, DataSame, life, cVars
  <2>2. ASSUME Len(queue) < Cap, At(s, "park", "signal"), Enqueue(s, 1),
               UNCHANGED <<staging, hold, got, told, closed>>
        PROVE  Pushes(s, 1)
    <3>1. pc[s] = "park" /\ pc'[s] = "signal"
      BY <1>1, <2>2 DEF At
    <3>2. hand[s] # 0
      BY <3>1 DEF HandInv, HandsOk, HandOk
    <3>3. 1 # 0 /\ 1 <= hand[s] /\ 1 <= Cap - Len(queue)
      BY ONLY <1>1, <2>2, <3>2
    <3> QED  BY <3>1, <3>3, <2>2, Zenon DEF Pushes
  <2>3. 1 \in Nat
    OBVIOUS
  <2> QED  BY <2>1, <2>2, <2>3, Zenon
<1> QED  BY <1>2, <1>3

\* Every step is one of these.
LEMMA DataSteps ==
  ASSUME TypeOK, HandInv, [Next]_vars
  PROVE  \/ DataSame
         \/ \E s \in Senders : \E k \in Nat : Pushes(s, k)
         \/ \E s \in Senders : Reports(s)
         \/ Serves \/ Steals \/ Delivers \/ Discards
<1>1. ASSUME NEW s \in Senders, TryPush(s) \/ Park(s)
      PROVE  (\E k \in Nat : Pushes(s, k)) \/ DataSame
  BY <1>1, PushSteps
<1>2. ASSUME NEW s \in Senders, Signal(s) PROVE Reports(s)
  BY <1>2, Zenon DEF Signal, Reports, inner, life, cVars
<1>3. ASSUME NEW s \in Senders,
             \/ \E t \in Senders : Clone(s, t)
             \/ \E n \in 1 .. Quota[s] : TrySend(s, n)
             \/ Send(s) \/ PollSend(s) \/ DropSend(s) \/ DropSender(s)
      PROVE  DataSame
  BY <1>3, Zenon DEF Clone, TrySend, Send, PollSend, DropSend, DropSender,
                     DataSame, inner, life, cVars
<1>4. ASSUME NEW s \in Senders,
             Lock(s) \/ Repoll(s) \/ Check(s) \/ SignalOn(s) \/ CancelWaiter(s) \/ CancelWake(s)
      PROVE  DataSame
  BY <1>4, Zenon DEF Lock, Repoll, Check, SignalOn, CancelWaiter, CancelWake,
                     DataSame, inner, life, sVars, cVars
<1>5. ASSUME NextStaged PROVE Serves \/ DataSame
  BY <1>5, Zenon DEF NextStaged, Go, Serves, DataSame, inner, life, sVars
<1>6. ASSUME StealInto PROVE Steals \/ DataSame
  BY <1>6, Zenon DEF StealInto, Go, Steals, DataSame, inner, life, sVars
<1>7. ASSUME End PROVE Delivers
  BY <1>7, Zenon DEF End, Go, Delivers, inner, life, sVars
<1>8. ASSUME DropReceiver PROVE Discards
  BY <1>8, Zenon DEF DropReceiver, Discards, inner, sVars
<1>9. ASSUME \/ \E c \in {"try_recv", "recv_many", "recv", "recv_hot"} : Call(c)
             \/ PollRecv \/ DropRecv \/ Lock(C) \/ WakeOneWaiter \/ ConsumerWake \/ LoadSenders
      PROVE  DataSame
  BY <1>9, Zenon DEF Call, PollRecv, DropRecv, Lock, WakeOneWaiter, ConsumerWake, LoadSenders,
                     DataSame, inner, life, sVars, cVars
<1>10. ASSUME \/ Spin \/ RecvRegister \/ RecvArm \/ RecvDisarm \/ Sleep \/ WakeAllWaiters
              \/ UNCHANGED vars
       PROVE  DataSame
  BY <1>10, Zenon DEF Spin, RecvRegister, RecvArm, RecvDisarm, Sleep, WakeAllWaiters,
                      DataSame, inner, life, sVars, vars
<1> QED  BY NextCases, <1>1, <1>2, <1>3, <1>4, <1>5, <1>6, <1>7, <1>8, <1>9, <1>10, Zenon

\* The contents as a sequence of items.
LEMMA ContentsIs ==
  ASSUME queue \in Seq(Item), staging \in Seq(Item), hold \in Item \cup {None}
  PROVE  /\ Contents \in Seq(Item) /\ staging \o queue \in Seq(Item)
         /\ hold = None => Contents = staging \o queue
         /\ hold # None => Contents = (<<hold>> \o staging) \o queue /\ hold \in Item
<1>1. CASE hold = None
  <2>1. Contents = (<<>> \o staging) \o queue
    BY <1>1 DEF Contents
  <2>2. <<>> \o staging = staging
    BY EmptyConcat
  <2>3. staging \o queue \in Seq(Item)
    OBVIOUS
  <2> QED  BY <1>1, <2>1, <2>2, <2>3, Zenon
<1>2. CASE hold # None
  <2>1. Contents = (<<hold>> \o staging) \o queue /\ hold \in Item
    BY <1>2 DEF Contents
  <2>2. (<<hold>> \o staging) \o queue \in Seq(Item) /\ staging \o queue \in Seq(Item)
    BY <2>1
  <2> QED  BY <1>2, <2>1, <2>2, Zenon
<1> QED  BY <1>1, <1>2

\* No item is an empty tuple.
LEMMA NoItem == None \notin Item
BY DEF None, Item

\* The items that a push appends to the queue.
LEMMA PushedQueue ==
  ASSUME TypeOK, HandInv, NEW s \in Senders, NEW k \in Nat, Pushes(s, k)
  PROVE  LET x == [i \in 1 .. k |-> <<s, told[s] + i>>]
         IN  /\ x \in Seq(Item) /\ Len(x) = k /\ (\A i \in 1 .. k : x[i] = <<s, told[s] + i>>)
             /\ queue' = queue \o x /\ queue' \in Seq(Item) /\ Len(queue') = Len(queue) + k
             /\ told[s] + k <= Quota[s] /\ moved[s] = 0
<1> DEFINE x == [i \in 1 .. k |-> <<s, told[s] + i>>]
<1>1. pc[s] \in {"try_push", "push", "park"} /\ k <= hand[s] /\ queue' = queue \o x
  BY Zenon DEF Pushes, Enqueue
<1>2. /\ told[s] \in Nat /\ hand[s] \in Nat /\ moved[s] \in Nat /\ Quota[s] \in Nat
      /\ told[s] + moved[s] + hand[s] <= Quota[s] /\ (moved[s] # 0 => pc[s] = "signal")
  BY ChannelAssumption DEF HandInv, HandsOk, HandOk
<1>3. moved[s] = 0
  BY <1>1, <1>2
<1>4. told[s] + k <= Quota[s]
  BY ONLY <1>1, <1>2, <1>3, k \in Nat
<1>5. x \in Seq(Item) /\ Len(x) = k /\ (\A i \in 1 .. k : x[i] = <<s, told[s] + i>>)
  BY <1>2, <1>4, PushedItems, ZenonT(40)
<1>6. queue \in Seq(Item)
  BY DEF TypeOK
<1>7. PICK y \in Seq(Item) : y = x
  BY <1>5, Zenon
<1>8. queue \o y \in Seq(Item) /\ Len(queue \o y) = Len(queue) + Len(y)
  BY ONLY <1>6, <1>7, y \in Seq(Item)
<1> QED  BY <1>1, <1>3, <1>4, <1>5, <1>7, <1>8, Zenon

\* Type correctness of the queue, the staging buffer and the item in hand.
LEMMA DataTypeKept ==
  ASSUME TypeOK, HandInv, FlowInv, [Next]_vars
  PROVE  DataType'
<1>1. /\ queue \in Seq(Item) /\ Len(queue) <= Cap /\ nonempty = (queue # <<>>)
      /\ staging \in Seq(Item) /\ Len(staging) < Cap /\ hold \in Item \cup {None}
  BY DEF TypeOK
<1>2. Cap \in Nat \ {0} /\ Len(queue) \in Nat
  BY <1>1, ChannelAssumption
<1>3. CASE DataSame \/ \E s \in Senders : Reports(s)
  <2>1. UNCHANGED <<queue, nonempty, staging, hold>>
    BY <1>3, Zenon DEF DataSame, Reports
  <2> QED  BY <1>1, <2>1 DEF DataType
<1>4. ASSUME NEW s \in Senders, NEW k \in Nat, Pushes(s, k) PROVE DataType'
  <2>1. queue' \in Seq(Item) /\ Len(queue') = Len(queue) + k
    BY <1>4, PushedQueue
  <2>2. k # 0 /\ k <= Cap - Len(queue) /\ UNCHANGED <<staging, hold>>
        /\ nonempty' = (nonempty \/ queue = <<>>)
    BY <1>4, Zenon DEF Pushes, Enqueue
  <2>3. Len(queue') <= Cap /\ Len(queue') # 0
    BY ONLY <1>2, <2>1, <2>2, k \in Nat
  <2>4. queue' # <<>> /\ nonempty'
    <3>1. queue' # <<>>
      BY ONLY <2>1, <2>3
    <3>2. nonempty'
      BY ONLY <1>1, <2>2, Zenon
    <3> QED  BY <3>1, <3>2
  <2> QED  BY <1>1, <2>1, <2>2, <2>3, <2>4, Zenon DEF DataType
<1>5. CASE Serves
  <2>1. /\ staging # <<>> /\ hold' = Head(staging) /\ staging' = Tail(staging)
        /\ UNCHANGED <<queue, nonempty>>
    BY <1>5, Zenon DEF Serves
  <2>2. Head(staging) \in Item /\ Tail(staging) \in Seq(Item) /\ Len(Tail(staging)) < Cap
    BY <1>1, <1>2, <2>1
  <2> QED  BY <1>1, <2>1, <2>2, Zenon DEF DataType
<1>6. CASE Steals
  <2>1. /\ queue # <<>> /\ hold' = Head(queue) /\ staging' = Tail(queue) /\ queue' = staging
        /\ nonempty' = FALSE
    BY <1>6, Zenon DEF Steals
  <2>2. staging = <<>>
    BY <1>6 DEF Steals, FlowInv
  <2>3. Head(queue) \in Item /\ Tail(queue) \in Seq(Item) /\ Len(Tail(queue)) < Cap
    BY <1>1, <1>2, <2>1
  <2>4. queue' = <<>> /\ nonempty' = FALSE
    BY <2>1, <2>2, Zenon
  <2>5. queue' \in Seq(Item) /\ Len(queue') <= Cap /\ nonempty' = (queue' # <<>>)
    <3>1. queue' \in Seq(Item) /\ Len(queue') <= Cap
      BY ONLY <1>2, <2>4
    <3>2. nonempty' = (queue' # <<>>)
      BY ONLY <2>4, Zenon
    <3> QED  BY <3>1, <3>2
  <2> QED  BY <2>1, <2>3, <2>5, Zenon DEF DataType
<1>7. CASE Delivers
  <2>1. UNCHANGED <<queue, nonempty, staging>> /\ hold' = None
    BY <1>7, Zenon DEF Delivers
  <2> QED  BY <1>1, <2>1 DEF DataType
<1>8. CASE Discards
  <2>1. UNCHANGED <<queue, nonempty, hold>> /\ staging' = <<>>
    BY <1>8, Zenon DEF Discards
  <2>2. staging' \in Seq(Item) /\ Len(staging') < Cap
    BY <1>2, <2>1
  <2> QED  BY <1>1, <2>1, <2>2 DEF DataType
<1> QED  BY DataSteps, <1>3, <1>4, <1>5, <1>6, <1>7, <1>8, Zenon

-----------------------------------------------------------------------------
(* The contents, step by step. *)

ContentsSame == Contents' = Contents /\ got' = got /\ Accepted' = Accepted

ContentsGrow(s, k) ==
  /\ told[s] + k <= Quota[s] /\ moved[s] = 0 /\ got' = got
  /\ Accepted' = [Accepted EXCEPT ![s] = @ + k]
  /\ \E x \in Seq(Item) : /\ Len(x) = k /\ \A i \in 1 .. k : x[i] = <<s, told[s] + i>>
                          /\ Contents' = Contents \o x

ContentsShrink ==
  /\ Contents # <<>> /\ Contents' = Tail(Contents)
  /\ got' = [got EXCEPT ![Head(Contents)[1]] = Head(Contents)[2]] /\ Accepted' = Accepted

\* What was told changes only when what was moved is reported.
LEMMA ReportsKeepAccepted ==
  ASSUME HandInv, NEW s \in Senders, Reports(s)
  PROVE  Accepted' = Accepted
<1>1. told' = [told EXCEPT ![s] = @ + moved[s]] /\ moved' = [moved EXCEPT ![s] = 0]
  BY Zenon DEF Reports
<1>2. told \in [Senders -> Nat] /\ moved \in [Senders -> Nat]
  BY DEF HandInv, HandsOk
<1>3. \A u \in Senders : told'[u] + moved'[u] = told[u] + moved[u]
  BY <1>1, <1>2
<1> QED  BY <1>3 DEF Accepted

\* A push adds to what is accepted of one sender.
LEMMA PushesAccept ==
  ASSUME HandInv, NEW s \in Senders, NEW k \in Nat, Pushes(s, k)
  PROVE  Accepted' = [Accepted EXCEPT ![s] = @ + k]
<1>1. told' = told /\ moved' = [moved EXCEPT ![s] = @ + k]
  BY Zenon DEF Pushes, Enqueue
<1>2. told \in [Senders -> Nat] /\ moved \in [Senders -> Nat]
  BY DEF HandInv, HandsOk
<1>3. \A u \in Senders : told'[u] + moved'[u] = IF u = s THEN (told[u] + moved[u]) + k ELSE told[u] + moved[u]
  BY <1>1, <1>2
<1>4. Accepted' = [u \in Senders |-> told'[u] + moved'[u]]
  BY DEF Accepted
<1>5. Accepted = [u \in Senders |-> told[u] + moved[u]]
  BY DEF Accepted
<1> QED  BY ONLY <1>3, <1>4, <1>5, s \in Senders

\* A push appends to the contents.
LEMMA PushesGrow ==
  ASSUME TypeOK, HandInv, NEW s \in Senders, NEW k \in Nat, Pushes(s, k)
  PROVE  ContentsGrow(s, k)
<1> DEFINE x == [i \in 1 .. k |-> <<s, told[s] + i>>]
<1>1. /\ x \in Seq(Item) /\ Len(x) = k /\ (\A i \in 1 .. k : x[i] = <<s, told[s] + i>>)
      /\ queue' = queue \o x /\ told[s] + k <= Quota[s] /\ moved[s] = 0
  BY PushedQueue, Zenon
<1>2. UNCHANGED <<staging, hold, got>>
  BY Zenon DEF Pushes
<1> HIDE DEF x
<1>3. PICK y \in Seq(Item) : y = x
  BY <1>1, Zenon
<1>4. queue \in Seq(Item) /\ staging \in Seq(Item) /\ hold \in Item \cup {None}
  BY DEF TypeOK
<1> DEFINE front == IF hold = None THEN <<>> ELSE <<hold>>
<1>5. front \in Seq(Item)
  BY <1>4
<1>6. Contents = (front \o staging) \o queue
  BY Zenon DEF Contents
<1>7. Contents' = (front \o staging) \o (queue \o y)
  BY <1>1, <1>2, <1>3, Zenon DEF Contents
<1> HIDE DEF front
<1>8. PICK f \in Seq(Item) : f = front
  BY <1>5, Zenon
<1>9. PICK w \in Seq(Item) : w = f \o staging
  BY <1>4, Concat, Zenon
<1>10. w \o (queue \o y) = (w \o queue) \o y
  <2>1. PICK q \in Seq(Item) : q = queue
    BY <1>4, Zenon
  <2>2. w \o (q \o y) = (w \o q) \o y
    BY ONLY w \in Seq(Item), q \in Seq(Item), y \in Seq(Item), SMTT(30)
  <2> QED  BY <2>1, <2>2, Zenon
<1>11. Contents' = Contents \o y
  BY <1>6, <1>7, <1>8, <1>9, <1>10, Zenon
<1>12. Accepted' = [Accepted EXCEPT ![s] = @ + k]
  BY PushesAccept
<1> QED  BY <1>1, <1>2, <1>3, <1>11, <1>12, Zenon DEF ContentsGrow

\* Until the receiver is dropped a step leaves the contents alone, appends to them or
\* takes their first item.
LEMMA ContentsSteps ==
  ASSUME TypeOK, HandInv, FlowInv, [Next]_vars, ~closed'
  PROVE  \/ ContentsSame
         \/ \E s \in Senders : \E k \in Nat : ContentsGrow(s, k)
         \/ ContentsShrink
<1>1. queue \in Seq(Item) /\ staging \in Seq(Item) /\ hold \in Item \cup {None}
  BY DEF TypeOK
<1>2. /\ hold = None => Contents = staging \o queue
      /\ hold # None => Contents = (<<hold>> \o staging) \o queue /\ hold \in Item
  BY <1>1, ContentsIs
<1>3. CASE DataSame
  BY <1>3, Zenon DEF DataSame, Contents, Accepted, ContentsSame
<1>4. ASSUME NEW s \in Senders, NEW k \in Nat, Pushes(s, k) PROVE ContentsGrow(s, k)
  BY <1>4, PushesGrow
<1>5. ASSUME NEW s \in Senders, Reports(s) PROVE ContentsSame
  <2>1. Accepted' = Accepted
    BY <1>5, ReportsKeepAccepted
  <2> QED  BY <1>5, <2>1, Zenon DEF Reports, Contents, ContentsSame
<1>6. CASE Serves
  <2>1. /\ staging # <<>> /\ hold' = Head(staging) /\ staging' = Tail(staging)
        /\ UNCHANGED <<queue, got, told, moved>> /\ hold = None
    BY <1>6 DEF Serves, FlowInv
  <2>2. Head(staging) \in Item /\ <<Head(staging)>> \o Tail(staging) = staging
    BY <1>1, <2>1, HeadTail
  <2>3. hold' # None
    BY <2>1, <2>2, NoItem, Zenon
  <2>4. Contents' = (<<hold'>> \o staging') \o queue'
    BY <2>3, Zenon DEF Contents
  <2>5. Contents' = Contents
    BY <1>2, <2>1, <2>2, <2>4, Zenon
  <2> QED  BY <2>1, <2>5, Zenon DEF Accepted, ContentsSame
<1>7. CASE Steals
  <2>1. /\ queue # <<>> /\ hold' = Head(queue) /\ staging' = Tail(queue) /\ queue' = staging
        /\ UNCHANGED <<got, told, moved>> /\ cpc = "steal_into"
    BY <1>7, Zenon DEF Steals
  <2>2. hold = None /\ staging = <<>>
    BY <2>1 DEF FlowInv
  <2>3. Head(queue) \in Item /\ <<Head(queue)>> \o Tail(queue) = queue
    BY <1>1, <2>1, HeadTail
  <2>4. hold' # None
    BY <2>1, <2>3, NoItem, Zenon
  <2>5. Contents' = (<<hold'>> \o staging') \o queue'
    BY <2>4, Zenon DEF Contents
  <2>6. queue \o <<>> = queue /\ <<>> \o queue = queue
    BY <1>1, EmptyConcat
  <2>7. Contents' = Contents
    BY <1>2, <2>1, <2>2, <2>3, <2>5, <2>6, Zenon
  <2> QED  BY <2>1, <2>7, Zenon DEF Accepted, ContentsSame
<1>8. CASE Delivers
  <2>1. /\ hold' = None /\ UNCHANGED <<queue, staging, told, moved>>
        /\ got' = IF hold = None THEN got ELSE [got EXCEPT ![hold[1]] = hold[2]]
    BY <1>8, Zenon DEF Delivers
  <2>2. CASE hold = None
    BY <2>1, <2>2, Zenon DEF Contents, Accepted, ContentsSame
  <2>3. CASE hold # None
    <3>1. /\ Contents # <<>> /\ Tail(Contents) = staging \o queue /\ Head(Contents) = hold
      <4>1. PICK q \in Seq(Item), w \in Seq(Item), h \in Item : q = queue /\ w = staging /\ h = hold
        BY <1>1, <1>2, <2>3, Zenon
      <4>2. /\ (<<h>> \o w) \o q # <<>>
            /\ Tail((<<h>> \o w) \o q) = w \o q /\ Head((<<h>> \o w) \o q) = h
        BY ConsTail
      <4> QED  BY <1>2, <2>3, <4>1, <4>2, Zenon
    <3>2. Contents' = (<<>> \o staging) \o queue
      BY <2>1, Zenon DEF Contents
    <3>3. <<>> \o staging = staging
      BY <1>1, EmptyConcat
    <3>4. Accepted' = Accepted
      BY <2>1, Zenon DEF Accepted
    <3> QED  BY <2>1, <2>3, <3>1, <3>2, <3>3, <3>4, Zenon DEF ContentsShrink
  <2> QED  BY <2>2, <2>3
<1>9. ~Discards
  BY Zenon DEF Discards
<1> QED  BY DataSteps, <1>3, <1>4, <1>5, <1>6, <1>7, <1>8, <1>9, Zenon

\* Every sender's items stay numbered.
LEMMA DataKept ==
  ASSUME TypeOK, HandInv, FlowInv, DataInv, [Next]_vars
  PROVE  DataInv'
<1> SUFFICES ASSUME ~closed' PROVE Numbered(Contents', got', Accepted')
  BY Zenon DEF DataInv
<1>1. ~closed
  BY DataSteps, Zenon DEF DataSame, Pushes, Reports, Serves, Steals, Delivers, Discards
<1>2. Numbered(Contents, got, Accepted)
  BY <1>1, Zenon DEF DataInv
<1>3. Contents \in Seq(Item)
  BY ContentsIs DEF TypeOK
<1>4. /\ got \in [Senders -> Nat]
      /\ Accepted \in [Senders -> Nat] /\ \A s \in Senders : Accepted[s] = told[s] + moved[s]
  BY DEF HandInv, HandsOk, GotOk, Accepted
<1>5. CASE ContentsSame
  BY <1>2, <1>5, Zenon DEF ContentsSame
<1>6. ASSUME NEW s \in Senders, NEW k \in Nat, ContentsGrow(s, k)
      PROVE  Numbered(Contents', got', Accepted')
  <2>1. /\ told[s] + k <= Quota[s] /\ moved[s] = 0 /\ got' = got
        /\ Accepted' = [Accepted EXCEPT ![s] = @ + k]
    BY <1>6, Zenon DEF ContentsGrow
  <2>2. PICK x \in Seq(Item) : /\ Len(x) = k /\ \A i \in 1 .. k : x[i] = <<s, told[s] + i>>
                               /\ Contents' = Contents \o x
    BY <1>6, Zenon DEF ContentsGrow
  <2>3. Accepted[s] = told[s]
    BY <1>4, <2>1 DEF HandInv, HandsOk
  <2>4. Numbered(Contents \o x, got, [Accepted EXCEPT ![s] = @ + k])
    BY <1>2, <1>3, <1>4, <2>1, <2>2, <2>3, PushNumbers, ZenonT(40)
  <2> QED  BY <2>1, <2>2, <2>4, Zenon
<1>7. CASE ContentsShrink
  <2>1. Contents # <<>>
    BY <1>7, Zenon DEF ContentsShrink
  <2>2. Numbered(Tail(Contents), [got EXCEPT ![Head(Contents)[1]] = Head(Contents)[2]], Accepted)
    BY <1>2, <1>3, <1>4, <2>1, PopNumbers, Zenon
  <2> QED  BY <1>7, <2>2, Zenon DEF ContentsShrink
<1> QED  BY ContentsSteps, <1>5, <1>6, <1>7, Zenon

\* Items join at the end and leave at the front.
LEMMA FifoStep ==
  ASSUME TypeOK, HandInv, FlowInv, [Next]_vars
  PROVE  \/ closed'
         \/ Contents' = SubSeq(Contents, 2, Len(Contents))
         \/ SubSeq(Contents', 1, Len(Contents)) = Contents
<1> SUFFICES ASSUME ~closed'
             PROVE  \/ Contents' = SubSeq(Contents, 2, Len(Contents))
                    \/ SubSeq(Contents', 1, Len(Contents)) = Contents
  BY Zenon
<1>1. Contents \in Seq(Item)
  BY ContentsIs DEF TypeOK
<1>2. PICK c \in Seq(Item) : c = Contents
  BY <1>1, Zenon
<1>3. CASE ContentsSame
  <2>1. SubSeq(c, 1, Len(c)) = c
    BY Prefix
  <2> QED  BY <1>2, <1>3, <2>1, Zenon DEF ContentsSame
<1>4. ASSUME NEW s \in Senders, NEW k \in Nat, ContentsGrow(s, k)
      PROVE  SubSeq(Contents', 1, Len(Contents)) = Contents
  <2>1. PICK x \in Seq(Item) : Contents' = Contents \o x
    BY <1>4, Zenon DEF ContentsGrow
  <2>2. SubSeq(c \o x, 1, Len(c)) = c
    BY Prefix
  <2> QED  BY <1>2, <2>1, <2>2, Zenon
<1>5. CASE ContentsShrink
  <2>1. c # <<>> /\ Contents' = Tail(c)
    BY <1>2, <1>5, Zenon DEF ContentsShrink
  <2>2. SubSeq(c, 2, Len(c)) = Tail(c)
    BY <2>1, HeadTail
  <2> QED  BY <1>2, <2>1, <2>2, Zenon
<1> QED  BY ContentsSteps, <1>3, <1>4, <1>5, Zenon

-----------------------------------------------------------------------------
(* What the senders' calls have in hand. *)

\* A step of one sender's call.
LEMMA HandAt ==
  ASSUME DOMAIN pc = Senders, HandsOk, NEW s \in Senders,
         NEW x, NEW h, NEW m, NEW d, HandOk(s, x, h, m, d),
         pc' = [pc EXCEPT ![s] = x], hand' = [hand EXCEPT ![s] = h],
         moved' = [moved EXCEPT ![s] = m], told' = [told EXCEPT ![s] = d]
  PROVE  HandsOk'
<1>1. hand \in [Senders -> Nat] /\ moved \in [Senders -> Nat] /\ told \in [Senders -> Nat]
  BY DEF HandsOk
<1>2. h \in Nat /\ m \in Nat /\ d \in Nat
  BY DEF HandOk
<1>3. hand' \in [Senders -> Nat] /\ moved' \in [Senders -> Nat] /\ told' \in [Senders -> Nat]
  BY <1>1, <1>2
<1>4. pc'[s] = x /\ hand'[s] = h /\ moved'[s] = m /\ told'[s] = d
  BY <1>1
<1>5. \A u \in Senders : u # s => /\ pc'[u] = pc[u] /\ hand'[u] = hand[u]
                                  /\ moved'[u] = moved[u] /\ told'[u] = told[u]
  BY <1>1
<1>6. ASSUME NEW u \in Senders PROVE HandOk(u, pc'[u], hand'[u], moved'[u], told'[u])
  <2>1. HandOk(u, pc[u], hand[u], moved[u], told[u])
    BY Zenon DEF HandsOk
  <2>2. CASE u = s
    BY <1>4, <2>2, Zenon
  <2>3. CASE u # s
    BY <1>5, <2>1, <2>3, Zenon
  <2> QED  BY <2>2, <2>3
<1> QED  BY <1>3, <1>6, Zenon DEF HandsOk, HandOk

\* The same when what was moved and told stays.
LEMMA HandMoves ==
  ASSUME DOMAIN pc = Senders, HandsOk, NEW s \in Senders, pc[s] # "signal", NEW x, NEW h \in Nat,
         told[s] + h <= Quota[s],
         x \in {"try_push", "check", "push", "park", "parked", "repoll_waiter"} => h # 0,
         pc' = [pc EXCEPT ![s] = x],
         hand' = [hand EXCEPT ![s] = h] \/ (hand' = hand /\ h = hand[s]),
         moved' = moved, told' = told
  PROVE  HandsOk'
<1>1. hand \in [Senders -> Nat] /\ moved \in [Senders -> Nat] /\ told \in [Senders -> Nat]
  BY DEF HandsOk
<1>2. moved[s] = 0
  BY DEF HandsOk, HandOk
<1>3. HandOk(s, x, h, moved[s], told[s])
  <2>1. told[s] \in Nat /\ Quota[s] \in Nat
    BY <1>1, ChannelAssumption, Zenon
  <2>3. told[s] + 0 + h <= Quota[s]
    BY ONLY <2>1, h \in Nat, told[s] + h <= Quota[s]
  <2>2. HandOk(s, x, h, 0, told[s])
    BY <2>1, <2>3 DEF HandOk
  <2> QED  BY <1>2, <2>2, Zenon
<1>4. moved' = [moved EXCEPT ![s] = moved[s]] /\ told' = [told EXCEPT ![s] = told[s]]
  BY <1>1
<1>5. hand' = [hand EXCEPT ![s] = h]
  BY <1>1, Zenon
<1> QED  BY <1>3, <1>4, <1>5, HandAt, Zenon

\* The numbers of one call.
LEMMA HandFacts ==
  ASSUME HandsOk, NEW s \in Senders
  PROVE  /\ hand[s] \in Nat /\ moved[s] \in Nat /\ told[s] \in Nat /\ Quota[s] \in Nat
         /\ told[s] + hand[s] <= Quota[s] /\ told[s] <= Quota[s] /\ told[s] + 0 <= Quota[s]
         /\ told[s] + moved[s] + hand[s] <= Quota[s]
         /\ pc[s] # "signal" => moved[s] = 0
         /\ pc[s] \in {"try_push", "check", "push", "park", "parked", "repoll_waiter"} => hand[s] # 0
<1>1. HandOk(s, pc[s], hand[s], moved[s], told[s]) /\ Quota[s] \in Nat
  BY ChannelAssumption DEF HandsOk
<1> QED  BY <1>1 DEF HandOk

\* Beginning a call, dropping a future or a handle.
LEMMA CallsKeepHands ==
  ASSUME TypeOK, HandsOk, NEW s \in Senders,
         \/ \E t \in Senders : Clone(s, t)
         \/ \E n \in 1 .. Quota[s] : TrySend(s, n)
         \/ Send(s) \/ PollSend(s) \/ DropSend(s) \/ DropSender(s)
  PROVE  HandsOk'
<1>1. DOMAIN pc = Senders
  BY DEF TypeOK
<1>2. ASSUME NEW t \in Senders, Clone(s, t) PROVE HandsOk'
  <2>1. pc[t] = "none" /\ pc' = [pc EXCEPT ![t] = "idle"] /\ hand' = hand /\ moved' = moved /\ told' = told
    BY <1>2, Zenon DEF Clone, At
  <2> QED  BY <1>1, <2>1, HandFacts, HandMoves, Zenon
<1>3. ASSUME NEW n \in 1 .. Quota[s], TrySend(s, n) PROVE HandsOk'
  <2>1. /\ pc[s] = "idle" /\ pc' = [pc EXCEPT ![s] = "try_push"] /\ hand' = [hand EXCEPT ![s] = n]
        /\ moved' = moved /\ told' = told /\ told[s] + n <= Quota[s]
    BY <1>3, ZenonT(40) DEF TrySend, Begin, At
  <2>2. n \in Nat /\ n # 0
    BY HandFacts
  <2> QED  BY <1>1, <2>1, <2>2, HandMoves, Zenon
<1>4. CASE Send(s)
  <2>1. /\ pc[s] = "idle" /\ pc' = [pc EXCEPT ![s] = "check"] /\ hand' = [hand EXCEPT ![s] = 1]
        /\ moved' = moved /\ told' = told /\ told[s] < Quota[s]
    BY <1>4, ZenonT(40) DEF Send, Begin, At
  <2>2. told[s] + 1 <= Quota[s] /\ 1 \in Nat /\ 1 # 0
    BY <2>1, HandFacts
  <2> QED  BY <1>1, <2>1, <2>2, HandMoves, Zenon
<1>5. CASE PollSend(s)
  <2>1. /\ pc[s] = "parked" /\ pc' = [pc EXCEPT ![s] = "repoll_waiter"] /\ hand' = hand
        /\ moved' = moved /\ told' = told
    BY <1>5, Zenon DEF PollSend, At
  <2> QED  BY <1>1, <2>1, HandFacts, HandMoves, Zenon
<1>6. CASE DropSend(s)
  <2>1. /\ pc[s] = "parked" /\ pc' = [pc EXCEPT ![s] = "cancel_waiter"]
        /\ hand' = [hand EXCEPT ![s] = 0] /\ moved' = moved /\ told' = told
    BY <1>6, Zenon DEF DropSend, At
  <2> QED  BY <1>1, <2>1, HandFacts, HandMoves, Zenon
<1>7. CASE DropSender(s)
  <2> DEFINE x == IF senders = 1 THEN "last_signal" ELSE "gone"
  <2>1. /\ pc[s] = "idle" /\ pc' = [pc EXCEPT ![s] = x] /\ hand' = hand
        /\ moved' = moved /\ told' = told
    BY <1>7, Zenon DEF DropSender, Begin, At
  <2>2. x \notin {"try_push", "check", "push", "park", "parked", "repoll_waiter"}
    OBVIOUS
  <2> HIDE DEF x
  <2> QED  BY <1>1, <2>1, <2>2, HandFacts, HandMoves, Zenon
<1> QED  BY <1>2, <1>3, <1>4, <1>5, <1>6, <1>7, ZenonT(40)

\* A push moves k items of a call from its hand.
LEMMA PushKeepsHands ==
  ASSUME TypeOK, HandsOk, NEW s \in Senders, pc[s] # "signal", NEW k \in Nat, k <= hand[s],
         hand' = [hand EXCEPT ![s] = @ - k], moved' = [moved EXCEPT ![s] = @ + k], told' = told,
         pc' = [pc EXCEPT ![s] = "signal"]
  PROVE  HandsOk'
<1>1. DOMAIN pc = Senders
  BY DEF TypeOK
<1>2. told' = [told EXCEPT ![s] = told[s]]
  BY DEF HandsOk
<1>3. HandOk(s, "signal", hand[s] - k, moved[s] + k, told[s])
  BY HandFacts DEF HandOk
<1> QED  BY <1>1, <1>2, <1>3, HandAt, Zenon

\* The sections and the other steps of a call.
LEMMA StepsKeepHands ==
  ASSUME TypeOK, HandsOk, HandInv, NEW s \in Senders,
         Repoll(s) \/ Check(s) \/ TryPush(s) \/ Park(s) \/ Signal(s) \/ CancelWaiter(s) \/ CancelWake(s)
  PROVE  HandsOk'
<1>1. DOMAIN pc = Senders
  BY DEF TypeOK
<1>2. CASE Repoll(s)
  <2>1. /\ pc[s] = "repoll_waiter" /\ pc' = [pc EXCEPT ![s] = "check"] /\ hand' = hand
        /\ moved' = moved /\ told' = told
    BY <1>2, Zenon DEF Repoll, At
  <2> QED  BY <1>1, <2>1, HandFacts, HandMoves, Zenon
<1>3. CASE Check(s)
  <2>1. /\ pc[s] = "check" /\ moved' = moved /\ told' = told
        /\ pc' = [pc EXCEPT ![s] = IF closed THEN "idle" ELSE "push"]
        /\ hand' = [hand EXCEPT ![s] = IF closed THEN 0 ELSE hand[s]]
    BY <1>3, Zenon DEF Check, At
  <2>2. CASE closed
    <3>1. pc' = [pc EXCEPT ![s] = "idle"] /\ hand' = [hand EXCEPT ![s] = 0]
      BY <2>1, <2>2, Zenon
    <3> QED  BY <1>1, <2>1, <3>1, HandFacts, HandMoves, Zenon
  <2>3. CASE ~closed
    <3>1. pc' = [pc EXCEPT ![s] = "push"] /\ hand' = [hand EXCEPT ![s] = hand[s]]
      BY <2>1, <2>3, Zenon
    <3> QED  BY <1>1, <2>1, <3>1, HandFacts, HandMoves, Zenon
  <2> QED  BY <2>2, <2>3
<1>4. CASE TryPush(s)
  <2> DEFINE k == Least(hand[s], Cap - Len(queue))
  <2>1. \/ /\ Enqueue(s, k) /\ pc' = [pc EXCEPT ![s] = "signal"] /\ pc[s] \in {"try_push", "push"}
        \/ /\ At(s, "try_push", "idle") /\ hand' = [hand EXCEPT ![s] = 0] /\ moved' = moved
        \/ At(s, "push", "park") /\ hand' = hand /\ moved' = moved
    BY <1>4, Zenon DEF TryPush
  <2>2. told' = told
    BY <1>4, ZenonT(40) DEF TryPush
  <2>3. k \in Nat /\ k <= hand[s]
    <3>1. Cap \in Nat /\ Len(queue) \in Nat /\ Len(queue) <= Cap
      BY Numbers
    <3> QED  BY <3>1, HandFacts DEF Least
  <2> HIDE DEF k
  <2>4. CASE Enqueue(s, k) /\ pc' = [pc EXCEPT ![s] = "signal"] /\ pc[s] \in {"try_push", "push"}
    <3>1. hand' = [hand EXCEPT ![s] = @ - k] /\ moved' = [moved EXCEPT ![s] = @ + k] /\ pc[s] # "signal"
      BY <2>4 DEF Enqueue
    <3> QED  BY <2>2, <2>3, <2>4, <3>1, PushKeepsHands, Zenon
  <2>5. CASE At(s, "try_push", "idle") /\ hand' = [hand EXCEPT ![s] = 0] /\ moved' = moved
    BY <1>1, <2>2, <2>5, HandFacts, HandMoves, Zenon DEF At
  <2>6. CASE At(s, "push", "park") /\ hand' = hand /\ moved' = moved
    BY <1>1, <2>2, <2>6, HandFacts, HandMoves, Zenon DEF At
  <2> QED  BY <2>1, <2>4, <2>5, <2>6, Zenon
<1>5. CASE Park(s)
  <2>1. \/ /\ At(s, "park", "idle") /\ hand' = [hand EXCEPT ![s] = 0] /\ moved' = moved
        \/ At(s, "park", "signal") /\ Enqueue(s, 1)
        \/ At(s, "park", "parked") /\ hand' = hand /\ moved' = moved
    BY <1>5, Zenon DEF Park
  <2>2. told' = told
    BY <1>5, Zenon DEF Park
  <2>3. CASE At(s, "park", "idle") /\ hand' = [hand EXCEPT ![s] = 0] /\ moved' = moved
    BY <1>1, <2>2, <2>3, HandFacts, HandMoves, Zenon DEF At
  <2>4. CASE At(s, "park", "signal") /\ Enqueue(s, 1)
    <3>1. /\ hand' = [hand EXCEPT ![s] = @ - 1] /\ moved' = [moved EXCEPT ![s] = @ + 1]
          /\ pc[s] = "park" /\ pc' = [pc EXCEPT ![s] = "signal"]
      BY <2>4, SMTT(30) DEF Enqueue, At
    <3>2. 1 \in Nat /\ 1 <= hand[s]
      BY <3>1, HandFacts
    <3> QED  BY <2>2, <3>1, <3>2, PushKeepsHands, Zenon
  <2>5. CASE At(s, "park", "parked") /\ hand' = hand /\ moved' = moved
    BY <1>1, <2>2, <2>5, HandFacts, HandMoves, Zenon DEF At
  <2> QED  BY <2>1, <2>3, <2>4, <2>5, Zenon
<1>6. CASE Signal(s)
  <2>1. /\ told' = [told EXCEPT ![s] = @ + moved[s]] /\ moved' = [moved EXCEPT ![s] = 0]
        /\ hand' = [hand EXCEPT ![s] = 0]
    BY <1>6, Zenon DEF Signal
  <2>2. PICK x \in {"idle", "gone"} : pc' = [pc EXCEPT ![s] = x]
    BY <1>6, SMTT(30) DEF Signal, At
  <2>3. HandOk(s, x, 0, 0, told[s] + moved[s])
    BY HandFacts DEF HandOk
  <2> QED  BY <1>1, <2>1, <2>2, <2>3, HandAt, Zenon
<1>7. CASE CancelWaiter(s)
  <2>1. PICK x \in {"idle", "wake"} : pc' = [pc EXCEPT ![s] = x]
    BY <1>7, Zenon DEF CancelWaiter, At
  <2>2. pc[s] = "cancel_waiter" /\ hand' = hand /\ moved' = moved /\ told' = told
    BY <1>7, Zenon DEF CancelWaiter, At
  <2> QED  BY <1>1, <2>1, <2>2, HandFacts, HandMoves, Zenon
<1>8. CASE CancelWake(s)
  <2>1. /\ pc[s] = "wake" /\ pc' = [pc EXCEPT ![s] = "idle"]
        /\ hand' = hand /\ moved' = moved /\ told' = told
    BY <1>8, Zenon DEF CancelWake, At
  <2> QED  BY <1>1, <2>1, HandFacts, HandMoves, Zenon
<1> QED  BY <1>2, <1>3, <1>4, <1>5, <1>6, <1>7, <1>8, ZenonT(40)

\* The consumer's steps, and those that only take the lock or signal, leave the
\* senders' calls where they are.
LEMMA SendersSame ==
  ASSUME \/ \E s \in Senders : Lock(s) \/ SignalOn(s)
         \/ \E c \in {"try_recv", "recv_many", "recv", "recv_hot"} : Call(c)
         \/ PollRecv \/ DropRecv \/ DropReceiver \/ Lock(C) \/ NextStaged \/ StealInto
         \/ WakeOneWaiter \/ ConsumerWake \/ LoadSenders \/ Spin \/ RecvRegister
         \/ RecvArm \/ RecvDisarm \/ Sleep \/ End \/ WakeAllWaiters
         \/ UNCHANGED vars
  PROVE  UNCHANGED sVars
<1>1. CASE \/ \E s \in Senders : Lock(s) \/ SignalOn(s)
           \/ \E c \in {"try_recv", "recv_many", "recv", "recv_hot"} : Call(c)
           \/ PollRecv \/ DropRecv \/ DropReceiver \/ Lock(C) \/ NextStaged \/ StealInto
  BY <1>1, Zenon DEF Lock, SignalOn, Call, PollRecv, DropRecv, DropReceiver, NextStaged, StealInto, sVars
<1>2. CASE \/ WakeOneWaiter \/ ConsumerWake \/ LoadSenders \/ Spin \/ RecvRegister
           \/ RecvArm \/ RecvDisarm \/ Sleep \/ End \/ WakeAllWaiters \/ UNCHANGED vars
  BY <1>2, Zenon DEF WakeOneWaiter, ConsumerWake, LoadSenders, Spin, RecvRegister, RecvArm,
                     RecvDisarm, Sleep, End, WakeAllWaiters, vars, sVars
<1> QED  BY <1>1, <1>2, Zenon

\* The numbers of every call, and what was delivered, stay within the quota.
LEMMA HandKept ==
  ASSUME TypeOK, HandInv, [Next]_vars
  PROVE  HandInv'
<1>1. HandsOk /\ GotOk
  BY DEF HandInv
<1>2. HandsOk'
  <2>1. ASSUME UNCHANGED sVars PROVE HandsOk'
    BY <1>1, <2>1, Zenon DEF HandsOk, HandOk, sVars
  <2> QED  BY <1>1, <2>1, NextCases, SendersSame, CallsKeepHands, StepsKeepHands, Zenon
<1>3. GotOk'
  <2>1. got \in [Senders -> Nat] /\ \A s \in Senders : got[s] <= Quota[s] /\ Quota[s] \in Nat
    BY <1>1, ChannelAssumption DEF GotOk
  <2>2. ASSUME got' = got PROVE GotOk'
    BY <2>1, <2>2, Zenon DEF GotOk
  <2>3. CASE Delivers
    <3>1. CASE hold = None
      BY <2>2, <2>3, <3>1, Zenon DEF Delivers
    <3>2. CASE hold # None
      <4>1. got' = [got EXCEPT ![hold[1]] = hold[2]]
        BY <2>3, <3>2, Zenon DEF Delivers
      <4>2. hold[1] \in Senders /\ hold[2] \in Nat /\ hold[2] <= Quota[hold[1]]
        BY <2>1, <3>2 DEF TypeOK, Item
      <4> QED  BY <2>1, <4>1, <4>2 DEF GotOk
    <3> QED  BY <3>1, <3>2
  <2>4. CASE Discards
    <3>1. got' = [s \in Senders |-> 0]
      BY <2>4, Zenon DEF Discards
    <3> QED  BY <2>1, <3>1 DEF GotOk
  <2> QED  BY <2>2, <2>3, <2>4, DataSteps, Zenon DEF DataSame, Pushes, Reports, Serves, Steals
<1> QED  BY <1>2, <1>3, Zenon DEF HandInv

-----------------------------------------------------------------------------
(* Where the threads are. *)

PcSet == SenderSection \cup {"none", "idle", "check", "signal",
                             "parked", "wake", "last_signal", "gone"}

\* Where a sender goes on from each point; a call begins only once the last signal()
\* of its thread is over.
PcMove(s, x) ==
  /\ pc' = [pc EXCEPT ![s] = x]
  /\ \/ pc[s] = "none" /\ x = "idle"
     \/ pc[s] = "idle" /\ Quiet(recv, s) /\ x \in {"try_push", "check", "last_signal", "gone"}
     \/ pc[s] = "parked" /\ x \in {"repoll_waiter", "cancel_waiter"}
     \/ pc[s] = "repoll_waiter" /\ x = "check"
     \/ pc[s] = "check" /\ x \in {"idle", "push"}
     \/ pc[s] = "try_push" /\ x \in {"signal", "idle"}
     \/ pc[s] = "push" /\ x \in {"signal", "park"}
     \/ pc[s] = "park" /\ x \in {"idle", "signal", "parked"}
     \/ pc[s] = "signal" /\ x = "idle"
     \/ pc[s] = "last_signal" /\ x = "gone"
     \/ pc[s] = "cancel_waiter" /\ x \in {"idle", "wake"}
     \/ pc[s] = "wake" /\ x = "idle"

\* Every step is one of these.
LEMMA PcSteps ==
  ASSUME [Next]_vars
  PROVE  pc' = pc \/ \E s \in Senders : \E x \in PcSet : PcMove(s, x)
<1> DEFINE Moved == \E s \in Senders : \E x \in PcSet : PcMove(s, x)
<1>1. ASSUME NEW s \in Senders, NEW t \in Senders, Clone(s, t) PROVE Moved
  <2>1. PcMove(t, "idle")
    BY <1>1, Zenon DEF Clone, At, PcMove
  <2> QED  BY <2>1 DEF PcSet
<1>2. ASSUME NEW s \in Senders, NEW n \in 1 .. Quota[s], TrySend(s, n) PROVE Moved
  <2>1. PcMove(s, "try_push")
    BY <1>2 DEF TrySend, Begin, At, PcMove
  <2> QED  BY <2>1 DEF PcSet, SenderSection
<1>3. ASSUME NEW s \in Senders, Send(s) \/ DropSender(s) PROVE Moved
  <2>1. PcMove(s, "check") \/ PcMove(s, "last_signal") \/ PcMove(s, "gone")
    BY <1>3 DEF Send, DropSender, Begin, At, PcMove
  <2> QED  BY <2>1, SMTT(30) DEF PcSet
<1>4. ASSUME NEW s \in Senders, PollSend(s) \/ DropSend(s) PROVE Moved
  <2>1. PcMove(s, "repoll_waiter") \/ PcMove(s, "cancel_waiter")
    BY <1>4 DEF PollSend, DropSend, At, PcMove
  <2> QED  BY <2>1 DEF PcSet, SenderSection
<1>5. ASSUME NEW s \in Senders, Repoll(s) \/ Check(s) PROVE Moved
  <2>1. PcMove(s, "check") \/ PcMove(s, "idle") \/ PcMove(s, "push")
    BY <1>5 DEF Repoll, Check, At, PcMove
  <2> QED  BY <2>1, SMTT(30) DEF PcSet, SenderSection
<1>6. ASSUME NEW s \in Senders, TryPush(s) PROVE Moved
  <2>1. PcMove(s, "signal") \/ PcMove(s, "idle") \/ PcMove(s, "park")
    BY <1>6 DEF TryPush, At, PcMove
  <2> QED  BY <2>1, SMTT(30) DEF PcSet, SenderSection
<1>7. ASSUME NEW s \in Senders, Park(s) PROVE Moved
  <2>1. PcMove(s, "signal") \/ PcMove(s, "idle") \/ PcMove(s, "parked")
    BY <1>7 DEF Park, At, PcMove
  <2> QED  BY <2>1 DEF PcSet, SenderSection
<1>8. ASSUME NEW s \in Senders, Signal(s) PROVE Moved
  <2>1. PcMove(s, "idle") \/ PcMove(s, "gone")
    BY <1>8 DEF Signal, At, PcMove
  <2> QED  BY <2>1 DEF PcSet, SenderSection
<1>9. ASSUME NEW s \in Senders, CancelWaiter(s) \/ CancelWake(s) PROVE Moved
  <2>1. PcMove(s, "idle") \/ PcMove(s, "wake")
    BY <1>9, ZenonT(40) DEF CancelWaiter, CancelWake, At, PcMove
  <2> QED  BY <2>1, SMTT(30) DEF PcSet, SenderSection
<1> HIDE DEF Moved
<1>10. UNCHANGED sVars => pc' = pc
  BY Zenon DEF sVars
<1>11. pc' = pc \/ Moved
  BY NextCases, SendersSame, <1>1, <1>2, <1>3, <1>4, <1>5, <1>6, <1>7, <1>8, <1>9, <1>10, Zenon
<1> QED  BY <1>11 DEF Moved

\* The senders stay within the points of their code.
LEMMA PcKept ==
  ASSUME pc \in [Senders -> PcSet], [Next]_vars
  PROVE  pc' \in [Senders -> PcSet]
<1>1. ASSUME NEW s \in Senders, NEW x \in PcSet, PcMove(s, x) PROVE pc' \in [Senders -> PcSet]
  BY <1>1 DEF PcMove
<1> QED  BY <1>1, PcSteps, Zenon

-----------------------------------------------------------------------------
\* The steps of the senders leave the consumer alone.
LEMMA ConsumerSame ==
  ASSUME NEW s \in Senders,
         \/ \E t \in Senders : Clone(s, t)
         \/ \E n \in 1 .. Quota[s] : TrySend(s, n)
         \/ Send(s) \/ PollSend(s) \/ DropSend(s) \/ DropSender(s) \/ Lock(s)
         \/ Repoll(s) \/ Check(s) \/ TryPush(s) \/ Park(s) \/ Signal(s)
         \/ SignalOn(s) \/ CancelWaiter(s) \/ CancelWake(s)
  PROVE  UNCHANGED cVars /\ closed' = closed
<1>1. CASE \/ \E t \in Senders : Clone(s, t)
           \/ \E n \in 1 .. Quota[s] : TrySend(s, n)
           \/ Send(s) \/ PollSend(s) \/ DropSend(s) \/ DropSender(s) \/ Lock(s)
  BY <1>1, Zenon DEF Clone, TrySend, Send, PollSend, DropSend, DropSender, Lock, life
<1>2. CASE \/ Repoll(s) \/ Check(s) \/ TryPush(s) \/ Park(s) \/ Signal(s)
           \/ SignalOn(s) \/ CancelWaiter(s) \/ CancelWake(s)
  BY <1>2, ZenonT(40) DEF Repoll, Check, TryPush, Park, Signal, SignalOn, CancelWaiter, CancelWake, life
<1> QED  BY <1>1, <1>2, Zenon

\* What TypeOK says of the consumer's control.
CpcSet == ConsumerSection \cup {"idle", "next_staged", "wake", "senders", "spin", "register", "arm",
                                "disarm", "sleep", "parked", "end", "gone"}

ConsumerType ==
  /\ cpc \in CpcSet /\ closed \in BOOLEAN
  /\ call \in {"try_recv", "recv_many", "recv", "recv_hot"}
  /\ stage \in {"first", "spin", "armed", "last"} /\ spin \in 0 .. RecvSpin

\* The consumer goes on only from the points of its code, and the steps keep what
\* FlowInv says of them: those of a call that looks for an item.
LEMMA LooksKeepFlow ==
  ASSUME ConsumerType, FlowInv,
         \/ \E c \in {"try_recv", "recv_many", "recv", "recv_hot"} : Call(c)
         \/ PollRecv \/ NextStaged \/ StealInto \/ WakeOneWaiter \/ ConsumerWake \/ Spin
  PROVE  ConsumerType' /\ FlowInv'
<1> USE DEF ConsumerType, CpcSet, ConsumerSection, FlowInv
<1>1. ASSUME NEW c \in {"try_recv", "recv_many", "recv", "recv_hot"}, Call(c)
      PROVE  ConsumerType' /\ FlowInv'
  BY <1>1 DEF Call, Go, life
<1>2. CASE PollRecv
  BY <1>2 DEF PollRecv, Go, life
<1>3. CASE NextStaged
  BY <1>3, SMTT(30) DEF NextStaged, Go, life, Answer
<1>4. CASE StealInto
  BY <1>4, SMTT(30) DEF StealInto, Go, life, Answer, Woken
<1>5. CASE WakeOneWaiter
  BY <1>5, SMTT(30) DEF WakeOneWaiter, Go, life, Answer, Woken
<1>6. CASE ConsumerWake
  BY <1>6 DEF ConsumerWake, Go, life, Answer, Woken
<1>7. CASE Spin
  BY <1>7 DEF Spin, Go, life
<1> QED  BY <1>1, <1>2, <1>3, <1>4, <1>5, <1>6, <1>7

\* And the others.
LEMMA OthersKeepFlow ==
  ASSUME ConsumerType, FlowInv,
         \/ LoadSenders \/ RecvRegister \/ RecvArm \/ RecvDisarm \/ Sleep \/ End
         \/ DropRecv \/ DropReceiver \/ WakeAllWaiters \/ Lock(C)
  PROVE  ConsumerType' /\ FlowInv'
<1> USE DEF ConsumerType, CpcSet, ConsumerSection, FlowInv
<1>1. CASE LoadSenders
  BY <1>1, ChannelAssumption DEF LoadSenders, Go, life
<1>2. CASE RecvRegister
  BY <1>2 DEF RecvRegister, Go, life
<1>3. CASE RecvArm
  BY <1>3 DEF RecvArm, Go, life
<1>4. CASE RecvDisarm
  BY <1>4 DEF RecvDisarm, Go, life
<1>5. CASE Sleep
  BY <1>5 DEF Sleep, Go, life
<1>6. CASE End
  BY <1>6, ChannelAssumption DEF End, Go, life, CallOver
<1>7. CASE DropRecv
  BY <1>7, ChannelAssumption DEF DropRecv, Go, life, CallOver
<1>8. CASE DropReceiver
  BY <1>8 DEF DropReceiver, Go
<1>9. CASE WakeAllWaiters
  BY <1>9 DEF WakeAllWaiters, Go, life
<1>10. CASE Lock(C)
  BY <1>10 DEF Lock, life, cVars
<1> QED  BY <1>1, <1>2, <1>3, <1>4, <1>5, <1>6, <1>7, <1>8, <1>9, <1>10, ZenonT(40)

\* FlowInv and the consumer's types are kept by every step.
LEMMA FlowKept ==
  ASSUME ConsumerType, FlowInv, [Next]_vars
  PROVE  ConsumerType' /\ FlowInv'
<1>1. ASSUME UNCHANGED cVars, closed' = closed PROVE ConsumerType' /\ FlowInv'
  BY <1>1, Zenon DEF ConsumerType, FlowInv, cVars
<1>2. CASE UNCHANGED vars
  BY <1>1, <1>2, Zenon DEF vars, cVars
<1> QED  BY NextCases, ConsumerSame, LooksKeepFlow, OthersKeepFlow, <1>1, <1>2, Zenon

-----------------------------------------------------------------------------
(* The lock, and the count of the live handles. *)

\* The lock is held by a thread or free.
LEMMA LockedKept ==
  ASSUME locked \in Procs \cup {Free}, [Next]_vars
  PROVE  locked' \in Procs \cup {Free}
<1> DEFINE Ok == locked' = locked \/ locked' = Free \/ locked' \in Procs
<1>1. C \in Procs /\ \A s \in Senders : s \in Procs
  BY DEF Procs
<1>2. ASSUME NEW s \in Senders,
             \/ \E t \in Senders : Clone(s, t)
             \/ \E n \in 1 .. Quota[s] : TrySend(s, n)
             \/ Send(s) \/ PollSend(s) \/ DropSend(s) \/ DropSender(s) \/ Lock(s)
      PROVE  Ok
  BY <1>1, <1>2, Zenon DEF Clone, TrySend, Send, PollSend, DropSend, DropSender, Lock
<1>3. ASSUME NEW s \in Senders,
             \/ Repoll(s) \/ Check(s) \/ TryPush(s) \/ Park(s) \/ Signal(s)
             \/ SignalOn(s) \/ CancelWaiter(s) \/ CancelWake(s)
      PROVE  Ok
  BY <1>3, Zenon DEF Repoll, Check, TryPush, Park, Signal, SignalOn, CancelWaiter, CancelWake, Section
<1>4. CASE \/ \E c \in {"try_recv", "recv_many", "recv", "recv_hot"} : Call(c)
           \/ PollRecv \/ DropRecv \/ DropReceiver \/ Lock(C) \/ NextStaged \/ StealInto
  BY <1>1, <1>4, Zenon DEF Call, PollRecv, DropRecv, DropReceiver, Lock, NextStaged, StealInto, Section
<1>5. CASE \/ WakeOneWaiter \/ ConsumerWake \/ LoadSenders \/ Spin \/ RecvRegister
           \/ RecvArm \/ RecvDisarm \/ Sleep \/ End \/ WakeAllWaiters \/ UNCHANGED vars
  BY <1>5, Zenon DEF WakeOneWaiter, ConsumerWake, LoadSenders, Spin, RecvRegister, RecvArm,
                     RecvDisarm, Sleep, End, WakeAllWaiters, Section, vars
<1>6. Ok
  BY NextCases, <1>2, <1>3, <1>4, <1>5, Zenon
<1> QED  BY <1>6

Dead == {"none", "last_signal", "gone"}

CountSame == senders' = senders /\ \A s \in Senders : Alive(s)' <=> Alive(s)

\* A step that moves s within its life.
LEMMA LivesOn ==
  ASSUME DOMAIN pc = Senders, NEW s \in Senders, NEW x, pc' = [pc EXCEPT ![s] = x],
         pc[s] \in Dead <=> x \in Dead, senders' = senders
  PROVE  CountSame
BY DEF CountSame, Alive, Dead

\* Only clone and drop change the count, each by the handle it makes or ends.
LEMMA CountSteps ==
  ASSUME DOMAIN pc = Senders, [Next]_vars
  PROVE  \/ CountSame
         \/ \E s \in Senders : \E t \in Senders : Clone(s, t)
         \/ \E s \in Senders : DropSender(s)
<1>1. ASSUME NEW s \in Senders, NEW n \in 1 .. Quota[s], TrySend(s, n) PROVE CountSame
  <2>1. pc[s] = "idle" /\ pc' = [pc EXCEPT ![s] = "try_push"] /\ senders' = senders
    BY <1>1, Zenon DEF TrySend, Begin, At, life
  <2>2. pc[s] \in Dead <=> "try_push" \in Dead
    BY <2>1 DEF Dead
  <2> QED  BY <2>1, <2>2, LivesOn, Zenon
<1>2. ASSUME NEW s \in Senders,
             \/ Send(s) \/ PollSend(s) \/ DropSend(s) \/ Repoll(s) \/ Check(s)
             \/ TryPush(s) \/ Park(s) \/ Signal(s) \/ CancelWaiter(s) \/ CancelWake(s)
      PROVE  CountSame
  <2>1. senders' = senders
    BY <1>2, Zenon DEF Send, PollSend, DropSend, Repoll, Check, TryPush, Park, Signal,
                       CancelWaiter, CancelWake, life
  <2>2. CASE Send(s) \/ PollSend(s) \/ DropSend(s) \/ Repoll(s) \/ Check(s)
    <3>1. \E x : pc' = [pc EXCEPT ![s] = x] /\ (pc[s] \in Dead <=> x \in Dead)
      BY <2>2, Zenon DEF Send, PollSend, DropSend, Repoll, Check, Begin, At, Dead
    <3> QED  BY <2>1, <3>1, LivesOn, Zenon
  <2>3. CASE TryPush(s)
    <3>1. pc' = [pc EXCEPT ![s] = "signal"] \/ pc' = [pc EXCEPT ![s] = "idle"]
          \/ pc' = [pc EXCEPT ![s] = "park"]
      BY <2>3, Zenon DEF TryPush, At
    <3>2. pc[s] \in {"try_push", "push"}
      BY <2>3, Zenon DEF TryPush
    <3>3. \A x \in {"signal", "idle", "park"} : pc[s] \in Dead <=> x \in Dead
      BY <3>2 DEF Dead
    <3> QED  BY <2>1, <3>1, <3>3, LivesOn
  <2>4. CASE Park(s)
    <3>1. pc[s] = "park" /\ (pc' = [pc EXCEPT ![s] = "signal"] \/ pc' = [pc EXCEPT ![s] = "idle"]
          \/ pc' = [pc EXCEPT ![s] = "parked"])
      BY <2>4, Zenon DEF Park, At
    <3>3. \A x \in {"signal", "idle", "parked"} : pc[s] \in Dead <=> x \in Dead
      BY <3>1 DEF Dead
    <3> QED  BY <2>1, <3>1, <3>3, LivesOn
  <2>5. CASE Signal(s)
    <3>1. \/ pc[s] = "signal" /\ pc' = [pc EXCEPT ![s] = "idle"]
          \/ pc[s] = "last_signal" /\ pc' = [pc EXCEPT ![s] = "gone"]
      BY <2>5, Zenon DEF Signal, At
    <3>2. "signal" \notin Dead /\ "idle" \notin Dead /\ "last_signal" \in Dead /\ "gone" \in Dead
      BY DEF Dead
    <3> QED  BY <2>1, <3>1, <3>2, LivesOn
  <2>6. CASE CancelWaiter(s)
    <3>1. pc[s] = "cancel_waiter" /\ \E x \in {"idle", "wake"} : pc' = [pc EXCEPT ![s] = x]
      BY <2>6, Zenon DEF CancelWaiter, At
    <3>2. \A x \in {"idle", "wake"} : pc[s] \in Dead <=> x \in Dead
      BY <3>1 DEF Dead
    <3> QED  BY <2>1, <3>1, <3>2, LivesOn, Zenon
  <2>7. CASE CancelWake(s)
    <3>1. pc[s] = "wake" /\ pc' = [pc EXCEPT ![s] = "idle"]
      BY <2>7, Zenon DEF CancelWake, At
    <3>2. pc[s] \in Dead <=> "idle" \in Dead
      BY <3>1 DEF Dead
    <3> QED  BY <2>1, <3>1, <3>2, LivesOn, Zenon
  <2> QED  BY <1>2, <2>2, <2>3, <2>4, <2>5, <2>6, <2>7, Zenon
<1>3. ASSUME UNCHANGED sVars, senders' = senders PROVE CountSame
  BY <1>3, Zenon DEF sVars, CountSame, Alive
<1>4. ASSUME NEW s \in Senders, Lock(s) \/ SignalOn(s) PROVE senders' = senders
  BY <1>4, Zenon DEF Lock, SignalOn, life
<1>5. CASE \/ \E c \in {"try_recv", "recv_many", "recv", "recv_hot"} : Call(c)
           \/ PollRecv \/ DropRecv \/ DropReceiver \/ Lock(C) \/ NextStaged \/ StealInto
  <2>1. senders' = senders
    BY <1>5, Zenon DEF Call, PollRecv, DropRecv, DropReceiver, Lock, NextStaged, StealInto, life
  <2> QED  BY <1>3, <1>5, <2>1, SendersSame, Zenon
<1>6. CASE \/ WakeOneWaiter \/ ConsumerWake \/ LoadSenders \/ Spin \/ RecvRegister
           \/ RecvArm \/ RecvDisarm \/ Sleep \/ End \/ WakeAllWaiters \/ UNCHANGED vars
  <2>1. senders' = senders
    BY <1>6, Zenon DEF WakeOneWaiter, ConsumerWake, LoadSenders, Spin, RecvRegister, RecvArm,
                       RecvDisarm, Sleep, End, WakeAllWaiters, life, vars
  <2> QED  BY <1>3, <1>6, <2>1, SendersSame, Zenon
<1>7. ASSUME NEW s \in Senders, Lock(s) \/ SignalOn(s) PROVE CountSame
  BY <1>3, <1>4, <1>7, SendersSame, Zenon
<1> QED  BY NextCases, <1>1, <1>2, <1>5, <1>6, <1>7, Zenon

\* An element taken from a list leaves it one shorter.
LEMMA WithoutLen ==
  ASSUME NEW S, NEW q \in Seq(S), NEW f, Queued(q, f)
  PROVE  Len(Without(q, f)) = Len(q) - 1 /\ Len(q) # 0
<1> DEFINE i == CHOOSE i \in DOMAIN q : q[i] = f
           r == [j \in 1 .. Len(q) - 1 |-> IF j < i THEN q[j] ELSE q[j + 1]]
<1>1. Without(q, f) = r
  BY DEF Without
<1>2. i \in DOMAIN q
  BY DEF Queued
<1> HIDE DEF i
<1>3. Len(q) \in Nat /\ Len(q) # 0
  BY <1>2
<1>4. Len(q) - 1 \in Nat /\ DOMAIN r = 1 .. (Len(q) - 1)
  BY <1>3
<1>5. Len(r) = Len(q) - 1
  <2>1. \A j \in 1 .. (Len(q) - 1) : r[j] \in S
    BY <1>2, <1>3
  <2>2. r \in Seq(S)
    BY <1>4, <2>1
  <2> HIDE DEF r
  <2> QED  BY <1>4, <2>2
<1> QED  BY <1>1, <1>3, <1>5

\* A new element at the end of a list.
LEMMA AppendAdds ==
  ASSUME NEW S, NEW q \in Seq(S), Distinct(q), NEW f \in S, ~Queued(q, f)
  PROVE  /\ Append(q, f) \in Seq(S) /\ Distinct(Append(q, f)) /\ Len(Append(q, f)) = Len(q) + 1
         /\ \A g : Queued(Append(q, f), g) <=> Queued(q, g) \/ g = f
<1>1. /\ Append(q, f) \in Seq(S) /\ DOMAIN Append(q, f) = 1 .. Len(q) + 1
      /\ Len(Append(q, f)) = Len(q) + 1 /\ DOMAIN q = 1 .. Len(q) /\ Len(q) \in Nat
      /\ \A i \in 1 .. Len(q) : Append(q, f)[i] = q[i]
      /\ Append(q, f)[Len(q) + 1] = f
  OBVIOUS
<1>2. \A i \in DOMAIN q : q[i] # f
  BY DEF Queued
<1>3. Distinct(Append(q, f))
  BY <1>1, <1>2 DEF Distinct
<1>4. \A g : Queued(Append(q, f), g) <=> Queued(q, g) \/ g = f
  BY <1>1 DEF Queued
<1> QED  BY <1>1, <1>3, <1>4

\* `senders` counts the live handles.
LEMMA CountKept ==
  ASSUME DOMAIN pc = Senders, CountInv, [Next]_vars
  PROVE  CountInv' /\ senders' \in Nat
<1>1. PICK q \in Seq(Senders) : /\ Distinct(q) /\ Len(q) = senders
                                /\ \A s \in Senders : Queued(q, s) <=> Alive(s)
  BY Zenon DEF CountInv
<1>2. SUFFICES \E r \in Seq(Senders) : /\ Distinct(r) /\ Len(r) = senders'
                                       /\ \A s \in Senders : Queued(r, s) <=> Alive(s)'
  <2>1. ASSUME NEW r \in Seq(Senders), Len(r) = senders' PROVE senders' \in Nat
    BY <2>1
  <2> QED  BY <1>2, <2>1, Zenon DEF CountInv
<1>3. CASE CountSame
  BY <1>1, <1>3, Zenon DEF CountSame
<1>4. ASSUME NEW s \in Senders, NEW t \in Senders, Clone(s, t)
      PROVE  \E r \in Seq(Senders) : /\ Distinct(r) /\ Len(r) = senders'
                                     /\ \A u \in Senders : Queued(r, u) <=> Alive(u)'
  <2>1. pc[t] = "none" /\ pc' = [pc EXCEPT ![t] = "idle"] /\ senders' = senders + 1
    BY <1>4, Zenon DEF Clone, At
  <2>2. \A u \in Senders : Alive(u)' <=> Alive(u) \/ u = t
    BY <2>1 DEF Alive
  <2>3. ~Queued(q, t)
    BY <1>1, <2>1 DEF Alive
  <2>4. /\ Append(q, t) \in Seq(Senders) /\ Distinct(Append(q, t)) /\ Len(Append(q, t)) = Len(q) + 1
        /\ \A g : Queued(Append(q, t), g) <=> Queued(q, g) \/ g = t
    BY <1>1, <2>3, AppendAdds
  <2>5. Len(Append(q, t)) = senders'
    BY <1>1, <2>1, <2>4, Zenon
  <2> QED  BY <1>1, <2>2, <2>4, <2>5, Zenon
<1>5. ASSUME NEW s \in Senders, DropSender(s)
      PROVE  \E r \in Seq(Senders) : /\ Distinct(r) /\ Len(r) = senders'
                                     /\ \A u \in Senders : Queued(r, u) <=> Alive(u)'
  <2>1. /\ pc[s] = "idle" /\ pc' = [pc EXCEPT ![s] = IF senders = 1 THEN "last_signal" ELSE "gone"]
        /\ senders' = senders - 1
    BY <1>5, Zenon DEF DropSender, Begin, At
  <2>2. \A u \in Senders : Alive(u)' <=> Alive(u) /\ u # s
    BY <2>1 DEF Alive
  <2>3. Queued(q, s)
    BY <1>1, <2>1 DEF Alive
  <2>4. /\ Without(q, s) \in Seq(Senders) /\ Distinct(Without(q, s))
        /\ \A g : Queued(Without(q, s), g) <=> Queued(q, g) /\ g # s
    BY <1>1, WithoutRemoves, Zenon
  <2>5. Len(Without(q, s)) = senders'
    <3>1. Len(Without(q, s)) = Len(q) - 1
      BY <2>3, WithoutLen, Zenon
    <3> QED  BY <1>1, <2>1, <3>1, Zenon
  <2> QED  BY <1>1, <2>2, <2>4, <2>5, Zenon
<1> QED  BY CountSteps, <1>3, <1>4, <1>5, Zenon

\* Nobody is alive when the count is zero.
LEMMA CountZero ==
  ASSUME CountInv, NEW s \in Senders, Alive(s)
  PROVE  senders # 0
<1>1. PICK q \in Seq(Senders) : Len(q) = senders /\ \A u \in Senders : Queued(q, u) <=> Alive(u)
  BY Zenon DEF CountInv
<1>2. Queued(q, s)
  BY <1>1, Zenon
<1> QED  BY <1>1, <1>2, WithoutLen

-----------------------------------------------------------------------------
(* The end of the channel. *)

\* The last look for an item is decided on when no sender is left.
LEMMA StageSteps ==
  ASSUME [Next]_vars
  PROVE  stage' = stage \/ stage' # "last" \/ senders = 0
<1>1. UNCHANGED cVars => stage' = stage
  BY Zenon DEF cVars
<1>2. CASE \/ \E c \in {"try_recv", "recv_many", "recv", "recv_hot"} : Call(c)
           \/ PollRecv \/ DropRecv \/ LoadSenders \/ RecvArm \/ End
  BY <1>2 DEF Call, PollRecv, DropRecv, LoadSenders, RecvArm, End, CallOver
<1>3. CASE \/ DropReceiver \/ Lock(C) \/ NextStaged \/ StealInto \/ WakeOneWaiter \/ ConsumerWake \/ Spin
           \/ RecvRegister \/ RecvDisarm \/ Sleep \/ WakeAllWaiters \/ UNCHANGED vars
  BY <1>3, Zenon DEF DropReceiver, Lock, NextStaged, StealInto, WakeOneWaiter, ConsumerWake, Spin,
                     RecvRegister, RecvDisarm, Sleep, WakeAllWaiters, vars, cVars
<1> QED  BY NextCases, ConsumerSame, <1>1, <1>2, <1>3, Zenon

\* The consumer reports the end only after a look that found the channel empty.
LEMMA EndReached ==
  ASSUME TypeOK, FlowInv, EndInv, cpc # "end", [Next]_vars,
         stage' = "last", cpc' = "end", hold' = None
  PROVE  queue' = <<>> /\ staging' = <<>>
<1>1. UNCHANGED cVars => cpc' = cpc
  BY Zenon DEF cVars
<1>2. CASE NextStaged
  <2>1. CASE staging # <<>>
    <3>1. hold' = Head(staging)
      BY <1>2, <2>1, Zenon DEF NextStaged
    <3>2. Head(staging) \in Item
      BY <2>1, HeadTail, Zenon DEF TypeOK
    <3> QED  BY <3>1, <3>2, NoItem, Zenon
  <2>2. CASE staging = <<>>
    BY <1>2, <2>2 DEF NextStaged, Go
  <2> QED  BY <2>1, <2>2
<1>3. CASE StealInto
  <2>1. CASE queue # <<>>
    <3>1. hold' = Head(queue)
      BY <1>3, <2>1, ZenonT(40) DEF StealInto
    <3>2. Head(queue) \in Item
      BY <2>1, HeadTail DEF TypeOK
    <3> QED  BY <3>1, <3>2, NoItem, Zenon
  <2>2. CASE queue = <<>>
    <3>1. queue' = queue /\ staging' = staging /\ cpc = "steal_into"
      BY <1>3, <2>2, Zenon DEF StealInto, Go, inner
    <3> QED  BY <2>2, <3>1, Zenon DEF FlowInv
  <2> QED  BY <2>1, <2>2
<1>4. CASE WakeOneWaiter \/ ConsumerWake
  BY <1>4, Zenon DEF WakeOneWaiter, ConsumerWake, Go, Woken
<1>5. CASE LoadSenders
  <2>1. cpc' = "end" => stage' = stage /\ senders > 0
    BY <1>5, SMTT(30) DEF LoadSenders, Go
  <2>2. senders = 0
    BY <2>1, Zenon DEF EndInv
  <2> QED  BY ONLY <2>1, <2>2, cpc' = "end"
<1>6. CASE \/ \E c \in {"try_recv", "recv_many", "recv", "recv_hot"} : Call(c)
           \/ PollRecv \/ DropRecv \/ DropReceiver \/ Spin \/ RecvRegister \/ RecvArm
           \/ RecvDisarm \/ Sleep \/ End \/ WakeAllWaiters
  BY <1>6, Zenon DEF Call, PollRecv, DropRecv, DropReceiver, Spin, RecvRegister, RecvArm,
              RecvDisarm, Sleep, End, WakeAllWaiters, Go
<1>7. CASE Lock(C) \/ UNCHANGED vars
  BY <1>7, Zenon DEF Lock, vars, cVars
<1> QED  BY NextCases, ConsumerSame, <1>1, <1>2, <1>3, <1>4, <1>5, <1>6, <1>7, Zenon

\* Nothing enters a channel that has no sender left.
LEMMA EndKept ==
  ASSUME TypeOK, HandInv, CountInv, FlowInv, EndInv, [Next]_vars
  PROVE  EndInv'
<1>1. DOMAIN pc = Senders
  BY Zenon DEF TypeOK
<1>2. stage' = "last" => senders' = 0
  <2>1. CASE CountSame
    BY <2>1, StageSteps, Zenon DEF CountSame, EndInv
  <2>2. ASSUME NEW s \in Senders, Alive(s), UNCHANGED cVars PROVE stage' # "last"
    BY <2>2, CountZero, Zenon DEF EndInv, cVars
  <2>3. ASSUME NEW s \in Senders, NEW t \in Senders, Clone(s, t) PROVE stage' # "last"
    <3>1. Alive(s)
      BY <2>3 DEF Clone, Alive
    <3> QED  BY <2>2, <2>3, <3>1, ConsumerSame, Zenon
  <2>4. ASSUME NEW s \in Senders, DropSender(s) PROVE stage' # "last"
    <3>1. Alive(s)
      BY <2>4 DEF DropSender, Begin, At, Alive
    <3> QED  BY <2>2, <2>4, <3>1, ConsumerSame, Zenon
  <2> QED  BY <1>1, <2>1, <2>3, <2>4, CountSteps, Zenon
<1>3. ASSUME stage' = "last", cpc' = "end", hold' = None PROVE queue' = <<>> /\ staging' = <<>>
  <2>1. CASE cpc # "end"
    BY <1>3, <2>1, EndReached, Zenon
  <2>2. CASE cpc = "end"
    <3>1. ASSUME NEW s \in Senders, NEW k \in Nat, Pushes(s, k) PROVE FALSE
      <4>1. Alive(s)
        BY <3>1, ZenonT(40) DEF Pushes, Alive
      <4>2. senders # 0
        BY <4>1, CountZero, Zenon
      <4>3. stage = "last"
        BY <1>3, <4>2, StageSteps, Zenon
      <4> QED  BY <4>2, <4>3, ZenonT(40) DEF EndInv
    <3>2. ~End
      BY <1>3 DEF End, Go
    <3>3. UNCHANGED cVars
      <4>1. CASE \/ \E c \in {"try_recv", "recv_many", "recv", "recv_hot"} : Call(c)
                 \/ PollRecv \/ DropRecv \/ DropReceiver \/ NextStaged \/ StealInto \/ WakeOneWaiter
                 \/ ConsumerWake \/ LoadSenders \/ Spin \/ RecvRegister \/ RecvArm
                 \/ RecvDisarm \/ Sleep \/ WakeAllWaiters
        BY <2>2, <4>1, Zenon DEF Call, PollRecv, DropRecv, DropReceiver, NextStaged, StealInto, WakeOneWaiter,
                          ConsumerWake, LoadSenders, Spin, RecvRegister, RecvArm,
                          RecvDisarm, Sleep, WakeAllWaiters, Go
      <4>2. CASE Lock(C) \/ UNCHANGED vars
        BY <4>2, Zenon DEF Lock, vars, cVars
      <4> QED  BY <3>2, <4>1, <4>2, NextCases, ConsumerSame, Zenon
    <3>4. stage = "last" /\ hold = None /\ staging' = staging
      BY <1>3, <3>3, Zenon DEF cVars
    <3>5. queue = <<>> /\ staging = <<>>
      BY <2>2, <3>4, Zenon DEF EndInv
    <3>6. queue' = queue
      <4>1. "end" # "steal_into"
        OBVIOUS
      <4> QED  BY <2>2, <3>1, <4>1, DataSteps, Zenon DEF DataSame, Reports, Serves, Steals, Delivers, Discards
    <3> QED  BY <3>4, <3>5, <3>6, Zenon
  <2> QED  BY <2>1, <2>2
<1> QED  BY <1>2, <1>3, Zenon DEF EndInv

-----------------------------------------------------------------------------
(* The wait-list. *)

\* What TypeOK says of the wait-list and the wakers.
WaitType ==
  /\ waiting \in Seq(Senders) /\ selected \subseteq Senders /\ waitersLen = Len(waiting)
  /\ woken \subseteq Senders /\ towake \in [Procs -> SUBSET Senders]

WaitVars == <<waiting, selected, waitersLen, woken, towake>>

\* The longest-parked waiter of q leaves it, selected, for p to wake.
LEMMA PopTakes ==
  ASSUME WaitType, NEW p \in Procs, NEW q \in Seq(Senders), Distinct(q), NEW sel \in SUBSET Senders,
         PopFirst(p, q, sel), towake[p] = {}, woken' = woken
  PROVE  /\ WaitType' /\ Distinct(waiting')
         /\ \A u \in Senders : Queued(waiting', u) => Queued(q, u) /\ (u \notin sel => u \notin selected')
         /\ \A u \in Senders : u \in selected' => u \in sel \/ (Queued(q, u) /\ Awake(u)')
         /\ \A u \in Senders : Queued(q, u) \/ u \in sel => Queued(waiting', u) \/ u \in selected'
         /\ \A u \in Senders : Awake(u) => Awake(u)'
         /\ waiting' # <<>> => \E u \in Senders : u \in selected'
         /\ \A t, u \in towake'[p] : t = u
         /\ \A r \in Procs : r # p => towake'[r] = towake[r]
<1>1. towake \in [Procs -> SUBSET Senders] /\ woken \subseteq Senders
  BY DEF WaitType
<1>2. waitersLen' = Len(waiting')
  BY DEF PopFirst
<1>3. ASSUME NEW u \in Senders, Awake(u), NEW x, towake' = [towake EXCEPT ![p] = x] PROVE Awake(u)'
  <2>1. \A r \in Procs : r # p => towake'[r] = towake[r]
    BY <1>1, <1>3
  <2>2. CASE u \in woken
    BY <2>2, Zenon DEF Awake
  <2>3. CASE u \notin woken
    <3>1. PICK r \in Procs : u \in towake[r]
      BY <1>3, <2>3, Zenon DEF Awake
    <3>2. r # p
      BY <3>1
    <3> QED  BY <2>1, <3>1, <3>2, Zenon DEF Awake
  <2> QED  BY <2>2, <2>3
<1>4. CASE q = <<>>
  <2>1. waiting' = q /\ selected' = sel /\ towake' = [towake EXCEPT ![p] = {}]
    BY <1>4, Zenon DEF PopFirst
  <2>2. towake' \in [Procs -> SUBSET Senders] /\ towake'[p] = {}
        /\ \A r \in Procs : r # p => towake'[r] = towake[r]
    BY <1>1, <2>1
  <2>3. WaitType'
    BY <1>1, <1>2, <2>1, <2>2, Zenon DEF WaitType
  <2> QED  BY <1>3, <1>4, <2>1, <2>2, <2>3, Zenon
<1>5. CASE q # <<>>
  <2> DEFINE h == Head(q)
  <2>1. waiting' = Tail(q) /\ selected' = sel \cup {h} /\ towake' = [towake EXCEPT ![p] = {h}]
    BY <1>5, Zenon DEF PopFirst
  <2>2. /\ Tail(q) \in Seq(Senders) /\ h \in Senders /\ Distinct(Tail(q)) /\ Queued(q, h)
        /\ \A g : Queued(Tail(q), g) <=> Queued(q, g) /\ g # h
    BY <1>5, TailRemoves
  <2> HIDE DEF h
  <2>3. towake' \in [Procs -> SUBSET Senders] /\ towake'[p] = {h}
        /\ \A r \in Procs : r # p => towake'[r] = towake[r]
    BY <1>1, <2>1, <2>2
  <2>4. WaitType'
    BY <1>1, <1>2, <2>1, <2>2, <2>3 DEF WaitType
  <2>5. Awake(h)'
    <3>1. h \in towake'[p]
      BY <2>3
    <3> QED  BY <3>1, ZenonT(40) DEF Awake
  <2>6. \A u \in Senders : Queued(waiting', u) => Queued(q, u) /\ (u \notin sel => u \notin selected')
    BY <2>1, <2>2
  <2>7. \A u \in Senders : u \in selected' => u \in sel \/ (Queued(q, u) /\ Awake(u)')
    BY <2>1, <2>2, <2>5
  <2>8. \A u \in Senders : Queued(q, u) \/ u \in sel => Queued(waiting', u) \/ u \in selected'
    BY <2>1, <2>2
  <2>9. h \in selected' /\ \A t, u \in towake'[p] : t = u
    BY <2>1, <2>3
  <2> QED  BY <1>3, <2>1, <2>2, <2>3, <2>4, <2>6, <2>7, <2>8, <2>9, Zenon
<1> QED  BY <1>4, <1>5, Zenon

\* A waker fires: its send() knows, unless it is over.
LEMMA FireWakes ==
  ASSUME WaitType, NEW p \in Procs, NEW s \in Senders, Fire(p, s),
         UNCHANGED <<waiting, selected, waitersLen>>
  PROVE  /\ WaitType'
         /\ \A u \in Senders : Awake(u) /\ pc[u] \notin {"idle", "gone"} => Awake(u)'
         /\ s \in towake[p] /\ towake'[p] = towake[p] \ {s}
         /\ \A r \in Procs : r # p => towake'[r] = towake[r]
<1>1. towake \in [Procs -> SUBSET Senders] /\ woken \subseteq Senders
  BY DEF WaitType
<1>2. /\ s \in towake[p] /\ towake' = [towake EXCEPT ![p] = towake[p] \ {s}]
      /\ woken' = IF pc[s] \in {"idle", "gone"} THEN woken ELSE woken \cup {s}
  BY DEF Fire
<1>3. /\ towake' \in [Procs -> SUBSET Senders] /\ towake'[p] = towake[p] \ {s}
      /\ \A r \in Procs : r # p => towake'[r] = towake[r]
  BY <1>1, <1>2
<1>4. woken' \subseteq Senders /\ woken \subseteq woken'
  BY <1>1, <1>2
<1>5. WaitType'
  BY <1>3, <1>4, Zenon DEF WaitType
<1>6. ASSUME NEW u \in Senders, Awake(u), pc[u] \notin {"idle", "gone"} PROVE Awake(u)'
  <2>1. CASE u = s
    BY <1>2, <1>6, <2>1 DEF Awake
  <2>2. CASE u # s
    <3>1. \A r \in Procs : u \in towake[r] => u \in towake'[r]
      BY <1>3, <2>2
    <3> QED  BY <1>4, <1>6, <3>1, ZenonT(40) DEF Awake
  <2> QED  BY <2>1, <2>2
<1> QED  BY <1>2, <1>3, <1>5, <1>6

\* The steps that leave the wait-list and the wakers alone.
LEMMA WaitSame ==
  ASSUME NEW s \in Senders,
         \/ \E t \in Senders : Clone(s, t)
         \/ \E n \in 1 .. Quota[s] : TrySend(s, n)
         \/ DropSend(s) \/ DropSender(s) \/ Lock(s) \/ Check(s) \/ TryPush(s) \/ Signal(s) \/ SignalOn(s)
  PROVE  UNCHANGED WaitVars
<1>1. CASE \/ \E t \in Senders : Clone(s, t)
           \/ \E n \in 1 .. Quota[s] : TrySend(s, n)
           \/ DropSend(s) \/ DropSender(s)
  BY <1>1, Zenon DEF Clone, TrySend, DropSend, DropSender, WaitVars, inner, wakes
<1>2. CASE Lock(s) \/ Check(s) \/ TryPush(s) \/ Signal(s) \/ SignalOn(s)
  BY <1>2, Zenon DEF Lock, Check, TryPush, Signal, SignalOn, WaitVars, inner, wakes
<1> QED  BY <1>1, <1>2, Zenon

\* So do these of the consumer.
LEMMA ConsumerWaitSame ==
  ASSUME \/ \E c \in {"try_recv", "recv_many", "recv", "recv_hot"} : Call(c)
         \/ PollRecv \/ DropRecv \/ DropReceiver \/ Lock(C) \/ NextStaged \/ LoadSenders \/ Spin
         \/ RecvRegister \/ RecvArm \/ RecvDisarm \/ Sleep \/ End \/ UNCHANGED vars
  PROVE  UNCHANGED WaitVars
<1>1. CASE \/ \E c \in {"try_recv", "recv_many", "recv", "recv_hot"} : Call(c)
           \/ PollRecv \/ DropRecv \/ DropReceiver \/ Lock(C) \/ NextStaged \/ LoadSenders
  BY <1>1, Zenon DEF Call, PollRecv, DropRecv, DropReceiver, Lock, NextStaged, LoadSenders,
                     WaitVars, inner, wakes
<1>2. CASE \/ Spin \/ RecvRegister \/ RecvArm \/ RecvDisarm \/ Sleep \/ End \/ UNCHANGED vars
  BY <1>2, Zenon DEF Spin, RecvRegister, RecvArm, RecvDisarm, Sleep, End, vars, WaitVars, inner, wakes
<1> QED  BY <1>1, <1>2, Zenon

\* Only wake_all_waiters, after the receiver's drop, makes the list cleared.
LEMMA ClearedSteps ==
  ASSUME FlowInv, [Next]_vars, ~WakeAllWaiters
  PROVE  Cleared' <=> Cleared
<1>1. ASSUME UNCHANGED cVars, closed' = closed PROVE Cleared' <=> Cleared
  <2>1. cpc' = cpc
    BY <1>1, Zenon DEF cVars
  <2> QED  BY <1>1, <2>1 DEF Cleared
<1>2. CASE Lock(C) \/ UNCHANGED vars
  BY <1>1, <1>2, Zenon DEF Lock, life, vars, cVars
<1>3. CASE DropReceiver
  BY <1>3 DEF DropReceiver, Go, FlowInv, Cleared
<1>4. CASE ConsumerWake
  BY <1>4 DEF ConsumerWake, Go, life, Cleared, Woken, Answer
<1>5. CASE \/ \E c \in {"try_recv", "recv_many", "recv", "recv_hot"} : Call(c)
           \/ PollRecv \/ DropRecv \/ NextStaged \/ StealInto \/ WakeOneWaiter
           \/ LoadSenders \/ Spin \/ RecvRegister \/ RecvArm \/ RecvDisarm \/ Sleep \/ End
  <2>1. cpc \notin {"wake_all_waiters", "wake", "gone"}
    BY <1>5, Zenon DEF Call, PollRecv, DropRecv, NextStaged, StealInto, WakeOneWaiter,
                LoadSenders, Spin, RecvRegister, RecvArm, RecvDisarm, Sleep, End, Go
  <2>2. closed' = closed
    BY <1>5, Zenon DEF Call, PollRecv, DropRecv, NextStaged, StealInto, WakeOneWaiter,
                LoadSenders, Spin, RecvRegister, RecvArm, RecvDisarm, Sleep, End, life
  <2> QED  BY <2>1, <2>2, Zenon DEF FlowInv, Cleared
<1> QED  BY NextCases, ConsumerSame, <1>1, <1>2, <1>3, <1>4, <1>5, Zenon

\* A step that leaves the list alone, and every parked sender with its wake.
LEMMA WaitFrame ==
  ASSUME WaitInv, waiting' = waiting, selected' = selected, Cleared' <=> Cleared,
         \A u \in Senders : pc[u] \in WaitPoint => pc'[u] \in WaitPoint,
         \A u \in Senders : pc'[u] = "parked" => pc[u] = "parked" /\ (Awake(u) => Awake(u)')
  PROVE  WaitInv'
BY Zenon DEF WaitInv

\* A sender's step that neither parks nor leaves the list.
LEMMA WaitMoves ==
  ASSUME DOMAIN pc = Senders, NEW s \in Senders, NEW x, pc' = [pc EXCEPT ![s] = x],
         x # "parked", pc[s] \in WaitPoint => x \in WaitPoint
  PROVE  /\ \A u \in Senders : pc[u] \in WaitPoint => pc'[u] \in WaitPoint
         /\ \A u \in Senders : pc'[u] = "parked" => pc[u] = "parked" /\ u # s
<1>1. pc'[s] = x /\ \A u \in Senders : u # s => pc'[u] = pc[u]
  OBVIOUS
<1> QED  BY <1>1, Zenon

\* These are such steps.
LEMMA CallsMoveOn ==
  ASSUME NEW s \in Senders,
         \/ \E n \in 1 .. Quota[s] : TrySend(s, n)
         \/ Send(s) \/ PollSend(s) \/ DropSend(s) \/ DropSender(s)
         \/ Check(s) \/ TryPush(s) \/ Signal(s) \/ CancelWake(s)
  PROVE  \E x : /\ pc' = [pc EXCEPT ![s] = x] /\ x # "parked"
                /\ (pc[s] \in WaitPoint => x \in WaitPoint)
<1> USE DEF WaitPoint, At
<1>1. CASE \E n \in 1 .. Quota[s] : TrySend(s, n)
  <2>1. pc' = [pc EXCEPT ![s] = "try_push"] /\ pc[s] = "idle"
    BY <1>1, Zenon DEF TrySend, Begin
  <2> QED  BY <2>1, Zenon
<1>2. CASE Send(s) \/ PollSend(s) \/ DropSend(s) \/ DropSender(s)
  BY <1>2, ZenonT(40) DEF Send, PollSend, DropSend, DropSender, Begin
<1>3. CASE Check(s) \/ Signal(s) \/ CancelWake(s)
  BY <1>3 DEF Check, Signal, CancelWake
<1>4. CASE TryPush(s)
  <2>1. pc' = [pc EXCEPT ![s] = "signal"] \/ pc' = [pc EXCEPT ![s] = "idle"]
        \/ pc' = [pc EXCEPT ![s] = "park"]
    BY <1>4, Zenon DEF TryPush
  <2>2. pc[s] \in {"try_push", "push"}
    BY <1>4, Zenon DEF TryPush
  <2> QED  BY <2>1, <2>2
<1> QED  BY <1>1, <1>2, <1>3, <1>4, Zenon

\* The senders' steps that leave the list alone.
LEMMA CallsKeepWaits ==
  ASSUME TypeOK, WaitType, WaitInv, Cleared' <=> Cleared, NEW s \in Senders,
         \/ \E t \in Senders : Clone(s, t)
         \/ \E n \in 1 .. Quota[s] : TrySend(s, n)
         \/ Send(s) \/ PollSend(s) \/ DropSend(s) \/ DropSender(s) \/ Lock(s)
         \/ Check(s) \/ TryPush(s) \/ Signal(s) \/ SignalOn(s) \/ CancelWake(s)
  PROVE  WaitType' /\ WaitInv'
<1>1. DOMAIN pc = Senders
  BY Zenon DEF TypeOK
<1>2. ASSUME UNCHANGED WaitVars
      PROVE  /\ WaitType' /\ waiting' = waiting /\ selected' = selected
             /\ \A u \in Senders : Awake(u) => Awake(u)'
  BY <1>2, Zenon DEF WaitVars, WaitType, Awake
<1>3. ASSUME NEW t \in Senders, Clone(s, t) PROVE WaitType' /\ WaitInv'
  <2>1. pc[t] = "none" /\ pc' = [pc EXCEPT ![t] = "idle"]
    BY <1>3, Zenon DEF Clone, At
  <2>2. pc[t] \in WaitPoint => "idle" \in WaitPoint
    BY <2>1 DEF WaitPoint
  <2>3. "idle" # "parked"
    OBVIOUS
  <2>4. /\ \A u \in Senders : pc[u] \in WaitPoint => pc'[u] \in WaitPoint
        /\ \A u \in Senders : pc'[u] = "parked" => pc[u] = "parked" /\ u # t
    BY <1>1, <2>1, <2>2, <2>3, WaitMoves, Zenon
  <2>5. UNCHANGED WaitVars
    BY <1>3, WaitSame, Zenon
  <2> QED  BY <1>2, <2>4, <2>5, WaitFrame, Zenon
<1>4. CASE Lock(s) \/ SignalOn(s)
  <2>1. UNCHANGED WaitVars /\ pc' = pc
    BY <1>4, WaitSame, SendersSame, Zenon DEF sVars
  <2> QED  BY <1>2, <2>1, WaitFrame, Zenon
<1>5. CASE \/ \E n \in 1 .. Quota[s] : TrySend(s, n)
           \/ Send(s) \/ PollSend(s) \/ DropSend(s) \/ DropSender(s)
           \/ Check(s) \/ TryPush(s) \/ Signal(s) \/ CancelWake(s)
  <2>1. /\ \A u \in Senders : pc[u] \in WaitPoint => pc'[u] \in WaitPoint
        /\ \A u \in Senders : pc'[u] = "parked" => pc[u] = "parked" /\ u # s
    BY <1>1, <1>5, CallsMoveOn, WaitMoves, Zenon
  <2>2. /\ WaitType' /\ waiting' = waiting /\ selected' = selected
        /\ \A u \in Senders : u # s /\ pc[u] = "parked" /\ Awake(u) => Awake(u)'
    <3>1. CASE \/ \E n \in 1 .. Quota[s] : TrySend(s, n)
               \/ DropSend(s) \/ DropSender(s) \/ Check(s) \/ TryPush(s) \/ Signal(s)
      BY <1>2, <3>1, WaitSame, Zenon
    <3>2. CASE Send(s) \/ PollSend(s)
      <4>1. /\ waiting' = waiting /\ selected' = selected /\ waitersLen' = waitersLen
            /\ towake' = towake /\ woken' = woken \ {s}
        BY <3>2, ZenonT(40) DEF Send, PollSend, inner
      <4>2. WaitType'
        BY <4>1, SMTT(30) DEF WaitType
      <4>3. \A u \in Senders : u # s /\ Awake(u) => Awake(u)'
        BY <4>1 DEF Awake
      <4> QED  BY <4>1, <4>2, <4>3, Zenon
    <3>3. CASE CancelWake(s)
      <4>1. PICK t \in Senders : Fire(s, t)
        BY <3>3, Zenon DEF CancelWake
      <4>2. waiting' = waiting /\ selected' = selected /\ waitersLen' = waitersLen
        BY <3>3, Zenon DEF CancelWake, inner
      <4>3. s \in Procs
        BY DEF Procs
      <4>4. WaitType' /\ \A u \in Senders : Awake(u) /\ pc[u] \notin {"idle", "gone"} => Awake(u)'
        BY <4>1, <4>2, <4>3, FireWakes, Zenon
      <4>5. "parked" \notin {"idle", "gone"}
        OBVIOUS
      <4> QED  BY <4>2, <4>4, <4>5, Zenon
    <3> QED  BY <1>5, <3>1, <3>2, <3>3, Zenon
  <2> QED  BY <2>1, <2>2, WaitFrame, Zenon
<1> QED  BY <1>3, <1>4, <1>5, Zenon

\* A sender that parks goes to the end of the list.
LEMMA ParkKeepsWaits ==
  ASSUME TypeOK, WaitType, WaitInv, Cleared' <=> Cleared, NEW s \in Senders, Park(s)
  PROVE  WaitType' /\ WaitInv'
<1>1. DOMAIN pc = Senders /\ pc[s] = "park"
  BY Zenon DEF TypeOK, Park, At
<1>2. selected' = selected /\ woken' = woken /\ towake' = towake /\ closed' = closed
  BY Zenon DEF Park, wakes, life
<1>3. pc[s] \notin WaitPoint
  BY <1>1 DEF WaitPoint
<1>4. \A u \in Senders : Awake(u) => Awake(u)'
  BY <1>2, Zenon DEF Awake
<1>5. CASE waiting' = waiting /\ waitersLen' = waitersLen
           /\ \E x \in {"idle", "signal"} : pc' = [pc EXCEPT ![s] = x]
  <2>1. WaitType'
    BY <1>2, <1>5, Zenon DEF WaitType
  <2>2. PICK x \in {"idle", "signal"} : pc' = [pc EXCEPT ![s] = x]
    BY <1>5, Zenon
  <2>3. x # "parked"
    OBVIOUS
  <2>4. /\ \A u \in Senders : pc[u] \in WaitPoint => pc'[u] \in WaitPoint
        /\ \A u \in Senders : pc'[u] = "parked" => pc[u] = "parked" /\ u # s
    BY <1>1, <1>3, <2>2, <2>3, WaitMoves, Zenon
  <2> QED  BY <1>2, <1>4, <1>5, <2>1, <2>4, WaitFrame, Zenon
<1>6. CASE /\ ~closed /\ pc' = [pc EXCEPT ![s] = "parked"]
           /\ waiting' = Append(waiting, s) /\ waitersLen' = Len(waiting')
  <2>1. ~Queued(waiting, s) /\ s \notin selected
    BY <1>3, Zenon DEF WaitInv
  <2>2. waiting \in Seq(Senders) /\ Distinct(waiting)
    BY Zenon DEF WaitType, WaitInv
  <2>3. /\ waiting' \in Seq(Senders) /\ Distinct(waiting')
        /\ \A g : Queued(waiting', g) <=> Queued(waiting, g) \/ g = s
    BY <1>6, <2>1, <2>2, AppendAdds
  <2>4. WaitType'
    BY <1>2, <1>6, <2>3, Zenon DEF WaitType
  <2>5. pc'[s] = "parked" /\ \A u \in Senders : u # s => pc'[u] = pc[u]
    BY <1>1, <1>6
  <2>6. pc'[s] \in WaitPoint
    BY <2>5 DEF WaitPoint
  <2>7. \A u \in Senders : Queued(waiting', u) => pc'[u] \in WaitPoint /\ u \notin selected'
    BY <1>2, <2>1, <2>3, <2>5, <2>6, Zenon DEF WaitInv
  <2>8. \A u \in Senders : u \in selected' =>
          pc'[u] \in WaitPoint /\ (pc'[u] = "parked" => Awake(u)')
    BY <1>2, <1>4, <2>1, <2>5, Zenon DEF WaitInv
  <2>9. ~Cleared'
    BY <1>6 DEF Cleared
  <2>10. \A u \in Senders : pc'[u] = "parked" => Queued(waiting', u) \/ u \in selected'
    BY <1>2, <2>3, <2>5, <2>9, Zenon DEF WaitInv
  <2> QED  BY <2>3, <2>4, <2>7, <2>8, <2>9, <2>10, Zenon DEF WaitInv
<1>7. \/ waiting' = waiting /\ waitersLen' = waitersLen /\ pc' = [pc EXCEPT ![s] = "idle"]
      \/ waiting' = waiting /\ waitersLen' = waitersLen /\ pc' = [pc EXCEPT ![s] = "signal"]
      \/ /\ ~closed /\ pc' = [pc EXCEPT ![s] = "parked"]
         /\ waiting' = Append(waiting, s) /\ waitersLen' = Len(waiting')
  BY Zenon DEF Park, At
<1>8. "idle" \in {"idle", "signal"} /\ "signal" \in {"idle", "signal"}
  OBVIOUS
<1> QED  BY <1>5, <1>6, <1>7, <1>8, Zenon

\* The list without s, and what is left of the selected ones.
LEMMA Leaves ==
  ASSUME WaitType, WaitInv, NEW s \in Senders
  PROVE  LET q == Deregistered(s) IN
         /\ q \in Seq(Senders) /\ Distinct(q) /\ selected \ {s} \in SUBSET Senders
         /\ \A u \in Senders : Queued(q, u) <=> Queued(waiting, u) /\ u # s
<1>1. waiting \in Seq(Senders) /\ Distinct(waiting) /\ selected \subseteq Senders
  BY Zenon DEF WaitType, WaitInv
<1>2. /\ Without(waiting, s) \in Seq(Senders) /\ Distinct(Without(waiting, s))
      /\ \A g : Queued(Without(waiting, s), g) <=> Queued(waiting, g) /\ g # s
  BY <1>1, WithoutRemoves
<1>3. selected \ {s} \in SUBSET Senders
  BY <1>1
<1> QED  BY <1>2, <1>3, Zenon DEF Deregistered

\* A sender that is polled again leaves the list and gives up its wake.
LEMMA RepollKeepsWaits ==
  ASSUME TypeOK, WaitType, WaitInv, Cleared' <=> Cleared, NEW s \in Senders, Repoll(s)
  PROVE  WaitType' /\ WaitInv'
<1>1. DOMAIN pc = Senders
  BY Zenon DEF TypeOK
<1>2. /\ pc' = [pc EXCEPT ![s] = "check"] /\ waiting' = Deregistered(s)
      /\ selected' = selected \ {s} /\ waitersLen' = Len(waiting') /\ woken' = woken /\ towake' = towake
  BY Zenon DEF Repoll, At, wakes
<1>3. /\ waiting' \in Seq(Senders) /\ Distinct(waiting') /\ selected' \in SUBSET Senders
      /\ \A u \in Senders : Queued(waiting', u) <=> Queued(waiting, u) /\ u # s
  BY <1>2, Leaves, Zenon
<1>4. WaitType'
  BY <1>2, <1>3 DEF WaitType
<1>5. pc'[s] = "check" /\ \A u \in Senders : u # s => pc'[u] = pc[u]
  BY <1>1, <1>2
<1>6. \A u \in Senders : u \in selected' <=> u \in selected /\ u # s
  BY <1>2
<1>7. "check" # "parked"
  OBVIOUS
<1>8. \A u \in Senders : Awake(u) => Awake(u)'
  BY <1>2, Zenon DEF Awake
<1>9. \A u \in Senders : Queued(waiting', u) => pc'[u] \in WaitPoint /\ u \notin selected'
  BY <1>3, <1>5, <1>6, Zenon DEF WaitInv
<1>10. \A u \in Senders : u \in selected' =>
         pc'[u] \in WaitPoint /\ (pc'[u] = "parked" => Awake(u)')
  BY <1>5, <1>6, <1>8, Zenon DEF WaitInv
<1>11. \A u \in Senders : pc'[u] = "parked" =>
         u # s /\ pc[u] = "parked"
  BY <1>5, <1>7, Zenon
<1>12. \A u \in Senders : pc'[u] = "parked" =>
         IF Cleared THEN Awake(u)' ELSE Queued(waiting', u) \/ u \in selected'
  BY <1>3, <1>6, <1>8, <1>11, Zenon DEF WaitInv
<1> QED  BY <1>3, <1>4, <1>9, <1>10, <1>12, Zenon DEF WaitInv

\* The sender popped from the list is woken by p.
LEMMA PopKeepsWaits ==
  ASSUME WaitType, WaitInv, Cleared' <=> Cleared, NEW p \in Procs, NEW q \in Seq(Senders), Distinct(q),
         NEW sel \in SUBSET Senders, PopFirst(p, q, sel), towake[p] = {}, woken' = woken,
         \A u \in Senders : Queued(q, u) => Queued(waiting, u) /\ pc'[u] = pc[u],
         \A u \in Senders : u \in sel => u \in selected /\ pc'[u] = pc[u],
         \A u \in Senders : pc'[u] = "parked" =>
           /\ pc[u] = "parked"
           /\ Queued(waiting, u) \/ u \in selected => Queued(q, u) \/ u \in sel
  PROVE  WaitType' /\ WaitInv'
<1>1. /\ WaitType' /\ Distinct(waiting')
      /\ \A u \in Senders : Queued(waiting', u) => Queued(q, u) /\ (u \notin sel => u \notin selected')
      /\ \A u \in Senders : u \in selected' => u \in sel \/ (Queued(q, u) /\ Awake(u)')
      /\ \A u \in Senders : Queued(q, u) \/ u \in sel => Queued(waiting', u) \/ u \in selected'
      /\ \A u \in Senders : Awake(u) => Awake(u)'
  BY PopTakes, Zenon
<1>2. \A u \in Senders : Queued(waiting', u) => pc'[u] \in WaitPoint /\ u \notin selected'
  BY <1>1, Zenon DEF WaitInv
<1>3. \A u \in Senders : u \in selected' => pc'[u] \in WaitPoint /\ (pc'[u] = "parked" => Awake(u)')
  BY <1>1, Zenon DEF WaitInv
<1>4. \A u \in Senders : pc'[u] = "parked" =>
        IF Cleared THEN Awake(u)' ELSE Queued(waiting', u) \/ u \in selected'
  BY <1>1, Zenon DEF WaitInv
<1> QED  BY <1>1, <1>2, <1>3, <1>4, Zenon DEF WaitInv

\* A cancelled sender leaves the list; its wake goes to the next one.
LEMMA CancelKeepsWaits ==
  ASSUME TypeOK, WaitType, HeldInv, WaitInv, Cleared' <=> Cleared, NEW s \in Senders, CancelWaiter(s)
  PROVE  WaitType' /\ WaitInv'
<1>1. DOMAIN pc = Senders
  BY DEF TypeOK
<1>2. PICK x \in {"idle", "wake"} : pc[s] = "cancel_waiter" /\ pc' = [pc EXCEPT ![s] = x]
  BY Zenon DEF CancelWaiter, At
<1>3. pc'[s] # "parked" /\ \A u \in Senders : u # s => pc'[u] = pc[u]
  BY <1>1, <1>2
<1>4. towake[s] = {} /\ s \in Procs /\ woken' = woken
  BY <1>2, Zenon DEF HeldInv, Procs, CancelWaiter
<1>5. /\ Deregistered(s) \in Seq(Senders) /\ Distinct(Deregistered(s)) /\ selected \ {s} \in SUBSET Senders
      /\ \A u \in Senders : Queued(Deregistered(s), u) <=> Queued(waiting, u) /\ u # s
  BY Leaves, Zenon
<1>6. CASE s \in selected
  <2>1. PopFirst(s, Deregistered(s), selected \ {s})
    BY <1>6, Zenon DEF CancelWaiter
  <2>2. \A u \in Senders : u \in selected \ {s} <=> u \in selected /\ u # s
    OBVIOUS
  <2>3. \A u \in Senders : Queued(Deregistered(s), u) => Queued(waiting, u) /\ pc'[u] = pc[u]
    BY <1>3, <1>5, Zenon
  <2>4. \A u \in Senders : u \in selected \ {s} => u \in selected /\ pc'[u] = pc[u]
    BY <1>3, <2>2, Zenon
  <2>5. \A u \in Senders : pc'[u] = "parked" =>
           /\ pc[u] = "parked"
           /\ Queued(waiting, u) \/ u \in selected => Queued(Deregistered(s), u) \/ u \in selected \ {s}
    BY <1>3, <1>5, <2>2, Zenon
  <2> QED  BY <1>4, <1>5, <2>1, <2>3, <2>4, <2>5, PopKeepsWaits, Zenon
<1>7. CASE s \notin selected
  <2>1. /\ waiting' = Deregistered(s) /\ waitersLen' = Len(waiting')
        /\ selected' = selected /\ towake' = towake
    BY <1>7, Zenon DEF CancelWaiter
  <2>2. WaitType'
    BY <1>4, <1>5, <2>1 DEF WaitType
  <2>3. \A u \in Senders : Awake(u) => Awake(u)'
    BY <1>4, <2>1, Zenon DEF Awake
  <2>4. \A u \in Senders : Queued(waiting', u) => pc'[u] \in WaitPoint /\ u \notin selected'
    BY <1>3, <1>5, <2>1, Zenon DEF WaitInv
  <2>5. \A u \in Senders : u \in selected' => pc'[u] \in WaitPoint /\ (pc'[u] = "parked" => Awake(u)')
    BY <1>3, <1>7, <2>1, <2>3, Zenon DEF WaitInv
  <2>6. \A u \in Senders : pc'[u] = "parked" => u # s /\ pc[u] = "parked"
    BY <1>3, Zenon
  <2>7. \A u \in Senders : pc'[u] = "parked" =>
          IF Cleared THEN Awake(u)' ELSE Queued(waiting', u) \/ u \in selected'
    BY <1>5, <2>1, <2>3, <2>6, Zenon DEF WaitInv
  <2>8. Distinct(waiting')
    BY <1>5, <2>1, Zenon
  <2> QED  BY <2>2, <2>4, <2>5, <2>7, <2>8, Zenon DEF WaitInv
<1> QED  BY <1>6, <1>7, SMTT(30)

\* The consumer's steps.
LEMMA ConsumerKeepsWaits ==
  ASSUME WaitType, HeldInv, WaitInv, Cleared' <=> Cleared,
         StealInto \/ WakeOneWaiter \/ ConsumerWake
  PROVE  WaitType' /\ WaitInv'
<1>1. pc' = pc
  BY SendersSame, Zenon DEF sVars
<1>2. C \in Procs
  BY DEF Procs
<1>3. CASE PopFirst(C, waiting, selected) /\ woken' = woken /\ cpc # "wake"
  <2>1. towake[C] = {}
    BY <1>3, Zenon DEF HeldInv
  <2>2. waiting \in Seq(Senders) /\ Distinct(waiting) /\ selected \in SUBSET Senders
    BY DEF WaitType, WaitInv
  <2> QED  BY <1>1, <1>2, <1>3, <2>1, <2>2, PopKeepsWaits, Zenon
<1>4. ASSUME UNCHANGED WaitVars PROVE WaitType' /\ WaitInv'
  <2>1. /\ WaitType' /\ waiting' = waiting /\ selected' = selected
        /\ \A u \in Senders : Awake(u) => Awake(u)'
    BY <1>4, Zenon DEF WaitVars, WaitType, Awake
  <2> QED  BY <1>1, <2>1, WaitFrame, Zenon
<1>5. CASE StealInto
  <2>1. "steal_into" # "wake"
    OBVIOUS
  <2> QED  BY <1>3, <1>4, <1>5, <2>1, Zenon DEF StealInto, Go, WaitVars, inner
<1>6. CASE WakeOneWaiter
  <2>1. "wake_one_waiter" # "wake"
    OBVIOUS
  <2> QED  BY <1>3, <1>6, <2>1, Zenon DEF WakeOneWaiter, Go
<1>7. CASE ConsumerWake
  <2>1. PICK s \in Senders : Fire(C, s)
    BY <1>7, Zenon DEF ConsumerWake
  <2>2. waiting' = waiting /\ selected' = selected /\ waitersLen' = waitersLen
    BY <1>7, ZenonT(40) DEF ConsumerWake, inner
  <2>3. WaitType' /\ \A u \in Senders : Awake(u) /\ pc[u] \notin {"idle", "gone"} => Awake(u)'
    BY <1>2, <2>1, <2>2, FireWakes
  <2>4. "parked" \notin {"idle", "gone"}
    OBVIOUS
  <2> QED  BY <1>1, <2>2, <2>3, <2>4, WaitFrame, Zenon
<1> QED  BY <1>5, <1>6, <1>7

\* The receiver's drop takes every entry for waking.
LEMMA WakeAllKeepsWaits ==
  ASSUME WaitType, FlowInv, HeldInv, WaitInv, WakeAllWaiters
  PROVE  WaitType' /\ WaitInv'
<1>1. /\ pc' = pc /\ waiting' = <<>> /\ selected' = {} /\ waitersLen' = 0 /\ woken' = woken
      /\ closed' = closed /\ cpc = "wake_all_waiters"
      /\ towake' = [towake EXCEPT ![C] = {waiting[i] : i \in DOMAIN waiting}]
  BY Zenon DEF WakeAllWaiters, Go, life, sVars
<1>2. cpc' \in {"gone", "wake"}
  BY DEF WakeAllWaiters, Go
<1>3. closed /\ ~Cleared /\ Cleared'
  BY <1>1, <1>2 DEF FlowInv, Cleared
<1>4. towake[C] = {} /\ C \in Procs
  BY <1>1 DEF HeldInv, Procs
<1>5. towake \in [Procs -> SUBSET Senders] /\ waiting \in Seq(Senders)
  BY Zenon DEF WaitType
<1>6. {waiting[i] : i \in DOMAIN waiting} \in SUBSET Senders
  BY <1>5, SMTT(30)
<1>7. /\ towake' \in [Procs -> SUBSET Senders] /\ towake'[C] = {waiting[i] : i \in DOMAIN waiting}
      /\ \A r \in Procs : r # C => towake'[r] = towake[r]
  BY <1>1, <1>4, <1>5, <1>6
<1>8. WaitType'
  <2>1. waiting' \in Seq(Senders) /\ waitersLen' = Len(waiting') /\ selected' \subseteq Senders
    BY <1>1
  <2> QED  BY <1>1, <1>7, <2>1, ZenonT(40) DEF WaitType
<1>9. ASSUME NEW u \in Senders, Queued(waiting, u) PROVE Awake(u)'
  <2>1. u \in towake'[C]
    BY <1>7, <1>9, Zenon DEF Queued
  <2> QED  BY <1>4, <2>1, Zenon DEF Awake
<1>10. ASSUME NEW u \in Senders, Awake(u) PROVE Awake(u)'
  <2>1. \A r \in Procs : u \in towake[r] => r # C
    BY <1>4
  <2> QED  BY <1>1, <1>7, <1>10, <2>1, Zenon DEF Awake
<1>11. \A u \in Senders : pc'[u] = "parked" => Awake(u)'
  BY <1>1, <1>3, <1>9, <1>10, ZenonT(40) DEF WaitInv
<1>12. Distinct(waiting') /\ \A u \in Senders : ~Queued(waiting', u) /\ u \notin selected'
  BY <1>1 DEF Distinct, Queued
<1> QED  BY <1>3, <1>8, <1>11, <1>12, Zenon DEF WaitInv

\* The wait-list and the parked senders agree.
LEMMA WaitKept ==
  ASSUME TypeOK, FlowInv, HeldInv, WaitInv, [Next]_vars
  PROVE  WaitType' /\ WaitInv'
<1>1. WaitType
  BY Zenon DEF TypeOK, WaitType
<1>2. CASE WakeAllWaiters
  BY <1>1, <1>2, WakeAllKeepsWaits, Zenon
<1>3. CASE ~WakeAllWaiters
  <2>1. Cleared' <=> Cleared
    BY <1>3, ClearedSteps, Zenon
  <2>2. ASSUME UNCHANGED WaitVars, pc' = pc PROVE WaitType' /\ WaitInv'
    <3>1. /\ WaitType' /\ waiting' = waiting /\ selected' = selected
          /\ \A u \in Senders : Awake(u) => Awake(u)'
      BY <1>1, <2>2, Zenon DEF WaitVars, WaitType, Awake
    <3> QED  BY <2>1, <2>2, <3>1, WaitFrame, Zenon
  <2>3. CASE \/ \E c \in {"try_recv", "recv_many", "recv", "recv_hot"} : Call(c)
             \/ PollRecv \/ DropRecv \/ DropReceiver \/ Lock(C) \/ NextStaged \/ LoadSenders \/ Spin
             \/ RecvRegister \/ RecvArm \/ RecvDisarm \/ Sleep \/ End \/ UNCHANGED vars
    <3>1. UNCHANGED WaitVars
      BY <2>3, ConsumerWaitSame, Zenon
    <3>2. UNCHANGED sVars
      BY <2>3, SendersSame, Zenon
    <3> QED  BY <2>2, <3>1, <3>2, Zenon DEF sVars
  <2> QED  BY NextCases, <1>1, <1>3, <2>1, <2>3, CallsKeepWaits, ParkKeepsWaits, RepollKeepsWaits,
              CancelKeepsWaits, ConsumerKeepsWaits, ZenonT(40)
<1> QED  BY <1>2, <1>3

\* A thread that has no wakers to fire, or keeps those it has.
LEMMA HeldFrame ==
  ASSUME HeldInv, towake' = towake, cpc = "wake" => cpc' = "wake",
         \A u \in Senders : pc[u] = "wake" => pc'[u] = "wake"
  PROVE  HeldInv'
BY Zenon DEF HeldInv

\* The senders' steps that take and fire no wakers.
LEMMA CallsKeepHeld ==
  ASSUME TypeOK, HeldInv, NEW s \in Senders,
         \/ \E t \in Senders : Clone(s, t)
         \/ \E n \in 1 .. Quota[s] : TrySend(s, n)
         \/ Send(s) \/ PollSend(s) \/ DropSend(s) \/ DropSender(s) \/ Lock(s)
         \/ Repoll(s) \/ Check(s) \/ TryPush(s) \/ Park(s) \/ Signal(s) \/ SignalOn(s)
  PROVE  HeldInv'
<1>1. DOMAIN pc = Senders
  BY Zenon DEF TypeOK
<1>2. cpc' = cpc
  BY ConsumerSame, Zenon DEF cVars
<1>3. towake' = towake
  <2>1. CASE Send(s) \/ PollSend(s) \/ Repoll(s) \/ Park(s)
    BY <2>1, Zenon DEF Send, PollSend, Repoll, Park, wakes
  <2> QED  BY <2>1, WaitSame, Zenon DEF WaitVars
<1>4. \A u \in Senders : pc[u] = "wake" => pc'[u] = "wake"
  <2>1. ASSUME NEW t \in Senders, NEW x, pc[t] # "wake", pc' = [pc EXCEPT ![t] = x]
        PROVE  \A u \in Senders : pc[u] = "wake" => pc'[u] = "wake"
    BY <1>1, <2>1
  <2>2. ASSUME NEW t \in Senders, Clone(s, t) PROVE pc[t] # "wake" /\ \E x : pc' = [pc EXCEPT ![t] = x]
    BY <2>2, Zenon DEF Clone, At
  <2>3. CASE \/ \E n \in 1 .. Quota[s] : TrySend(s, n)
             \/ Send(s) \/ PollSend(s) \/ DropSend(s) \/ DropSender(s) \/ Repoll(s) \/ Check(s)
    <3>1. pc[s] \in {"idle", "parked", "repoll_waiter", "check"} /\ \E x : pc' = [pc EXCEPT ![s] = x]
      BY <2>3, ZenonT(40) DEF TrySend, Send, PollSend, DropSend, DropSender, Repoll, Check, Begin, At
    <3> QED  BY <2>1, <3>1
  <2>4. CASE TryPush(s)
    <3>1. pc[s] \in {"try_push", "push"} /\ \E x : pc' = [pc EXCEPT ![s] = x]
      BY <2>4, Zenon DEF TryPush, At
    <3> QED  BY <2>1, <3>1
  <2>5. CASE Park(s)
    <3>1. pc[s] = "park" /\ \E x : pc' = [pc EXCEPT ![s] = x]
      BY <2>5, Zenon DEF Park, At
    <3> QED  BY <2>1, <3>1
  <2>6. CASE Signal(s)
    <3>1. pc[s] \in {"signal", "last_signal"} /\ \E x : pc' = [pc EXCEPT ![s] = x]
      BY <2>6 DEF Signal, At
    <3> QED  BY <2>1, <3>1, SMTT(30)
  <2>7. CASE Lock(s) \/ SignalOn(s)
    BY <2>7, SendersSame, Zenon DEF sVars
  <2> QED  BY <2>1, <2>2, <2>3, <2>4, <2>5, <2>6, <2>7, ZenonT(40)
<1> QED  BY <1>2, <1>3, <1>4, HeldFrame, Zenon

\* A cancelled sender takes at most one waker, and fires it before it goes on.
LEMMA CancelKeepsHeld ==
  ASSUME TypeOK, WaitType, HeldInv, WaitInv, NEW s \in Senders, CancelWaiter(s) \/ CancelWake(s)
  PROVE  HeldInv'
<1>1. DOMAIN pc = Senders /\ s \in Procs /\ C \in Procs /\ C # s
  BY ChannelAssumption DEF TypeOK, Procs
<1>2. cpc' = cpc
  BY ConsumerSame, Zenon DEF cVars
<1>3. \A u \in Senders : u # s => pc'[u] = pc[u]
  BY <1>1, Zenon DEF CancelWaiter, CancelWake, At
<1>4. ASSUME /\ \A r \in Procs : r # s => towake'[r] = towake[r]
             /\ pc'[s] # "wake" => towake'[s] = {}
             /\ \A t, u \in towake'[s] : t = u
      PROVE  HeldInv'
  <2>1. \A u \in Senders : u # s => towake'[u] = towake[u]
    BY <1>4, Zenon DEF Procs
  <2>2. towake'[C] = towake[C]
    BY <1>1, <1>4, Zenon
  <2> QED  BY <1>2, <1>3, <1>4, <2>1, <2>2, ZenonT(40) DEF HeldInv
<1>5. CASE CancelWaiter(s)
  <2>1. pc[s] = "cancel_waiter" /\ pc' = [pc EXCEPT ![s] = IF towake'[s] = {} THEN "idle" ELSE "wake"]
    BY <1>5, ZenonT(40) DEF CancelWaiter, At
  <2>2. pc'[s] # "wake" => towake'[s] = {}
    BY <1>1, <2>1, SMTT(30)
  <2>3. towake[s] = {}
    BY <2>1 DEF HeldInv
  <2>4. CASE s \in selected
    <3>1. PopFirst(s, Deregistered(s), selected \ {s}) /\ woken' = woken
      BY <1>5, <2>4, Zenon DEF CancelWaiter
    <3>2. /\ Deregistered(s) \in Seq(Senders) /\ Distinct(Deregistered(s))
          /\ selected \ {s} \in SUBSET Senders
      BY Leaves, Zenon
    <3>3. /\ \A t, u \in towake'[s] : t = u
          /\ \A r \in Procs : r # s => towake'[r] = towake[r]
      BY <1>1, <2>3, <3>1, <3>2, PopTakes, ZenonT(40)
    <3> QED  BY <1>4, <2>2, <3>3, Zenon
  <2>5. CASE s \notin selected
    <3>1. towake' = towake
      BY <1>5, <2>5, ZenonT(40) DEF CancelWaiter
    <3> QED  BY <1>4, <2>2, <2>3, <3>1, Zenon
  <2> QED  BY <2>4, <2>5
<1>6. CASE CancelWake(s)
  <2>1. PICK t \in Senders : Fire(s, t)
    BY <1>6, Zenon DEF CancelWake
  <2>2. waiting' = waiting /\ selected' = selected /\ waitersLen' = waitersLen
    BY <1>6, Zenon DEF CancelWake, inner
  <2>3. /\ t \in towake[s] /\ towake'[s] = towake[s] \ {t}
        /\ \A r \in Procs : r # s => towake'[r] = towake[r]
    BY <1>1, <2>1, <2>2, FireWakes, Zenon
  <2>4. \A u \in towake[s] : u = t
    BY <2>3, ZenonT(40) DEF HeldInv
  <2>5. towake'[s] = {}
    BY <2>3, <2>4
  <2> QED  BY <1>4, <2>3, <2>5
<1> QED  BY <1>5, <1>6, SMTT(30)

\* The consumer fires the wakers it took before it goes on.
LEMMA ConsumerKeepsHeld ==
  ASSUME TypeOK, WaitType, HeldInv, WaitInv,
         StealInto \/ WakeOneWaiter \/ ConsumerWake \/ WakeAllWaiters
  PROVE  HeldInv'
<1>1. C \in Procs /\ \A u \in Senders : u # C /\ u \in Procs
  BY ChannelAssumption DEF Procs
<1>2. pc' = pc
  BY SendersSame, Zenon DEF sVars
<1>3. ASSUME \A r \in Procs : r # C => towake'[r] = towake[r], cpc' # "wake" => towake'[C] = {}
      PROVE  HeldInv'
  BY <1>1, <1>2, <1>3, Zenon DEF HeldInv
<1>4. CASE PopFirst(C, waiting, selected) /\ woken' = woken /\ cpc # "wake"
           /\ (towake'[C] # {} => cpc' = "wake")
  <2>1. towake[C] = {}
    BY <1>4, Zenon DEF HeldInv
  <2>2. waiting \in Seq(Senders) /\ Distinct(waiting) /\ selected \in SUBSET Senders
    BY DEF WaitType, WaitInv
  <2>3. \A r \in Procs : r # C => towake'[r] = towake[r]
    BY <1>1, <1>4, <2>1, <2>2, PopTakes, Zenon
  <2> QED  BY <1>3, <1>4, <2>3, Zenon
<1>5. CASE StealInto
  <2>1. "steal_into" # "wake"
    OBVIOUS
  <2>2. CASE queue = <<>>
    <3>1. towake' = towake /\ cpc = "steal_into"
      BY <1>5, <2>2, Zenon DEF StealInto, Go
    <3>2. towake[C] = {}
      BY <2>1, <3>1, Zenon DEF HeldInv
    <3> QED  BY <1>3, <3>1, <3>2, Zenon
  <2>3. CASE queue # <<>>
    BY <1>4, <1>5, <2>1, <2>3, Zenon DEF StealInto, Go
  <2> QED  BY <2>2, <2>3
<1>6. CASE WakeOneWaiter
  <2>1. "wake_one_waiter" # "wake"
    OBVIOUS
  <2> QED  BY <1>4, <1>6, <2>1, Zenon DEF WakeOneWaiter, Go
<1>7. CASE ConsumerWake
  <2>1. PICK s \in Senders : Fire(C, s)
    BY <1>7, Zenon DEF ConsumerWake
  <2>2. waiting' = waiting /\ selected' = selected /\ waitersLen' = waitersLen
    BY <1>7, Zenon DEF ConsumerWake, inner
  <2>3. \A r \in Procs : r # C => towake'[r] = towake[r]
    BY <1>1, <2>1, <2>2, FireWakes, Zenon
  <2>4. towake'[C] # {} => cpc' = "wake"
    BY <1>7, Zenon DEF ConsumerWake, Go
  <2> QED  BY <1>3, <2>3, <2>4, Zenon
<1>8. CASE WakeAllWaiters
  <2>1. /\ towake' = [towake EXCEPT ![C] = {waiting[i] : i \in DOMAIN waiting}]
        /\ (towake'[C] # {} => cpc' = "wake")
    BY <1>8, ZenonT(40) DEF WakeAllWaiters, Go
  <2>2. \A r \in Procs : r # C => towake'[r] = towake[r]
    BY <2>1 DEF WaitType
  <2> QED  BY <1>3, <2>1, <2>2, Zenon
<1> QED  BY <1>5, <1>6, <1>7, <1>8

\* The wakers a thread took are fired before it does anything else.
LEMMA HeldKept ==
  ASSUME TypeOK, HeldInv, WaitInv, [Next]_vars
  PROVE  HeldInv'
<1>1. WaitType
  BY Zenon DEF TypeOK, WaitType
<1>2. CASE Lock(C) \/ UNCHANGED vars
  <2>1. towake' = towake /\ cpc' = cpc /\ pc' = pc
    BY <1>2, Zenon DEF Lock, wakes, cVars, sVars, vars
  <2> QED  BY <2>1, HeldFrame, Zenon
<1>3. CASE \/ \E c \in {"try_recv", "recv_many", "recv", "recv_hot"} : Call(c)
           \/ PollRecv \/ DropRecv \/ DropReceiver \/ NextStaged \/ LoadSenders \/ Spin
           \/ RecvRegister \/ RecvArm \/ RecvDisarm \/ Sleep \/ End
  <2>1. UNCHANGED WaitVars
    BY <1>3, ConsumerWaitSame, Zenon
  <2>2. UNCHANGED sVars
    BY <1>3, SendersSame, ZenonT(40)
  <2>3. cpc # "wake"
    BY <1>3, Zenon DEF Call, PollRecv, DropRecv, DropReceiver, NextStaged, LoadSenders, Spin,
                RecvRegister, RecvArm, RecvDisarm, Sleep, End, Go
  <2> QED  BY <2>1, <2>2, <2>3, HeldFrame, Zenon DEF WaitVars, sVars
<1> QED  BY NextCases, <1>1, <1>2, <1>3, CallsKeepHeld, CancelKeepsHeld, ConsumerKeepsHeld, ZenonT(40)

-----------------------------------------------------------------------------
(* A queue that runs empty beside parked senders. *)

HeirPoint == {"repoll_waiter", "check", "push", "park"}

\* A step that leaves an heir, if there was one.
LEMMA HeirFrame ==
  ASSUME HeirInv, closed => closed', waiting' # <<>> => waiting # <<>>, queue' = <<>> => queue = <<>>,
         \A u \in Senders : pc[u] \in HeirPoint \/ u \in selected =>
                            pc'[u] \in HeirPoint \/ u \in selected'
  PROVE  HeirInv'
BY Zenon DEF HeirInv, HeirPoint

\* The senders that push, park or give up.
LEMMA PushKeepsHeir ==
  ASSUME TypeOK, HandInv, WaitInv, HeirInv, NEW s \in Senders, TryPush(s) \/ Park(s) \/ Check(s)
  PROVE  HeirInv'
<1>1. DOMAIN pc = Senders /\ Cap \in Nat \ {0} /\ queue \in Seq(Item)
  BY ChannelAssumption, Zenon DEF TypeOK
<1>2. ASSUME queue' # <<>> \/ closed' PROVE HeirInv'
  BY <1>2, Zenon DEF HeirInv
<1>3. ASSUME NEW k \in Nat, Pushes(s, k) PROVE queue' # <<>>
  <2>1. queue' \in Seq(Item) /\ Len(queue') = Len(queue) + k /\ k # 0
    BY <1>3, PushedQueue, ZenonT(40) DEF Pushes
  <2>2. Len(queue) \in Nat
    BY <1>1
  <2> QED  BY <2>1, <2>2
<1>4. ASSUME waiting' = waiting, queue' = queue, closed' = closed, selected' = selected, NEW x,
             pc' = [pc EXCEPT ![s] = x], pc[s] \in HeirPoint => x \in HeirPoint
      PROVE  HeirInv'
  <2>1. \A u \in Senders : pc[u] \in HeirPoint => pc'[u] \in HeirPoint
    BY <1>1, <1>4
  <2> QED  BY <1>4, <2>1, HeirFrame, ZenonT(40)
<1>5. CASE Check(s)
  <2>1. /\ waiting' = waiting /\ queue' = queue /\ closed' = closed /\ selected' = selected
        /\ (~closed => pc' = [pc EXCEPT ![s] = "push"])
    BY <1>5, Zenon DEF Check, At, inner, life
  <2>2. "push" \in HeirPoint
    BY DEF HeirPoint
  <2> QED  BY <1>2, <1>4, <2>1, <2>2, ZenonT(40)
<1>6. CASE TryPush(s)
  <2>1. waiting' = waiting /\ selected' = selected
    BY <1>6, Zenon DEF TryPush
  <2>3. ASSUME DataSame PROVE HeirInv'
    <3>1. queue' = queue /\ closed' = closed /\ moved' = moved
      BY <2>3, Zenon DEF DataSame
    <3>2. \/ pc' = [pc EXCEPT ![s] = "signal"] /\ Enqueue(s, Least(hand[s], Cap - Len(queue)))
             /\ Least(hand[s], Cap - Len(queue)) > 0
          \/ pc[s] = "try_push" /\ pc' = [pc EXCEPT ![s] = "idle"]
          \/ pc[s] = "push" /\ pc' = [pc EXCEPT ![s] = "park"]
      BY <1>6, Zenon DEF TryPush, At
    <3>3. ~Enqueue(s, Least(hand[s], Cap - Len(queue))) \/ ~(Least(hand[s], Cap - Len(queue)) > 0)
      <4> DEFINE k == Least(hand[s], Cap - Len(queue))
      <4>1. hand[s] \in Nat /\ moved \in [Senders -> Nat] /\ Len(queue) \in Nat /\ Len(queue) <= Cap
        BY <1>1, Numbers, SMTT(30) DEF HandInv, HandsOk
      <4>2. k \in Nat
        BY <1>1, <4>1 DEF Least
      <4> HIDE DEF k
      <4>3. ASSUME Enqueue(s, k), k > 0 PROVE FALSE
        <5>1. moved' = [moved EXCEPT ![s] = moved[s] + k]
          BY <4>3 DEF Enqueue
        <5>2. moved[s] = moved[s] + k /\ moved[s] \in Nat
          BY <3>1, <4>1, <5>1
        <5> QED  BY ONLY <4>2, <4>3, <5>2
      <4> QED  BY <4>3 DEF k
    <3>4. "park" \in HeirPoint /\ "try_push" \notin HeirPoint
      BY DEF HeirPoint
    <3> QED  BY <1>4, <2>1, <3>1, <3>2, <3>3, <3>4, ZenonT(40)
  <2> QED  BY <1>2, <1>3, <1>6, <2>3, PushSteps, ZenonT(40)
<1>7. CASE Park(s)
  <2>1. \/ closed /\ closed' = closed
        \/ Enqueue(s, 1)
        \/ ~closed /\ Len(queue) >= Cap /\ queue' = queue
    BY <1>7, Zenon DEF Park, life
  <2>2. ASSUME Len(queue) >= Cap, queue' = queue PROVE queue' # <<>>
    BY <1>1, <2>2
  <2>3. ASSUME DataSame, Enqueue(s, 1) PROVE FALSE
    <3>1. moved' = [moved EXCEPT ![s] = moved[s] + 1] /\ moved' = moved /\ moved \in [Senders -> Nat]
      BY <2>3 DEF Enqueue, DataSame, HandInv, HandsOk
    <3>2. moved[s] = moved[s] + 1 /\ moved[s] \in Nat
      BY <3>1
    <3> QED  BY ONLY <3>2, SMTT(30)
  <2>4. CASE closed /\ closed' = closed
    BY <1>2, <2>4
  <2>5. CASE Enqueue(s, 1)
    BY <1>2, <1>3, <1>7, <2>3, <2>5, PushSteps, ZenonT(40)
  <2>6. CASE Len(queue) >= Cap /\ queue' = queue
    BY <1>2, <2>2, <2>6, Zenon
  <2> QED  BY <2>1, <2>4, <2>5, <2>6, ZenonT(40)
<1> QED  BY <1>5, <1>6, <1>7

\* The other steps of the senders.
LEMMA CallsKeepHeir ==
  ASSUME TypeOK, WaitType, HeldInv, WaitInv, HeirInv, NEW s \in Senders,
         \/ \E t \in Senders : Clone(s, t)
         \/ \E n \in 1 .. Quota[s] : TrySend(s, n)
         \/ Send(s) \/ PollSend(s) \/ DropSend(s) \/ DropSender(s) \/ Lock(s)
         \/ Repoll(s) \/ Signal(s) \/ SignalOn(s) \/ CancelWaiter(s) \/ CancelWake(s)
  PROVE  HeirInv'
<1>1. DOMAIN pc = Senders /\ s \in Procs
  BY Zenon DEF TypeOK, Procs
<1>2. ASSUME queue' = queue, waiting' = waiting, selected' = selected, closed' = closed,
             NEW t \in Senders, NEW x, pc[t] \notin HeirPoint, pc' = [pc EXCEPT ![t] = x]
      PROVE  HeirInv'
  <2>1. \A u \in Senders : pc[u] \in HeirPoint => pc'[u] \in HeirPoint
    BY <1>1, <1>2
  <2> QED  BY <1>2, <2>1, HeirFrame, ZenonT(40)
<1>3. ASSUME NEW t \in Senders, Clone(s, t) PROVE HeirInv'
  <2>1. /\ queue' = queue /\ waiting' = waiting /\ selected' = selected /\ closed' = closed
        /\ pc[t] = "none" /\ pc' = [pc EXCEPT ![t] = "idle"]
    BY <1>3, Zenon DEF Clone, At, inner
  <2>2. "none" \notin HeirPoint
    BY DEF HeirPoint
  <2> QED  BY <1>2, <2>1, <2>2, Zenon
<1>4. CASE \/ \E n \in 1 .. Quota[s] : TrySend(s, n)
           \/ Send(s) \/ PollSend(s) \/ DropSend(s) \/ DropSender(s) \/ Signal(s) \/ CancelWake(s)
  <2>1. queue' = queue /\ waiting' = waiting /\ selected' = selected /\ closed' = closed
    BY <1>4, Zenon DEF TrySend, Send, PollSend, DropSend, DropSender, Signal, CancelWake, inner, life
  <2>2. \E x : pc' = [pc EXCEPT ![s] = x]
    BY <1>4, Zenon DEF TrySend, Send, PollSend, DropSend, DropSender, Signal, CancelWake, Begin, At
  <2>3. pc[s] \notin HeirPoint
    BY <1>4, Zenon DEF TrySend, Send, PollSend, DropSend, DropSender, Signal, CancelWake, Begin, At, HeirPoint
  <2> QED  BY <1>2, <2>1, <2>2, <2>3, Zenon
<1>5. CASE Lock(s) \/ SignalOn(s)
  <2>1. /\ queue' = queue /\ waiting' = waiting /\ selected' = selected /\ closed' = closed
        /\ pc' = pc
    BY <1>5, Zenon DEF Lock, SignalOn, inner, life, sVars
  <2> QED  BY <2>1, HeirFrame, Zenon
<1>6. Deregistered(s) # <<>> => waiting # <<>>
  BY DEF Deregistered, Without, Queued
<1>7. CASE Repoll(s)
  <2>1. /\ queue' = queue /\ waiting' = Deregistered(s) /\ selected' = selected \ {s} /\ closed' = closed
        /\ pc' = [pc EXCEPT ![s] = "check"]
    BY <1>7, Zenon DEF Repoll, At, life
  <2>2. pc'[s] \in HeirPoint /\ \A u \in Senders : u # s => pc'[u] = pc[u] /\ (u \in selected => u \in selected')
    BY <1>1, <2>1 DEF HeirPoint
  <2> QED  BY <1>6, <2>1, <2>2, HeirFrame, Zenon
<1>8. CASE CancelWaiter(s)
  <2>1. queue' = queue /\ closed' = closed /\ woken' = woken
    BY <1>8, Zenon DEF CancelWaiter, life
  <2>2. pc[s] = "cancel_waiter"
    BY <1>8, Zenon DEF CancelWaiter, At
  <2>3. CASE s \in selected
    <3>1. PopFirst(s, Deregistered(s), selected \ {s})
      BY <1>8, <2>3, Zenon DEF CancelWaiter
    <3>2. /\ Deregistered(s) \in Seq(Senders) /\ Distinct(Deregistered(s))
          /\ selected \ {s} \in SUBSET Senders
      BY Leaves, Zenon
    <3>3. towake[s] = {}
      BY <2>2, Zenon DEF HeldInv
    <3>4. waiting' # <<>> => \E u \in Senders : u \in selected'
      BY <1>1, <2>1, <3>1, <3>2, <3>3, PopTakes, Zenon
    <3> QED  BY <3>4, Zenon DEF HeirInv
  <2>4. CASE s \notin selected
    <3>1. waiting' = Deregistered(s) /\ selected' = selected /\ \E x : pc' = [pc EXCEPT ![s] = x]
      BY <1>8, <2>4, ZenonT(40) DEF CancelWaiter, At
    <3>2. \A u \in Senders : pc[u] \in HeirPoint => pc'[u] \in HeirPoint
      BY <1>1, <2>2, <3>1 DEF HeirPoint
    <3> QED  BY <1>6, <2>1, <3>1, <3>2, HeirFrame, Zenon
  <2> QED  BY <2>3, <2>4
<1> QED  BY <1>3, <1>4, <1>5, <1>7, <1>8, ZenonT(40)

\* Whoever empties the queue wakes a parked sender, if there is one.
LEMMA HeirKept ==
  ASSUME TypeOK, HandInv, HeldInv, WaitInv, HeirInv, [Next]_vars
  PROVE  HeirInv'
<1>1. WaitType
  BY Zenon DEF TypeOK, WaitType
<1>2. CASE \/ \E c \in {"try_recv", "recv_many", "recv", "recv_hot"} : Call(c)
           \/ PollRecv \/ DropRecv \/ Lock(C) \/ NextStaged \/ LoadSenders \/ Spin
           \/ RecvRegister \/ RecvArm \/ RecvDisarm \/ Sleep \/ End \/ UNCHANGED vars
  <2>1. waiting' = waiting /\ selected' = selected
    BY <1>2, ConsumerWaitSame, Zenon DEF WaitVars
  <2>2. pc' = pc
    BY <1>2, SendersSame, Zenon DEF sVars
  <2>3. queue' = queue /\ closed' = closed
    <3>1. CASE \/ \E c \in {"try_recv", "recv_many", "recv", "recv_hot"} : Call(c)
               \/ PollRecv \/ DropRecv \/ Lock(C) \/ NextStaged \/ LoadSenders \/ Spin
      BY <3>1, Zenon DEF Call, PollRecv, DropRecv, Lock, NextStaged, LoadSenders, Spin, inner, life
    <3>2. CASE RecvRegister \/ RecvArm \/ RecvDisarm \/ Sleep \/ End \/ UNCHANGED vars
      BY <3>2, ZenonT(40) DEF RecvRegister, RecvArm, RecvDisarm, Sleep, End, vars, inner, life
    <3> QED  BY <1>2, <3>1, <3>2, Zenon
  <2> QED  BY <2>1, <2>2, <2>3, HeirFrame, Zenon
<1>3. CASE DropReceiver
  <2>1. closed' = TRUE
    BY <1>3, Zenon DEF DropReceiver
  <2> QED  BY <2>1 DEF HeirInv
<1>4. CASE WakeAllWaiters
  BY <1>4, Zenon DEF WakeAllWaiters, HeirInv
<1>5. CASE PopFirst(C, waiting, selected) /\ woken' = woken /\ cpc # "wake"
  <2>1. towake[C] = {} /\ C \in Procs
    BY <1>5, Zenon DEF HeldInv, Procs
  <2>2. waiting \in Seq(Senders) /\ Distinct(waiting) /\ selected \in SUBSET Senders
    BY <1>1 DEF WaitType, WaitInv
  <2>3. waiting' # <<>> => \E u \in Senders : u \in selected'
    BY <1>1, <1>5, <2>1, <2>2, PopTakes, Zenon
  <2> QED  BY <2>3, Zenon DEF HeirInv
<1>6. CASE StealInto
  <2>1. "steal_into" # "wake"
    OBVIOUS
  <2>2. CASE queue # <<>>
    BY <1>5, <1>6, <2>1, <2>2, Zenon DEF StealInto, Go
  <2>3. CASE queue = <<>>
    <3>1. queue' = queue /\ waiting' = waiting /\ selected' = selected /\ closed' = closed /\ pc' = pc
      BY <1>6, <2>3, Zenon DEF StealInto, inner, life, sVars
    <3> QED  BY <3>1, HeirFrame, Zenon
  <2> QED  BY <2>2, <2>3
<1>7. CASE WakeOneWaiter
  <2>1. "wake_one_waiter" # "wake"
    OBVIOUS
  <2> QED  BY <1>5, <1>7, <2>1, Zenon DEF WakeOneWaiter, Go
<1>8. CASE ConsumerWake
  <2>1. queue' = queue /\ waiting' = waiting /\ selected' = selected /\ closed' = closed /\ pc' = pc
    BY <1>8, Zenon DEF ConsumerWake, inner, life, sVars
  <2> QED  BY <2>1, HeirFrame, Zenon
<1> QED  BY NextCases, <1>1, <1>2, <1>3, <1>4, <1>6, <1>7, <1>8, PushKeepsHeir, CallsKeepHeir, ZenonT(40)

-----------------------------------------------------------------------------
(* The consumer's slot. *)

\* What the threads do to the slot.
SlotSteps ==
  \/ recv' = recv
  \/ \E s \in Senders : /\ recv' = SignalLoad(recv, s) /\ pc[s] \in {"signal", "last_signal"}
                        /\ pc'[s] \in {"idle", "gone"}
  \/ \E s \in Senders : ~Quiet(recv, s) /\ recv' = SignalStep(recv, s) /\ pc' = pc
  \/ pc' = pc /\ (recv' = Polled(recv, C) \/ recv' \in RegisterWaker(recv, C)
                  \/ recv' = SetArmed(recv) \/ recv' = Disarm(recv))

\* Every step is one of these.
LEMMA SlotCases ==
  ASSUME DOMAIN pc = Senders, [Next]_vars
  PROVE  SlotSteps
<1>1. ASSUME NEW s \in Senders,
             \/ \E t \in Senders : Clone(s, t)
             \/ \E n \in 1 .. Quota[s] : TrySend(s, n)
             \/ Send(s) \/ PollSend(s) \/ DropSend(s) \/ DropSender(s) \/ Lock(s)
      PROVE  recv' = recv
  BY <1>1, Zenon DEF Clone, TrySend, Send, PollSend, DropSend, DropSender, Lock
<1>2. ASSUME NEW s \in Senders,
             \/ Repoll(s) \/ Check(s) \/ TryPush(s) \/ Park(s) \/ CancelWaiter(s) \/ CancelWake(s)
      PROVE  recv' = recv
  BY <1>2, Zenon DEF Repoll, Check, TryPush, Park, CancelWaiter, CancelWake
<1>3. ASSUME NEW s \in Senders, Signal(s) PROVE SlotSteps
  <2>1. recv' = SignalLoad(recv, s)
    BY <1>3, Zenon DEF Signal
  <2>2. pc[s] \in {"signal", "last_signal"} /\ pc'[s] \in {"idle", "gone"}
    BY <1>3 DEF Signal, At
  <2> QED  BY <2>1, <2>2, Zenon DEF SlotSteps
<1>4. ASSUME NEW s \in Senders, SignalOn(s) PROVE SlotSteps
  BY <1>4, Zenon DEF SignalOn, SlotSteps, sVars
<1>5. CASE \/ \E c \in {"try_recv", "recv_many", "recv", "recv_hot"} : Call(c)
           \/ PollRecv \/ DropRecv \/ RecvRegister \/ RecvArm \/ RecvDisarm \/ End
  BY <1>5, Zenon DEF Call, PollRecv, DropRecv, RecvRegister, RecvArm, RecvDisarm, End, SlotSteps, sVars
<1>6. CASE \/ DropReceiver \/ Lock(C) \/ NextStaged \/ StealInto \/ WakeOneWaiter \/ ConsumerWake
           \/ LoadSenders \/ Spin \/ Sleep \/ WakeAllWaiters \/ UNCHANGED vars
  <2>1. recv' = recv
    BY <1>6, Zenon DEF DropReceiver, Lock, NextStaged, StealInto, WakeOneWaiter, ConsumerWake,
                       LoadSenders, Spin, Sleep, WakeAllWaiters, vars
  <2> QED  BY <2>1, Zenon DEF SlotSteps
<1>7. recv' = recv => SlotSteps
  BY Zenon DEF SlotSteps
<1> QED  BY NextCases, <1>1, <1>2, <1>3, <1>4, <1>5, <1>6, <1>7, ZenonT(40)

\* The consumer's slot stays one, and a thread inside signal() has no call in progress.
LEMMA QuietKept ==
  ASSUME TypeOK, QuietInv, [Next]_vars
  PROVE  recv' \in SlotType({C}, Senders) /\ QuietInv'
<1>1. DOMAIN pc = Senders /\ recv \in SlotType({C}, Senders) /\ C \in {C}
  BY Zenon DEF TypeOK
<1>2. recv.sig \in [Senders -> SigPhase]
  BY <1>1 DEF SlotType
<1>3. ASSUME recv'.sig = recv.sig PROVE QuietInv'
  <2>1. ASSUME NEW u \in Senders, recv.sig[u] # "idle" PROVE pc'[u] \in {"idle", "gone"}
    <3>1. pc[u] \in {"idle", "gone"}
      BY <2>1, Zenon DEF QuietInv
    <3>2. ASSUME NEW s \in Senders, NEW x \in PcSet, PcMove(s, x) PROVE pc'[u] = pc[u] 
      <4>1. pc' = [pc EXCEPT ![s] = x]
        BY <3>2, Zenon DEF PcMove
      <4>2. u # s
        BY <2>1, <3>1, <3>2, Zenon DEF PcMove, Quiet
      <4> QED  BY <1>1, <4>1, <4>2
    <3> QED  BY <3>1, <3>2, PcSteps, Zenon
  <2> QED  BY <1>3, <2>1, Zenon DEF QuietInv
<1>4. CASE recv' = recv
  BY <1>1, <1>3, <1>4, Zenon
<1>5. ASSUME NEW s \in Senders, recv' = SignalLoad(recv, s), pc[s] \in {"signal", "last_signal"},
             pc'[s] \in {"idle", "gone"}
      PROVE  recv' \in SlotType({C}, Senders) /\ QuietInv'
  <2>1. recv' \in SlotType({C}, Senders)
    BY <1>1, <1>5, SlotOpsType, Zenon
  <2>2. \A u \in Senders : u # s => recv'.sig[u] = recv.sig[u]
    BY <1>1, <1>5 DEF SignalLoad, SlotType
  <2>3. ASSUME NEW u \in Senders, recv'.sig[u] # "idle" PROVE pc'[u] \in {"idle", "gone"}
    <3>1. CASE u = s
      BY <1>5, <3>1, Zenon
    <3>2. CASE u # s
      <4>1. recv.sig[u] # "idle"
        BY <2>2, <2>3, <3>2, Zenon
      <4>2. pc[u] \in {"idle", "gone"}
        BY <4>1, Zenon DEF QuietInv
      <4>3. ASSUME NEW t \in Senders, NEW x \in PcSet, PcMove(t, x) PROVE pc'[u] = pc[u]
        <5>1. pc' = [pc EXCEPT ![t] = x]
          BY <4>3, ZenonT(40) DEF PcMove
        <5>2. u # t
          BY <4>1, <4>2, <4>3 DEF PcMove, Quiet
        <5> QED  BY <1>1, <5>1, <5>2
      <4> QED  BY <4>2, <4>3, PcSteps, Zenon
    <3> QED  BY <3>1, <3>2
  <2> QED  BY <2>1, <2>3, Zenon DEF QuietInv
<1>6. ASSUME NEW s \in Senders, ~Quiet(recv, s), recv' = SignalStep(recv, s), pc' = pc
      PROVE  recv' \in SlotType({C}, Senders) /\ QuietInv'
  <2>1. recv' \in SlotType({C}, Senders)
    BY <1>1, <1>6, SlotOpsType, Zenon
  <2>2. \A u \in Senders : u # s => recv'.sig[u] = recv.sig[u]
    BY <1>1, <1>6 DEF SignalStep, SignalSwap, SignalWake, SlotType
  <2>3. recv.sig[s] # "idle"
    BY <1>6 DEF Quiet
  <2> QED  BY <1>6, <2>1, <2>2, <2>3, Zenon DEF QuietInv
<1>7. CASE \/ recv' = Polled(recv, C) \/ recv' \in RegisterWaker(recv, C)
           \/ recv' = SetArmed(recv) \/ recv' = Disarm(recv)
  <2>1. First \in Senders
    BY ChannelAssumption
  <2>2. /\ Polled(recv, C) \in SlotType({C}, Senders) /\ SetArmed(recv) \in SlotType({C}, Senders)
        /\ Disarm(recv) \in SlotType({C}, Senders)
        /\ \A n \in RegisterWaker(recv, C) : n \in SlotType({C}, Senders)
    BY <1>1, <2>1, SlotOpsType, Zenon
  <2>3. /\ \A n \in RegisterWaker(recv, C) : n.sig = recv.sig
        /\ SetArmed(recv).sig = recv.sig /\ Disarm(recv).sig = recv.sig /\ Polled(recv, C).sig = recv.sig
    <3>1. recv \in SlotType({C}, Senders)
      BY <1>1, Zenon
    <3>2. \A n \in RegisterWaker(recv, C) : n.sig = recv.sig
      BY ONLY <3>1, SMTT(30) DEF RegisterWaker, SlotType
    <3>3. SetArmed(recv).sig = recv.sig /\ Disarm(recv).sig = recv.sig /\ Polled(recv, C).sig = recv.sig
      BY ONLY <3>1, SMTT(30) DEF SetArmed, Disarm, Polled, SlotType
    <3> QED  BY <3>2, <3>3, Zenon
  <2> QED  BY <1>3, <1>7, <2>2, <2>3, ZenonT(40)
<1>8. SlotSteps
  BY <1>1, SlotCases
<1> QED  BY <1>4, <1>5, <1>6, <1>7, <1>8, Zenon DEF SlotSteps

-----------------------------------------------------------------------------
(* The consumer's wakeup. *)

\* Only a Signal ends the wait for one.
LEMMA SignalStays ==
  ASSUME DOMAIN pc = Senders, NEW s \in Senders,
         \/ \E t \in Senders : Clone(s, t)
         \/ \E n \in 1 .. Quota[s] : TrySend(s, n)
         \/ Send(s) \/ PollSend(s) \/ DropSend(s) \/ DropSender(s) \/ Lock(s)
         \/ Repoll(s) \/ Check(s) \/ TryPush(s) \/ Park(s) \/ CancelWaiter(s) \/ CancelWake(s)
  PROVE  Signalling => Signalling'
<1> DEFINE Sig == {"signal", "last_signal"}
<1>1. ASSUME NEW t \in Senders, NEW x, pc[t] \notin Sig, pc' = [pc EXCEPT ![t] = x]
      PROVE  Signalling => Signalling'
  <2>1. \A u \in Senders : pc[u] \in Sig => pc'[u] \in Sig
    BY <1>1, Zenon
  <2> QED  BY <2>1, Zenon DEF Signalling
<1>2. ASSUME NEW t \in Senders, Clone(s, t) PROVE pc[t] \notin Sig /\ \E x : pc' = [pc EXCEPT ![t] = x]
  BY <1>2, Zenon DEF Clone, At
<1>3. CASE \/ \E n \in 1 .. Quota[s] : TrySend(s, n)
           \/ Send(s) \/ PollSend(s) \/ DropSend(s) \/ DropSender(s) \/ Repoll(s) \/ Check(s)
  <2>1. pc[s] \in {"idle", "parked", "repoll_waiter", "check"} /\ \E x : pc' = [pc EXCEPT ![s] = x]
    BY <1>3, Zenon DEF TrySend, Send, PollSend, DropSend, DropSender, Repoll, Check, Begin, At
  <2> QED  BY <1>1, <2>1, Zenon
<1>4. CASE TryPush(s)
  <2>1. pc[s] \in {"try_push", "push"} /\ \E x : pc' = [pc EXCEPT ![s] = x]
    BY <1>4, Zenon DEF TryPush, At
  <2> QED  BY <1>1, <2>1, Zenon
<1>5. CASE Park(s)
  <2>1. pc[s] = "park" /\ \E x : pc' = [pc EXCEPT ![s] = x]
    BY <1>5, Zenon DEF Park, At
  <2> QED  BY <1>1, <2>1, Zenon
<1>6. CASE CancelWaiter(s) \/ CancelWake(s)
  <2>1. pc[s] \in {"cancel_waiter", "wake"} /\ \E x : pc' = [pc EXCEPT ![s] = x]
    BY <1>6, Zenon DEF CancelWaiter, CancelWake, At
  <2> QED  BY <1>1, <2>1, Zenon
<1>7. CASE Lock(s)
  BY <1>7, SendersSame, Zenon DEF sVars, Signalling
<1> QED  BY <1>1, <1>2, <1>3, <1>4, <1>5, <1>6, <1>7, Zenon

\* A sender's step leaves the consumer where it is.
LEMMA ZonesSame ==
  ASSUME UNCHANGED cVars, closed' = closed
  PROVE  /\ cpc' = cpc /\ (Asleep' <=> Asleep) /\ (Looked' <=> Looked) /\ (Expecting' <=> Expecting)
<1>1. cpc' = cpc /\ stage' = stage /\ hold' = hold
  BY Zenon DEF cVars
<1>2. Asleep' <=> Asleep
  BY <1>1 DEF Asleep
<1>3. (Looked' <=> Looked) /\ (Expecting' <=> Expecting)
  BY <1>1, <1>2 DEF Looked, Expecting
<1> QED  BY <1>1, <1>2, <1>3

\* The senders never leave an armed consumer without its wake: a push and the last
\* drop are followed by a signal, and a signal reaches the slot.
LEMMA SendersKeepWake ==
  ASSUME TypeOK, HandInv, QuietInv, WakeInv, NEW s \in Senders,
         \/ \E t \in Senders : Clone(s, t)
         \/ \E n \in 1 .. Quota[s] : TrySend(s, n)
         \/ Send(s) \/ PollSend(s) \/ DropSend(s) \/ DropSender(s) \/ Lock(s)
         \/ Repoll(s) \/ Check(s) \/ TryPush(s) \/ Park(s) \/ Signal(s)
         \/ SignalOn(s) \/ CancelWaiter(s) \/ CancelWake(s)
  PROVE  WakeInv'
<1>1. DOMAIN pc = Senders /\ recv \in SlotType({C}, Senders) /\ C \in {C} /\ C # NoWaker
  BY Zenon DEF TypeOK, C, NoWaker
<1>2. cpc' = cpc /\ (Asleep' <=> Asleep) /\ (Looked' <=> Looked) /\ (Expecting' <=> Expecting)
  BY ConsumerSame, ZonesSame, Zenon
<1>3. (Asleep => Looked) /\ (Looked => Expecting)
  BY DEF Looked, Expecting
<1>4. CASE Signal(s)
  <2>1. recv' = SignalLoad(recv, s)
    BY <1>4, ZenonT(40) DEF Signal
  <2>2. pc[s] \in {"signal", "last_signal"}
    BY <1>4 DEF Signal, At
  <2>3. Quiet(recv, s)
    BY <2>2, Zenon DEF QuietInv, Quiet
  <2>4. /\ recv'.armed <=> recv.armed
        /\ Registered(recv, C) => Registered(recv', C)
        /\ WakeComing(recv, C) => WakeComing(recv', C)
        /\ recv.armed /\ Registered(recv, C) => WakeComing(recv', C)
    BY <1>1, <2>1, <2>3, SignalLoadWakes, Zenon
  <2>5. Reachable => Reachable' /\ Due'
    BY <2>4, Zenon DEF Reachable, Due
  <2> QED  BY <1>2, <1>3, <2>4, <2>5, Zenon DEF WakeInv
<1>5. CASE SignalOn(s)
  <2>1. recv' = SignalStep(recv, s) /\ ~Quiet(recv, s) /\ pc' = pc /\ queue' = queue /\ senders' = senders
    BY <1>5, Zenon DEF SignalOn, sVars, inner, life
  <2>2. ASSUME Registered(recv, C)
        PROVE  /\ Registered(recv', C)
               /\ WakeComing(recv, C) => WakeComing(recv', C)
               /\ recv.armed => recv'.armed \/ WakeComing(recv', C)
    BY <1>1, <2>1, <2>2, SignalStepWakes, Zenon
  <2>3. Reachable => Reachable' /\ (Due => Due')
    BY <2>1, <2>2, Zenon DEF Reachable, Due, Signalling
  <2> QED  BY <1>2, <1>3, <2>1, <2>2, <2>3, ZenonT(40) DEF WakeInv
<1>6. CASE \/ \E t \in Senders : Clone(s, t)
           \/ \E n \in 1 .. Quota[s] : TrySend(s, n)
           \/ Send(s) \/ PollSend(s) \/ DropSend(s) \/ DropSender(s) \/ Lock(s)
           \/ Repoll(s) \/ Check(s) \/ TryPush(s) \/ Park(s) \/ CancelWaiter(s) \/ CancelWake(s)
  <2>1. recv' = recv
    <3>1. CASE \/ \E t \in Senders : Clone(s, t)
               \/ \E n \in 1 .. Quota[s] : TrySend(s, n)
               \/ Send(s) \/ PollSend(s) \/ DropSend(s) \/ DropSender(s) \/ Lock(s)
      BY <3>1, Zenon DEF Clone, TrySend, Send, PollSend, DropSend, DropSender, Lock
    <3>2. CASE \/ Repoll(s) \/ Check(s) \/ TryPush(s) \/ Park(s) \/ CancelWaiter(s) \/ CancelWake(s)
      BY <3>2, Zenon DEF Repoll, Check, TryPush, Park, CancelWaiter, CancelWake
    <3> QED  BY <1>6, <3>1, <3>2, Zenon
  <2>2. Due => Due'
    BY <1>1, <1>6, <2>1, SignalStays, Zenon DEF Due
  <2>3. Reachable => Reachable'
    BY <2>1, Zenon DEF Reachable
  <2>4. queue' = queue \/ Due'
    <3>1. ASSUME NEW k \in Nat, Pushes(s, k) PROVE Due'
      BY <3>1, Zenon DEF Pushes, Due, Signalling
    <3>2. CASE TryPush(s) \/ Park(s)
      BY <3>1, <3>2, PushSteps, Zenon DEF DataSame
    <3>3. CASE \/ \E t \in Senders : Clone(s, t)
               \/ \E n \in 1 .. Quota[s] : TrySend(s, n)
               \/ Send(s) \/ PollSend(s) \/ DropSend(s) \/ DropSender(s) \/ Lock(s)
               \/ Repoll(s) \/ Check(s) \/ CancelWaiter(s) \/ CancelWake(s)
      BY <3>3, Zenon DEF Clone, TrySend, Send, PollSend, DropSend, DropSender, Lock,
                         Repoll, Check, CancelWaiter, CancelWake, inner
    <3> QED  BY <1>6, <3>2, <3>3, Zenon
  <2>5. senders' = 0 => senders = 0 \/ Due'
    <3>1. ASSUME NEW t \in Senders, Clone(s, t) PROVE senders' # 0
      <4>1. senders' = senders + 1
        BY <3>1, Zenon DEF Clone
      <4> QED  BY <4>1, Numbers
    <3>2. ASSUME DropSender(s), senders' = 0 PROVE Due'
      <4>1. senders = 1
        <5>1. senders' = senders - 1
          BY <3>2, Zenon DEF DropSender
        <5> QED  BY <3>2, <5>1, Numbers
      <4>2. pc' = [pc EXCEPT ![s] = "last_signal"]
        BY <3>2, <4>1, ZenonT(40) DEF DropSender, Begin, At
      <4>3. pc'[s] \in {"signal", "last_signal"}
        BY <1>1, <4>2
      <4> QED  BY <4>3, Zenon DEF Due, Signalling
    <3>3. CASE \/ \E n \in 1 .. Quota[s] : TrySend(s, n)
               \/ Send(s) \/ PollSend(s) \/ DropSend(s) \/ Lock(s)
               \/ Repoll(s) \/ Check(s) \/ TryPush(s) \/ Park(s) \/ CancelWaiter(s) \/ CancelWake(s)
      BY <3>3, ZenonT(40) DEF TrySend, Send, PollSend, DropSend, Lock,
                         Repoll, Check, TryPush, Park, CancelWaiter, CancelWake, life
    <3> QED  BY <1>6, <3>1, <3>2, <3>3, ZenonT(40)
  <2> QED  BY <1>2, <2>1, <2>2, <2>3, <2>4, <2>5, ZenonT(40) DEF WakeInv
<1> QED  BY <1>4, <1>5, <1>6, Zenon

\* The consumer's own steps, by where they take it.
LEMMA ConsumerKeepsWake ==
  ASSUME TypeOK, FlowInv, WakeInv,
         \/ \E c \in {"try_recv", "recv_many", "recv", "recv_hot"} : Call(c)
         \/ PollRecv \/ DropRecv \/ DropReceiver \/ Lock(C) \/ NextStaged \/ StealInto
         \/ WakeOneWaiter \/ ConsumerWake \/ LoadSenders \/ Spin \/ RecvRegister
         \/ RecvArm \/ RecvDisarm \/ Sleep \/ End \/ WakeAllWaiters
  PROVE  WakeInv'
<1>1. recv \in SlotType({C}, Senders) /\ C \in {C}
  BY Zenon DEF TypeOK
<1>2. pc' = pc
  BY SendersSame, Zenon DEF sVars
<1>3. ASSUME cpc' # "arm", ~Expecting' PROVE WakeInv'
  BY <1>3, Zenon DEF WakeInv, Looked, Expecting
<1>4. ASSUME recv' = recv, queue' = queue, senders' = senders,
             cpc' # "arm", Expecting' => Expecting, Looked' => Looked, Asleep' => Asleep
      PROVE  WakeInv'
  BY <1>2, <1>4, Zenon DEF WakeInv, Reachable, Due, Signalling
<1>5. CASE \/ \E c \in {"try_recv", "recv_many", "recv", "recv_hot"} : Call(c)
           \/ PollRecv \/ DropRecv \/ DropReceiver \/ End
  <2>1. cpc' # "arm" /\ ~Expecting'
    BY <1>5, Zenon DEF Call, PollRecv, DropRecv, DropReceiver, End, CallOver, Go, Expecting, Asleep
  <2> QED  BY <1>3, <2>1
<1>6. CASE WakeAllWaiters
  <2>1. cpc' # "arm" /\ ~Expecting'
    BY <1>6, Zenon DEF WakeAllWaiters, Go, life, FlowInv, Expecting, Asleep
  <2> QED  BY <1>3, <2>1
<1>7. CASE RecvRegister
  <2>1. recv' \in RegisterWaker(recv, C)
    BY <1>7, Zenon DEF RecvRegister
  <2>2. Registered(recv', C)
    BY <1>1, <2>1, WaiterOps, ZenonT(40)
  <2>3. ~Expecting'
    BY <1>7 DEF RecvRegister, Go, Expecting, Asleep
  <2> QED  BY <2>2, <2>3, Zenon DEF WakeInv, Looked, Expecting
<1>8. CASE RecvArm
  <2>1. recv' = SetArmed(recv) /\ cpc = "arm"
    BY <1>8, Zenon DEF RecvArm, Go
  <2>2. Registered(recv, C)
    BY <2>1, ZenonT(40) DEF WakeInv
  <2>3. recv'.armed /\ Registered(recv', C)
    BY <1>1, <2>1, <2>2, WaiterOps, SMTT(30)
  <2>4. cpc' # "arm" /\ ~Looked' /\ ~Asleep'
    BY <1>8, SMTT(30) DEF RecvArm, Go, Looked, Asleep
  <2> QED  BY <2>3, <2>4, Zenon DEF WakeInv, Reachable
<1>9. CASE RecvDisarm
  <2>1. cpc' # "arm" /\ ~Expecting'
    BY <1>9, SMTT(30) DEF RecvDisarm, Go, FlowInv, Expecting, Asleep
  <2> QED  BY <1>3, <2>1
<1>10. CASE Spin
  <2>1. cpc' # "arm" /\ ~Expecting'
    BY <1>10 DEF Spin, Go, FlowInv, Expecting, Asleep
  <2> QED  BY <1>3, <2>1
<1>11. CASE NextStaged
  <2>1. CASE staging # <<>>
    <3>1. Head(staging) # None
      <4>1. Head(staging) \in Item
        BY <2>1, HeadTail DEF TypeOK
      <4> QED  BY <4>1, NoItem, ZenonT(40)
    <3>2. /\ hold' # None /\ cpc = "next_staged"
          /\ cpc' = IF waitersLen > 0 THEN "wake_one_waiter" ELSE Answer(hold')
      BY <1>11, <2>1, <3>1, Zenon DEF NextStaged, Go
    <3>3. cpc' # "arm" /\ ~Expecting'
      BY <3>2 DEF Expecting, Asleep, Answer
    <3> QED  BY <1>3, <3>3
  <2>2. CASE staging = <<>>
    <3>1. recv' = recv /\ queue' = queue /\ senders' = senders
      BY <1>11, Zenon DEF NextStaged, inner, life
    <3>2. cpc = "next_staged" /\ cpc' = "steal_into" /\ stage' = stage
      BY <1>11, <2>2, Zenon DEF NextStaged, Go
    <3>3. cpc' # "arm" /\ (Expecting' => Expecting) /\ ~Looked' /\ ~Asleep'
      BY <3>2 DEF Expecting, Looked, Asleep
    <3> QED  BY <1>4, <3>1, <3>3, Zenon
  <2> QED  BY <2>1, <2>2
<1>12. CASE StealInto
  <2>1. cpc = "steal_into" /\ ~closed /\ closed' = closed /\ stage' = stage /\ recv' = recv /\ senders' = senders
    BY <1>12, ZenonT(40) DEF StealInto, Go, life, FlowInv
  <2>2. CASE queue # <<>>
    <3>1. Head(queue) # None
      <4>1. Head(queue) \in Item
        BY <2>2, HeadTail, Zenon DEF TypeOK
      <4> QED  BY <4>1, NoItem, Zenon
    <3>2. hold' # None /\ cpc' = IF towake'[C] = {} THEN Woken(hold') ELSE "wake"
      BY <1>12, <2>2, <3>1, ZenonT(40) DEF StealInto, Go
    <3>3. cpc' # "arm" /\ ~Expecting'
      BY <2>1, <3>2 DEF Expecting, Asleep, Answer, Woken
    <3> QED  BY <1>3, <3>3
  <2>3. CASE queue = <<>>
    <3>1. queue' = <<>> /\ cpc' = Answer(None)
      BY <1>12, <2>3, ZenonT(40) DEF StealInto, Go, inner
    <3>2. cpc' # "arm" /\ (Expecting' => Expecting) /\ ~Asleep'
      BY <2>1, <3>1 DEF Expecting, Asleep, Answer
    <3> QED  BY <2>1, <3>1, <3>2, Zenon DEF WakeInv, Reachable
  <2> QED  BY <2>2, <2>3
<1>13. CASE WakeOneWaiter \/ ConsumerWake
  <2>1. recv' = recv /\ queue' = queue /\ senders' = senders
    BY <1>13, Zenon DEF WakeOneWaiter, ConsumerWake, inner, life
  <2>2. /\ hold' = hold /\ closed' = closed /\ stage' = stage /\ cpc \in {"wake_one_waiter", "wake"}
        /\ cpc' = Woken(hold) \/ cpc' = "wake"
    BY <1>13, ZenonT(40) DEF WakeOneWaiter, ConsumerWake, Go, life
  <2>3. cpc' # "arm" /\ (Expecting' => Asleep)
    BY <2>2 DEF Expecting, Asleep, Answer, Woken, FlowInv
  <2>4. (Asleep => Looked) /\ (Asleep => Expecting) /\ (Looked' => Expecting') /\ (Asleep' => Expecting')
    BY DEF Looked, Expecting
  <2> QED  BY <1>4, <2>1, <2>3, <2>4, ZenonT(40)
<1>14. CASE LoadSenders
  <2>1. recv' = recv /\ queue' = queue /\ senders' = senders /\ closed' = closed /\ hold' = hold
    BY <1>14, Zenon DEF LoadSenders, inner, life
  <2>2. CASE cpc' = "sleep" /\ cpc = "senders" /\ stage = "armed" /\ senders > 0
    <3>1. senders' # 0
      BY <2>1, <2>2, Numbers
    <3>2. cpc' # "arm" /\ Expecting /\ Looked
      BY <2>2 DEF Expecting, Looked
    <3> QED  BY <1>2, <2>1, <3>1, <3>2, ZenonT(40) DEF WakeInv, Reachable, Due, Signalling
  <2>3. CASE cpc' # "arm" /\ ~Expecting'
    BY <1>3, <2>3, SMTT(30)
  <2>4. \/ cpc' = "sleep" /\ cpc = "senders" /\ stage = "armed" /\ senders > 0
        \/ cpc' \in {"disarm", "end", "spin", "register"}
        \/ cpc' = "next_staged" /\ stage' = "last"
    BY <1>14 DEF LoadSenders, Go
  <2>5. cpc' \in {"disarm", "end", "spin", "register"} => cpc' # "arm" /\ ~Expecting'
    BY DEF Expecting, Asleep
  <2>6. cpc' = "next_staged" /\ stage' = "last" => cpc' # "arm" /\ ~Expecting'
    BY DEF Expecting, Asleep
  <2> QED  BY <2>2, <2>3, <2>4, <2>5, <2>6, ZenonT(40)
<1>15. CASE Sleep
  <2>1. recv' = recv /\ queue' = queue /\ senders' = senders
    BY <1>15, ZenonT(40) DEF Sleep, inner, life
  <2>2. cpc' # "arm" /\ Asleep
    BY <1>15 DEF Sleep, Go, Asleep
  <2>3. Expecting /\ Looked
    BY <2>2 DEF Expecting, Looked
  <2> QED  BY <1>4, <2>1, <2>2, <2>3, Zenon
<1>16. CASE Lock(C)
  <2>1. UNCHANGED cVars /\ closed' = closed /\ recv' = recv /\ queue' = queue /\ senders' = senders
    BY <1>16, Zenon DEF Lock, inner, life
  <2>2. cpc' = cpc /\ (Asleep' <=> Asleep) /\ (Looked' <=> Looked) /\ (Expecting' <=> Expecting)
    BY <2>1, ZonesSame, Zenon
  <2> QED  BY <1>2, <2>1, <2>2, Zenon DEF WakeInv, Reachable, Due, Signalling
<1> QED  BY <1>5, <1>6, <1>7, <1>8, <1>9, <1>10, <1>11, <1>12, <1>13, <1>14, <1>15, <1>16, SMTT(30)

\* The consumer is never left asleep without a wake that is due.
LEMMA WakeKept ==
  ASSUME TypeOK, HandInv, FlowInv, QuietInv, WakeInv, [Next]_vars
  PROVE  WakeInv'
<1>1. CASE UNCHANGED vars
  <2>1. /\ UNCHANGED cVars /\ closed' = closed /\ recv' = recv /\ queue' = queue
        /\ senders' = senders /\ pc' = pc
    BY <1>1, Zenon DEF vars, cVars
  <2>2. cpc' = cpc /\ (Asleep' <=> Asleep) /\ (Looked' <=> Looked) /\ (Expecting' <=> Expecting)
    BY <2>1, ZonesSame, Zenon
  <2> QED  BY <2>1, <2>2, Zenon DEF WakeInv, Reachable, Due, Signalling
<1> QED  BY NextCases, <1>1, SendersKeepWake, ConsumerKeepsWake, ZenonT(40)

-----------------------------------------------------------------------------
(* The invariant, and what follows from it. *)

\* TypeOK, put together.
LEMMA TypeKept ==
  ASSUME Inv, [Next]_vars
  PROVE  TypeOK'
<1>1. TypeOK /\ CountInv /\ HandInv /\ FlowInv /\ HeldInv /\ WaitInv /\ QuietInv
  BY Zenon DEF Inv
<1>2. /\ pc \in [Senders -> PcSet] /\ locked \in Procs \cup {Free} /\ ConsumerType
  BY <1>1, Zenon DEF TypeOK, PcSet, ConsumerType, CpcSet
<1>3. DataType'
  BY <1>1, DataTypeKept, Zenon
<1>4. WaitType'
  BY <1>1, WaitKept, Zenon
<1>5. ConsumerType'
  BY <1>1, <1>2, FlowKept, Zenon
<1>6. pc' \in [Senders -> PcSet]
  BY <1>2, PcKept, Zenon
<1>7. locked' \in Procs \cup {Free}
  BY <1>2, LockedKept, Zenon
<1>8. senders' \in Nat
  <2>1. DOMAIN pc = Senders
    BY <1>2
  <2> QED  BY <1>1, <2>1, CountKept, Zenon
<1>9. recv' \in SlotType({C}, Senders)
  BY <1>1, QuietKept, Zenon
<1>10. \A s \in Senders : {hand'[s], moved'[s], told'[s], got'[s]} \subseteq 0 .. Quota[s]
  <2>1. HandInv'
    BY <1>1, HandKept, Zenon
  <2>2. ASSUME NEW s \in Senders PROVE {hand'[s], moved'[s], told'[s], got'[s]} \subseteq 0 .. Quota[s]
    <3>1. HandOk(s, pc'[s], hand'[s], moved'[s], told'[s]) /\ got'[s] \in Nat /\ got'[s] <= Quota[s]
      BY <2>1 DEF HandInv, HandsOk, GotOk
    <3>2. Quota[s] \in Nat
      BY ChannelAssumption
    <3>3. hand'[s] \in Nat /\ moved'[s] \in Nat /\ told'[s] \in Nat /\ told'[s] + moved'[s] + hand'[s] <= Quota[s]
      BY <3>1, Zenon DEF HandOk
    <3>4. PICK h \in Nat, m \in Nat, d \in Nat, g \in Nat, u \in Nat :
            /\ h = hand'[s] /\ m = moved'[s] /\ d = told'[s] /\ g = got'[s] /\ u = Quota[s]
            /\ d + m + h <= u /\ g <= u
      BY <3>1, <3>2, <3>3, ZenonT(40)
    <3>5. {h, m, d, g} \subseteq 0 .. u
      BY ONLY <3>4
    <3> QED  BY <3>4, <3>5, ZenonT(40)
  <2> QED  BY <2>2, Zenon
<1> QED  BY <1>3, <1>4, <1>5, <1>6, <1>7, <1>8, <1>9, <1>10, ZenonT(40)
         DEF TypeOK, DataType, WaitType, ConsumerType, PcSet, CpcSet

\* bounded() establishes the invariant.
LEMMA InitInv == Init => Inv
<1> SUFFICES ASSUME Init PROVE Inv
  OBVIOUS
<1>1. /\ queue = <<>> /\ nonempty = FALSE /\ waiting = <<>> /\ selected = {} /\ waitersLen = 0
      /\ locked = Free /\ recv = NewSlot(Senders) /\ senders = 1 /\ closed = FALSE
      /\ pc = [s \in Senders |-> IF s = First THEN "idle" ELSE "none"]
      /\ woken = {} /\ towake = [p \in Procs |-> {}]
      /\ cpc = "idle" /\ call = "try_recv" /\ stage = "first" /\ spin = 0
      /\ staging = <<>> /\ hold = None
  BY Zenon DEF Init
<1>2. /\ hand = [s \in Senders |-> 0] /\ moved = [s \in Senders |-> 0]
      /\ told = [s \in Senders |-> 0] /\ got = [s \in Senders |-> 0]
  BY Zenon DEF Init
<1>3. First \in Senders /\ Cap \in Nat \ {0} /\ RecvSpin \in Nat \ {0} /\ Quota \in [Senders -> Nat]
  BY ChannelAssumption
<1>4. HandInv
  <2>1. \A s \in Senders : Quota[s] \in Nat /\ pc[s] \in {"idle", "none"}
    BY <1>1, <1>3
  <2> QED  BY <1>2, <2>1 DEF HandInv, HandsOk, HandOk, GotOk
<1>5. TypeOK
  <2>1. queue \in Seq(Item) /\ staging \in Seq(Item) /\ Len(queue) <= Cap /\ Len(staging) < Cap
    BY <1>1, <1>3
  <2>2. nonempty = (queue # <<>>)
    BY <1>1, Zenon
  <2>3. waiting \in Seq(Senders) /\ selected \subseteq Senders /\ waitersLen = Len(waiting)
    BY <1>1, SMTT(30)
  <2>4. recv \in SlotType({C}, Senders)
    BY <1>1 DEF NewSlot, SlotType, SigPhase
  <2>5. pc \in [Senders -> SenderSection \cup {"none", "idle", "check", "signal",
                  "parked", "wake", "last_signal", "gone"}]
    BY <1>1
  <2>6. \A s \in Senders : {hand[s], moved[s], told[s], got[s]} \subseteq 0 .. Quota[s]
    BY <1>2, <1>3
  <2>7. woken \subseteq Senders /\ towake \in [Procs -> SUBSET Senders]
    BY <1>1
  <2>8. spin \in 0 .. RecvSpin /\ senders \in Nat
    BY <1>1, <1>3
  <2> QED  BY <1>1, <2>1, <2>2, <2>3, <2>4, <2>5, <2>6, <2>7, <2>8, ZenonT(40) DEF TypeOK
<1>6. CountInv
  <2> DEFINE q == <<First>>
  <2>1. q \in Seq(Senders) /\ Len(q) = 1 /\ DOMAIN q = {1} /\ q[1] = First
    BY <1>3
  <2> HIDE DEF q
  <2>2. Distinct(q) /\ \A s \in Senders : Queued(q, s) <=> s = First
    BY <2>1 DEF Distinct, Queued
  <2>3. \A s \in Senders : Alive(s) <=> s = First
    BY <1>1 DEF Alive
  <2> QED  BY <1>1, <2>1, <2>2, <2>3, ZenonT(40) DEF CountInv
<1>7. FlowInv /\ EndInv
  BY <1>1 DEF FlowInv, EndInv
<1>8. DataInv
  <2>1. Contents = (<<>> \o <<>>) \o <<>>
    BY <1>1, Zenon DEF Contents
  <2>2. Contents = <<>>
    BY <2>1
  <2>3. \A s \in Senders : Of(s, Contents) = {} /\ got[s] = 0 /\ Accepted[s] = 0
    BY <1>2, <2>2, SMTT(30) DEF Of, Accepted
  <2>4. Ordered(Contents)
    BY <2>2, SMTT(30) DEF Ordered
  <2>5. \A s \in Senders : got[s] <= Accepted[s] /\ Of(s, Contents) = (got[s] + 1) .. Accepted[s]
    BY <2>3
  <2> QED  BY <2>4, <2>5, Zenon DEF DataInv, Numbered
<1>9. \A p \in Procs : towake[p] = {}
  BY <1>1
<1>10. HeldInv
  BY <1>9 DEF HeldInv, Procs
<1>11. WaitInv
  <2>1. Distinct(waiting) /\ \A s \in Senders : ~Queued(waiting, s) /\ s \notin selected
    BY <1>1 DEF Distinct, Queued
  <2>2. \A s \in Senders : pc[s] # "parked"
    BY <1>1
  <2> QED  BY <2>1, <2>2, ZenonT(40) DEF WaitInv
<1>12. HeirInv
  BY <1>1, ZenonT(40) DEF HeirInv
<1>13. QuietInv
  BY <1>1 DEF QuietInv, NewSlot
<1>14. WakeInv
  BY <1>1 DEF WakeInv, Expecting, Looked, Asleep
<1> QED  BY <1>4, <1>5, <1>6, <1>7, <1>8, <1>10, <1>11, <1>12, <1>13, <1>14, ZenonT(40) DEF Inv

\* Every step keeps it.
LEMMA InvKept ==
  ASSUME Inv, [Next]_vars
  PROVE  Inv'
<1>1. /\ TypeOK /\ CountInv /\ HandInv /\ FlowInv /\ DataInv /\ EndInv
      /\ HeldInv /\ WaitInv /\ HeirInv /\ QuietInv /\ WakeInv
  BY ZenonT(40) DEF Inv
<1>2. DOMAIN pc = Senders /\ ConsumerType
  BY <1>1 DEF TypeOK, ConsumerType, CpcSet
<1>3. TypeOK'
  BY TypeKept
<1>4. CountInv'
  BY <1>1, <1>2, CountKept, Zenon
<1>5. HandInv'
  BY <1>1, HandKept, Zenon
<1>6. FlowInv'
  BY <1>1, <1>2, FlowKept, Zenon
<1>7. DataInv'
  BY <1>1, DataKept, Zenon
<1>8. EndInv'
  BY <1>1, EndKept, Zenon
<1>9. HeldInv'
  BY <1>1, HeldKept, Zenon
<1>10. WaitInv'
  BY <1>1, WaitKept, Zenon
<1>11. HeirInv'
  BY <1>1, HeirKept, Zenon
<1>12. QuietInv'
  BY <1>1, QuietKept, Zenon
<1>13. WakeInv'
  BY <1>1, WakeKept, Zenon
<1> QED  BY <1>3, <1>4, <1>5, <1>6, <1>7, <1>8, <1>9, <1>10, <1>11, <1>12, <1>13, ZenonT(40) DEF Inv

\* The inductive invariant, for any senders, quotas, capacity and spin window.
THEOREM ChannelInv == Spec => []Inv
BY InitInv, InvKept, PTL DEF Spec

\* ExactlyOnce: while the receiver lives, the channel holds each sender's accepted and
\* undelivered items, once each and in order.
THEOREM ChannelExactlyOnce == Spec => []ExactlyOnce
<1>1. Inv => ExactlyOnce
  <2> SUFFICES ASSUME Inv PROVE ExactlyOnce
    OBVIOUS
  <2>1. TypeOK /\ DataInv
    BY Zenon DEF Inv
  <2>2. \A s \in Senders : Accepted[s] = told[s] + moved[s]
    BY DEF Accepted
  <2> QED  BY <2>1, <2>2, Zenon DEF ExactlyOnce, DataInv, Numbered
<1> QED  BY <1>1, ChannelInv, PTL

\* EndMeansDrained: recv reports the end only when every item that was accepted from
\* any sender has been delivered.
THEOREM ChannelDrained == Spec => []EndMeansDrained
<1>1. Inv => EndMeansDrained
  <2> SUFFICES ASSUME Inv, cpc = "end", stage = "last", hold = None
               PROVE  senders = 0 /\ Contents = <<>> /\ got = told
    BY Zenon DEF EndMeansDrained
  <2>1. TypeOK /\ CountInv /\ HandInv /\ FlowInv /\ DataInv /\ EndInv
    BY Zenon DEF Inv
  <2>2. senders = 0 /\ queue = <<>> /\ staging = <<>>
    BY <2>1, Zenon DEF EndInv
  <2>3. Contents = <<>>
    <3>1. Contents = (<<>> \o <<>>) \o <<>>
      BY <2>2, Zenon DEF Contents
    <3> QED  BY <3>1
  <2>4. ~closed
    BY <2>1 DEF FlowInv
  <2>5. Numbered(Contents, got, Accepted)
    BY <2>1, <2>4, Zenon DEF DataInv
  <2>6. got \in [Senders -> Nat] /\ told \in [Senders -> Nat] /\ moved \in [Senders -> Nat]
    BY <2>1, ZenonT(40) DEF HandInv, HandsOk, GotOk
  <2>7. ASSUME NEW s \in Senders PROVE got[s] = told[s]
    <3>1. pc[s] # "signal"
      <4>1. ~Alive(s)
        BY <2>1, <2>2, CountZero, Zenon
      <4> QED  BY <4>1 DEF Alive
    <3>2. moved[s] = 0
      BY <2>1, <3>1, HandFacts, Zenon DEF HandInv
    <3>3. Accepted[s] = told[s]
      BY <2>6, <3>2 DEF Accepted
    <3>4. got[s] <= told[s] /\ Of(s, Contents) = (got[s] + 1) .. told[s]
      BY <2>5, <3>3, Zenon DEF Numbered
    <3>5. Of(s, Contents) = {}
      BY <2>3 DEF Of
    <3>6. got[s] \in Nat /\ told[s] \in Nat
      BY <2>6, SMTT(30)
    <3>7. ~(got[s] < told[s])
      <4>1. got[s] < told[s] => got[s] + 1 \in (got[s] + 1) .. told[s]
        BY ONLY <3>6
      <4> QED  BY <3>4, <3>5, <4>1, SMTT(30)
    <3> QED  BY ONLY <3>4, <3>6, <3>7
  <2> QED  BY <2>2, <2>3, <2>6, <2>7
<1> QED  BY <1>1, ChannelInv, PTL

\* NoLostWakeup: a parked consumer with something to receive is woken, or a signal
\* that will reach it is under way.
THEOREM ChannelNoLostWakeup == Spec => []NoLostWakeup
<1>1. Inv => NoLostWakeup
  <2> SUFFICES ASSUME Inv, cpc = "parked", queue # <<>> \/ senders = 0
               PROVE  \/ WakeComing(recv, C)
                      \/ recv.armed /\ \E s \in Senders : pc[s] \in {"signal", "last_signal"}
    BY Zenon DEF NoLostWakeup
  <2>1. WakeInv
    BY Zenon DEF Inv
  <2>2. Asleep /\ Looked /\ Expecting
    BY DEF Asleep, Looked, Expecting
  <2>3. Reachable /\ Due
    BY <2>1, <2>2, Zenon DEF WakeInv
  <2> QED  BY <2>3, Zenon DEF Reachable, Due, Signalling
<1> QED  BY <1>1, ChannelInv, PTL

\* NoStrandedSender: senders are parked beside an empty queue only while one of them is
\* on its way, and the receiver's drop wakes them all.
THEOREM ChannelNoStrandedSender == Spec => []NoStrandedSender
<1>1. Inv => NoStrandedSender
  <2> SUFFICES ASSUME Inv PROVE NoStrandedSender
    OBVIOUS
  <2>1. FlowInv /\ WaitInv /\ HeirInv
    BY Zenon DEF Inv
  <2>2. ASSUME ~closed, waiting # <<>>, queue = <<>> PROVE \E s \in Senders : Heir(s)
    <3>1. PICK s \in Senders : pc[s] \in {"repoll_waiter", "check", "push", "park"} \/ s \in selected
      BY <2>1, <2>2, Zenon DEF HeirInv
    <3>2. ASSUME s \in selected PROVE Heir(s)
      <4>1. pc[s] \in {"parked", "repoll_waiter", "cancel_waiter"}
        BY <2>1, <3>2, Zenon DEF WaitInv, WaitPoint
      <4>2. pc[s] = "parked" => s \in woken \/ \E p \in Procs : s \in towake[p]
        BY <2>1, <3>2, Zenon DEF WaitInv, Awake
      <4>3. pc[s] = "repoll_waiter" => pc[s] \in {"repoll_waiter", "check", "push", "park"}
        OBVIOUS
      <4> QED  BY <3>2, <4>1, <4>2, <4>3, Zenon DEF Heir
    <3> QED  BY <3>1, <3>2, Zenon DEF Heir
  <2>3. ASSUME cpc = "gone", NEW s \in Senders, pc[s] = "parked"
        PROVE  s \in woken \/ \E p \in Procs : s \in towake[p]
    <3>1. Cleared
      BY <2>1, <2>3 DEF FlowInv, Cleared
    <3> QED  BY <2>1, <2>3, <3>1, ZenonT(40) DEF WaitInv, Awake
  <2> QED  BY <2>2, <2>3, Zenon DEF NoStrandedSender
<1> QED  BY <1>1, ChannelInv, PTL

\* GlobalFifo: items join at the end, whichever sender they come from, and leave at the
\* front.
THEOREM ChannelFifo == Spec => GlobalFifo
<1>1. Inv /\ [Next]_vars => [\/ closed'
                             \/ Contents' = SubSeq(Contents, 2, Len(Contents))
                             \/ SubSeq(Contents', 1, Len(Contents)) = Contents]_vars
  BY FifoStep, Zenon DEF Inv
<1> QED  BY <1>1, ChannelInv, PTL DEF Spec, GlobalFifo
=============================================================================
