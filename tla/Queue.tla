-------------------------------- MODULE Queue --------------------------------
(***************************************************************************)
(* src/site_c/queue.rs: the queue the site_c primitives keep their waiters *)
(* in, a ring of n inline slots that spills to a heap deque when it        *)
(* overflows.  A queue is a record:                                        *)
(*   n           the const parameter N of its type;                        *)
(*   inline      which variant of QueueInternal it is;                     *)
(*   buf, head, tail, len   the ring, meaningful while inline: a slot read *)
(*                          with assume_init_read keeps its stale bits;    *)
(*   heap        the VecDeque, a sequence.                                 *)
(* A call is one step, its loops included; destructors and predicates that *)
(* panic in the middle of a call are steps of their own.                   *)
(***************************************************************************)
EXTENDS Sublists

CONSTANTS Items,   \* the elements
          Sizes    \* the inline sizes N to consider

NoItem == "uninit"

ASSUME QueueAssumption == Sizes \subseteq Nat /\ NoItem \notin Items

VARIABLES q,          \* the queue
          call,       \* the last call made on it
          out, seen   \* the elements that call removed, and showed by reference

qVars == <<q, call, out, seen>>

\* The ring variant with no element.
Ring(n) ==
  [n |-> n, inline |-> TRUE, buf |-> [i \in 0 .. n - 1 |-> NoItem],
   head |-> 0, tail |-> 0, len |-> 0, heap |-> <<>>]

OnHeap(n, s) == [Ring(n) EXCEPT !.inline = FALSE, !.heap = s]

\* with_capacity
WithCapacity(n, capacity) == IF capacity <= n THEN Ring(n) ELSE OnHeap(n, <<>>)

\* The step of a cursor around the ring.
Up(n, i) == IF i + 1 = n THEN 0 ELSE i + 1
Down(n, i) == IF i = 0 THEN n - 1 ELSE i - 1

\* A slip: the cursor stops at the end of the ring.
Walk_NoWrap(r) == [k \in 1 .. r.len |-> IF r.head + k <= r.n THEN r.head + k - 1 ELSE r.n - 1]

\* The slots a cursor visits that starts at head and takes len steps, as the loops
\* of the spills, of into_vec, make_contiguous and drop and both iterators do.
Walk(r) ==
  LET at[k \in 1 .. r.len] == IF k = 1 THEN r.head ELSE Up(r.n, at[k - 1])
  IN  at

\* iter: what it yields, front first.
Iter(r) == IF r.inline THEN [k \in 1 .. r.len |-> r.buf[Walk(r)[k]]] ELSE r.heap

\* len
Length(r) == IF r.inline THEN r.len ELSE Len(r.heap)

PushBack(r, x) ==
  IF ~r.inline THEN [r EXCEPT !.heap = Append(@, x)]
  ELSE IF r.len < r.n
       THEN [r EXCEPT !.buf[r.tail] = x, !.tail = Up(r.n, @), !.len = @ + 1]
       ELSE OnHeap(r.n, Append(Iter(r), x))

PushFront(r, x) ==
  IF ~r.inline THEN [r EXCEPT !.heap = <<x>> \o @]
  ELSE IF r.len < r.n
       THEN LET h == Down(r.n, r.head)
            IN  [r EXCEPT !.buf[h] = x, !.head = h, !.len = @ + 1]
       ELSE OnHeap(r.n, <<x>> \o Iter(r))

\* extend, and every other loop of push_back.
PushAll(r, s) ==
  LET after[i \in 0 .. Len(s)] == IF i = 0 THEN r ELSE PushBack(after[i - 1], s[i])
  IN  after[Len(s)]

\* into_vec leaves the variant as it is.
Emptied(r) ==
  IF r.inline THEN [r EXCEPT !.head = 0, !.tail = 0, !.len = 0]
              ELSE [r EXCEPT !.heap = <<>>]

-----------------------------------------------------------------------------
(* The calls. *)

QInit ==
  /\ \E n \in Sizes : q \in {Ring(n), WithCapacity(n, n + 1)}
  /\ call = "new" /\ out = <<>> /\ seen = <<>>

Inside == Range(Iter(q))
Outside == Items \ Inside

Returns(c, o, s) == call' = c /\ out' = o /\ seen' = s

CallPushBack(x) == q' = PushBack(q, x) /\ Returns("push_back", <<>>, <<>>)

CallPushFront(x) == q' = PushFront(q, x) /\ Returns("push_front", <<>>, <<>>)

CallExtend(x, y) == q' = PushAll(q, <<x, y>>) /\ Returns("extend", <<>>, <<>>)

CallPopFront ==
  \/ /\ Length(q) = 0 /\ UNCHANGED q /\ Returns("pop_front", <<>>, <<>>)
  \/ /\ q.inline /\ q.len > 0
     /\ q' = [q EXCEPT !.head = Up(q.n, @), !.len = @ - 1]
     /\ Returns("pop_front", <<q.buf[q.head]>>, <<>>)
  \/ /\ ~q.inline /\ q.heap # <<>>
     /\ q' = [q EXCEPT !.heap = Tail(@)]
     /\ Returns("pop_front", <<Head(q.heap)>>, <<>>)

CallPopBack ==
  \/ /\ Length(q) = 0 /\ UNCHANGED q /\ Returns("pop_back", <<>>, <<>>)
  \/ /\ q.inline /\ q.len > 0
     /\ q' = [q EXCEPT !.tail = Down(q.n, @), !.len = @ - 1]
     /\ Returns("pop_back", <<q.buf[Down(q.n, q.tail)]>>, <<>>)
  \/ /\ ~q.inline /\ q.heap # <<>>
     /\ q' = [q EXCEPT !.heap = SubSeq(@, 1, Len(@) - 1)]
     /\ Returns("pop_back", <<q.heap[Len(q.heap)]>>, <<>>)

CallIntoVec == q' = Emptied(q) /\ Returns("into_vec", Iter(q), <<>>)

\* retain and take_where: drain, then push the survivors back one by one.
CallRemove(c, S) ==
  /\ q' = PushAll(Emptied(q), Those(Iter(q), Inside \ S))
  /\ Returns(c, Those(Iter(q), S), <<>>)

\* The predicate of retain panics on the k-th element: the drained Vec is dropped.
CallRetainPanics(k, S) ==
  LET kept == Those(SubSeq(Iter(q), 1, k - 1), Inside \ S)
  IN  /\ q' = PushAll(Emptied(q), kept)
      /\ Returns("retain panics", Those(Iter(q), Inside \ Range(kept)), <<>>)

CallClear ==
  /\ q' = Emptied(q) /\ Returns("clear", Iter(q), <<>>)

\* The destructor of the k-th element panics: the ring is already past it.
ClearPanics(k) ==
  /\ q.inline
  /\ q' = [q EXCEPT !.head = IF k = q.len THEN Up(q.n, Walk(q)[k]) ELSE Walk(q)[k + 1],
                    !.len = @ - k]
  /\ Returns("clear panics", SubSeq(Iter(q), 1, k), <<>>)

CallReserve(additional) ==
  /\ q' = IF q.inline /\ q.len + additional > q.n THEN OnHeap(q.n, Iter(q)) ELSE q
  /\ Returns("reserve", <<>>, <<>>)

\* A slip: tail is left one past the end when the ring is full.
Contiguous_TailAtEnd(r) ==
  IF r.len = 0 \/ r.head < r.tail THEN r
  ELSE [r EXCEPT !.buf = [i \in DOMAIN @ |-> IF i < r.len THEN Iter(r)[i + 1] ELSE @[i]],
                 !.head = 0, !.tail = r.len]

\* make_contiguous on the ring.
Contiguous(r) ==
  IF r.len = 0 \/ r.head < r.tail THEN r
  ELSE [r EXCEPT !.buf = [i \in DOMAIN @ |-> IF i < r.len THEN Iter(r)[i + 1] ELSE @[i]],
                 !.head = 0, !.tail = IF r.len = r.n THEN 0 ELSE r.len]

\* The slice it returns is the len slots from head on.
CallMakeContiguous ==
  /\ q' = IF q.inline THEN Contiguous(q) ELSE q
  /\ Returns("make_contiguous", <<>>,
             IF q.inline THEN [k \in 1 .. q.len |-> q'.buf[q'.head + k - 1]] ELSE q.heap)

\* swap panics when an index is out of bounds and does nothing then.
CallSwap(a, b) ==
  /\ a < Length(q) /\ b < Length(q)
  /\ q' = IF q.inline
          THEN LET i == (q.head + a) % q.n  j == (q.head + b) % q.n
               IN  [q EXCEPT !.buf[i] = q.buf[j], !.buf[j] = q.buf[i]]
          ELSE [q EXCEPT !.heap[a + 1] = q.heap[b + 1], !.heap[b + 1] = q.heap[a + 1]]
  /\ Returns("swap", <<>>, <<>>)

CallIter == UNCHANGED q /\ Returns("iter", <<>>, Iter(q))

\* iter_mut visits every element; the caller writes x over the k-th.
CallIterMut(k, x) ==
  /\ q' = IF q.inline THEN [q EXCEPT !.buf[Walk(q)[k]] = x] ELSE [q EXCEPT !.heap[k] = x]
  /\ Returns("iter_mut", <<Iter(q)[k]>>, Iter(q))

\* The clone replaces the queue, which is dropped.
CallClone == q' = PushAll(Ring(q.n), Iter(q)) /\ Returns("clone", <<>>, <<>>)

\* The queue is consumed, its elements handed out by value; a new one is made.
CallIntoIter == q' = Ring(q.n) /\ Returns("into_iter", Iter(q), <<>>)

\* into_iter into from_iter, or the same through a Vec or a VecDeque.
CallCollect == q' = PushAll(Ring(q.n), Iter(q)) /\ Returns("collect", <<>>, <<>>)

\* The queue is dropped and a new one is made.
CallDrop(capacity) ==
  q' = WithCapacity(q.n, capacity) /\ Returns("drop", Iter(q), <<>>)

QNext ==
  \/ \E x \in Outside : CallPushBack(x) \/ CallPushFront(x)
  \/ \E x, y \in Outside : x # y /\ CallExtend(x, y)
  \/ CallPopFront \/ CallPopBack \/ CallIntoVec
  \/ \E c \in {"retain", "take_where"}, S \in SUBSET Inside : CallRemove(c, S)
  \/ \E k \in 1 .. Length(q) :
       \/ \E S \in SUBSET Inside : CallRetainPanics(k, S)
       \/ ClearPanics(k)
       \/ \E x \in Outside : CallIterMut(k, x)
  \/ CallClear \/ CallMakeContiguous \/ CallIter \/ CallClone \/ CallCollect
  \/ CallIntoIter
  \/ \E a, b \in 0 .. q.n : CallSwap(a, b)
  \/ \E c \in 0 .. 1 : CallReserve(q.n + c) \/ CallDrop(q.n + c)

QSpec == QInit /\ [][QNext]_qVars

-----------------------------------------------------------------------------
(* Properties. *)

\* The queues of inline size n.
Queues(n) ==
  [n : {n}, inline : BOOLEAN, buf : [0 .. n - 1 -> Items \cup {NoItem}],
   head : {0} \cup 0 .. n - 1, tail : {0} \cup 0 .. n - 1, len : 0 .. n,
   heap : Seq(Items)]

QTypeOK ==
  /\ q.n \in Sizes /\ q \in Queues(q.n)
  /\ out \in Seq(Items) /\ seen \in Seq(Items)

\* After every call, one ended by a panic too, "`head`/`len`/`tail` stay mutually
\* consistent", every slot they count is initialised, and no element the last call
\* handed out or destroyed is still counted, nor one counted twice.
RingIsConsistent ==
  /\ QTypeOK
  /\ q.inline /\ q.n > 0 => q.tail = (q.head + q.len) % q.n
  /\ \A i, j \in DOMAIN Iter(q) : Iter(q)[i] = Iter(q)[j] => i = j
  /\ Inside \subseteq Items \ Range(out)

\* The elements by index arithmetic, not by the cursor the loops use.
Elements(r) ==
  IF r.inline THEN [k \in 1 .. r.len |-> r.buf[(r.head + k - 1) % r.n]] ELSE r.heap

AsDeque == INSTANCE Deque WITH seq <- Elements(q)

\* Whatever mix of calls, wraps, spills and panics led here, the queue behaves as a
\* plain sequence: each call answers, destroys and shows what it would there.
ImplementsDeque == AsDeque!Spec
=============================================================================
