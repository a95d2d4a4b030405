-------------------------------- MODULE Deque --------------------------------
(***************************************************************************)
(* What a double-ended queue promises, whatever it is stored in: a         *)
(* sequence, and for each call what the caller gets and what is destroyed. *)
(* Queue is checked to implement this module.                              *)
(***************************************************************************)
EXTENDS Sublists

CONSTANT Items

VARIABLES seq,   \* the elements, front first
          call,  \* the last call
          out,   \* the elements that call removed, in order
          seen   \* the elements it showed by reference, in order

vars == <<seq, call, out, seen>>

Init == seq = <<>> /\ call = "new" /\ out = <<>> /\ seen = <<>>

Inside == Range(seq)
Outside == Items \ Inside

Answer(c, o, s) == call' = c /\ out' = o /\ seen' = s

PushBack ==
  /\ Answer("push_back", <<>>, <<>>)
  /\ \E x \in Outside : seq' = Append(seq, x)

PushFront ==
  /\ Answer("push_front", <<>>, <<>>)
  /\ \E x \in Outside : seq' = <<x>> \o seq

Extend ==
  /\ Answer("extend", <<>>, <<>>)
  /\ \E x, y \in Outside : x # y /\ seq' = seq \o <<x, y>>

\* A pop of the empty deque answers None.
PopNone(c) == seq = <<>> /\ Answer(c, <<>>, <<>>) /\ UNCHANGED seq

PopFront ==
  /\ seq # <<>> /\ Answer("pop_front", <<Head(seq)>>, <<>>)
  /\ seq' = Tail(seq)

PopBack ==
  /\ seq # <<>> /\ Answer("pop_back", <<seq[Len(seq)]>>, <<>>)
  /\ seq' = SubSeq(seq, 1, Len(seq) - 1)

\* Everything leaves, front first.
Drain(c) == Answer(c, seq, <<>>) /\ seq' = <<>>

\* The elements of S leave in order, the others stay in order.
Remove(c, S) ==
  /\ Answer(c, Those(seq, S), <<>>)
  /\ seq' = Those(seq, Inside \ S)

\* The predicate panics on the k-th element: that one and all behind it are lost
\* with the ones of S before it.
RetainPanic(k, S) ==
  Remove("retain panics", {seq[j] : j \in {i \in DOMAIN seq : i >= k \/ seq[i] \in S}})

\* A destructor panics on the k-th element: the ones behind it stay.
ClearPanic(k) ==
  /\ Answer("clear panics", SubSeq(seq, 1, k), <<>>)
  /\ seq' = SubSeq(seq, k + 1, Len(seq))

Swap(i, j) ==
  /\ Answer("swap", <<>>, <<>>)
  /\ seq' = [seq EXCEPT ![i] = seq[j], ![j] = seq[i]]

\* iter_mut replaces the k-th element.
Replace(k) ==
  /\ Answer("iter_mut", <<seq[k]>>, seq)
  /\ \E x \in Outside : seq' = [seq EXCEPT ![k] = x]

\* iter and make_contiguous show all elements in order.
Look(c) == Answer(c, <<>>, seq) /\ UNCHANGED seq

\* reserve, clone and conversions move the elements and change nothing.
Move(c) == Answer(c, <<>>, <<>>) /\ UNCHANGED seq

Calls ==
  {"drop", "push_back", "push_front", "extend", "pop_front", "pop_back", "into_vec", "into_iter", "clear",
   "retain", "take_where", "retain panics", "clear panics", "iter_mut", "swap", "iter",
   "make_contiguous", "reserve", "clone", "collect"}

Next ==
  /\ call' \in Calls
  /\ \/ PushBack \/ PushFront \/ Extend \/ PopFront \/ PopBack
     \/ \E c \in {"pop_front", "pop_back"} : PopNone(c)
     \/ \E c \in {"into_vec", "into_iter", "clear", "drop"} : Drain(c)
     \/ \E c \in {"retain", "take_where"}, S \in SUBSET Inside : Remove(c, S)
     \/ \E k \in DOMAIN seq :
          \/ \E S \in SUBSET Inside : RetainPanic(k, S)
          \/ ClearPanic(k) \/ Replace(k)
          \/ \E j \in DOMAIN seq : Swap(k, j)
     \/ \E c \in {"iter", "make_contiguous"} : Look(c)
     \/ \E c \in {"reserve", "clone", "collect"} : Move(c)

Spec == Init /\ [][Next]_vars
=============================================================================
