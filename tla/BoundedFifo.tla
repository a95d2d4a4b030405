----------------------------- MODULE BoundedFifo -----------------------------
(***************************************************************************)
(* What a bounded single-producer single-consumer queue promises: the      *)
(* items of the producer's call enter in order, never more than Cap of     *)
(* them at a time, and reach the consumer in the same order, each          *)
(* exactly once.  RingBuf is checked to implement this module.             *)
(***************************************************************************)
EXTENDS Naturals, Sequences

CONSTANTS Cap, Items

VARIABLES src,   \* what the producer's call has still to push
          q,     \* what is in the queue
          out    \* the last batch handed to the consumer, until it looks away

vars == <<src, q, out>>

From(s, n) == SubSeq(s, n + 1, Len(s))

Init == src = <<>> /\ q = <<>> /\ out = <<>>

\* The producer calls with new items; what an earlier call left is its caller's.
Offer ==
  /\ src' \in Seq(Items)
  /\ UNCHANGED <<q, out>>

\* The next n items of the call enter the queue at once.
Accept(n) ==
  /\ Len(q) + n <= Cap
  /\ q' = q \o SubSeq(src, 1, n) /\ src' = From(src, n)
  /\ UNCHANGED out

\* The consumer has its items.
Clear == out' = <<>> /\ UNCHANGED <<src, q>>

\* The n oldest items reach the consumer at once.
Take(n) ==
  /\ out' = SubSeq(q, 1, n) /\ q' = From(q, n)
  /\ UNCHANGED src

\* The queue is dropped with all that is in it, and a new one is made.
Drop == src' = <<>> /\ q' = <<>> /\ out' = <<>>

Next ==
  \/ Offer \/ Clear \/ Drop
  \/ \E n \in 1 .. Len(src) : Accept(n)
  \/ \E n \in 1 .. Len(q) : Take(n)

Spec == Init /\ [][Next]_vars
=============================================================================
