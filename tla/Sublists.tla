------------------------------- MODULE Sublists -------------------------------
(***************************************************************************)
(* The part of a sequence that a predicate selects, as a loop over the     *)
(* sequence collects it.  The recursion is a function's, so that module    *)
(* WaiterStoreProofs can prove what it computes.                           *)
(***************************************************************************)
EXTENDS Naturals, Sequences

Range(s) == {s[k] : k \in DOMAIN s}

\* The elements of s that are in S, in their order.
Those(s, S) ==
  LET upTo[i \in 0 .. Len(s)] ==
        IF i = 0 THEN <<>>
        ELSE IF s[i] \in S THEN Append(upTo[i - 1], s[i])
        ELSE upTo[i - 1]
  IN  upTo[Len(s)]
=============================================================================
