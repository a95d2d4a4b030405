-------------------------------- MODULE MCPool --------------------------------
(* Pool for TLC; futures and buffers are interchangeable. *)
EXTENDS Pool, TLC

MCNeed == [f \in Futures |-> 1]

Symmetry == Permutations(Futures) \cup Permutations(Buffers)
=============================================================================
