----------------------------- MODULE MCSemaphore -----------------------------
(* Semaphore for TLC: one future asks for two permits, the others for one. *)
EXTENDS Semaphore

CONSTANTS f1, f2, f3

MCNeed == [f \in Futures |-> IF f = f1 THEN 2 ELSE 1]
=============================================================================
