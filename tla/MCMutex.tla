------------------------------- MODULE MCMutex -------------------------------
(* Mutex for TLC.  No symmetry: the run also checks liveness. *)
EXTENDS Mutex
=============================================================================
