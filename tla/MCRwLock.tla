------------------------------- MODULE MCRwLock -------------------------------
(* RwLock for TLC. *)
EXTENDS RwLock
=============================================================================
