------------------------------- MODULE MCNotify -------------------------------
(* Notify with two wakers (a future that moves between tasks) and two          *)
(* signallers (two threads in signal() on the same slot at once).              *)
EXTENDS Notify
=============================================================================
