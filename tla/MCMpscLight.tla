----------------------------- MODULE MCMpscLight -----------------------------
(* MpscLight for TLC. *)
EXTENDS MpscLight

CONSTANTS s1, s2

MCSenders == {s1, s2}
MCQuota == [s \in MCSenders |-> IF s = s1 THEN 3 ELSE 1]
=============================================================================
