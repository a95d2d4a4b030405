------------------------------ MODULE MCBuffers ------------------------------
(***************************************************************************)
(* The two structures that give out places in storage they wrap around in: *)
(* Queue and BipBuffer.  They share no state; a behaviour drives one of    *)
(* them and leaves the other new.                                          *)
(***************************************************************************)
EXTENDS Queue, BipBuffer

VARIABLE part   \* the structure this behaviour drives

Init ==
  /\ QInit /\ BInit
  /\ \/ part = "queue"
     \/ part = "bip" /\ q = Ring(0)

QueueStep == part = "queue" /\ QNext /\ UNCHANGED <<part, bVars>>
BipStep == part = "bip" /\ BNext /\ UNCHANGED <<part, qVars>>

Spec == Init /\ [][QueueStep \/ BipStep]_<<part, qVars, bVars>>
=============================================================================
