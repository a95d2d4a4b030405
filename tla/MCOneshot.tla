------------------------------ MODULE MCOneshot ------------------------------
(***************************************************************************)
(* The two structures that hand one value, or one buffer, from one side to *)
(* the other: the whole state space of Oneshot, which has no constants to  *)
(* bound, and TripleBuffer.  They share no state; a behaviour drives one   *)
(* of them and leaves the other new, where no step of it is fair.          *)
(***************************************************************************)
EXTENDS Oneshot, TripleBuffer

VARIABLE part   \* the structure this behaviour drives

allVars == <<part, vars, tVars>>

MCInit == Init /\ TInit /\ part \in {"oneshot", "triple"}

OneshotStep == part = "oneshot" /\ Next /\ UNCHANGED <<part, tVars>>
TripleStep == part = "triple" /\ TNext /\ UNCHANGED <<part, vars>>

\* Both handles are gone: the only states in which nothing more can happen.
Finished ==
  /\ \/ spc = "gone" /\ rpc = "gone"
     \/ wstep = "gone" /\ rstep = "gone"
  /\ UNCHANGED allVars

MCNext == OneshotStep \/ TripleStep \/ Finished

MCSpec == MCInit /\ [][MCNext]_allVars /\ Fairness /\ TFairness
=============================================================================
