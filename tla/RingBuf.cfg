SPECIFICATION FairSpec
CONSTANTS
  Cap = 2
  Modulus = 4
  MaxSlice = 2
INVARIANTS CopiesAreExclusive NoLostWakeup CountSurvivesCancel
PROPERTIES ImplementsFifo ParkedIsServed
