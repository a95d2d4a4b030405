SPECIFICATION FairSpec
CONSTANTS
  Wakers = {w1, w2}
  Signallers = {s1, s2}
INVARIANTS CellExclusive NoLostWakeup
PROPERTIES ImplementsAtomicSlot ImplementsAtomicFlag ParkedIsServed
