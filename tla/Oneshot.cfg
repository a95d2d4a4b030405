SPECIFICATION MCSpec
CONSTANT Generations = 3
INVARIANTS TypeOK ValueMovedOnce PlainStoresLoseNothing NoLostWakeup
           ThreeBuffers TakesEveryPublication
PROPERTIES ParkedResolves TripleParkedIsServed
