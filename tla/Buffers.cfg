SPECIFICATION Spec
CONSTANTS
  Items = {a, b, c, d}
  Sizes = {0, 1, 2, 3}
  Capacity = 3
  Requests = {1, 3}
  Overlap = FALSE
INVARIANTS RingIsConsistent GrantsAreExclusive BipNoLostWakeup NoStandoff
PROPERTY ImplementsDeque
