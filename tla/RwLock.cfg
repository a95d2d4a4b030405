SPECIFICATION Spec
CONSTANTS
  Readers = {r1, r2}
  Writers = {w1, w2}
  MaxDepth = 3
INVARIANTS GuardsExclude EntriesAreLive FreeLockHasHeir
