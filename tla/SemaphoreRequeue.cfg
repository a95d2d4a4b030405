SPECIFICATION Spec
CONSTANTS
  f1 = f1
  f2 = f2
  f3 = f3
  Futures = {f1, f2, f3}
  Need <- MCNeed
  Initial = 1
  MaxPermits = 3
  WakerChanges = TRUE
INVARIANT SatisfiableFrontIsWoken
