SPECIFICATION PoolSpec
CONSTANTS
  Futures = {f1, f2, f3, f4}
  Buffers = {b1, b2}
  Need <- MCNeed
  Initial = 2
  MaxPermits = 2
  WakerChanges = TRUE
INVARIANTS PermitImpliesBuffer BuffersConserved
SYMMETRY Symmetry
