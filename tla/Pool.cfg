CONSTANTS
  Buffers = {b1, b2, b3}
  Addr = {a1, a2, a3, a4, a5}
  Null = Null
  Sizes = {60, 64, 1100}
  Class <- RoundedClass
  Keep = 2
  Exact = FALSE
  MaxStep = 5
SPECIFICATION Spec
SYMMETRY PoolSymmetry
INVARIANTS NoSharing BigEnough TrimComplete Accounted
CHECK_DEADLOCK FALSE
