SPECIFICATION OverlapSpec
CONSTANTS
  Ops <- ThreeOps
  Kinds <- Overlapping
  MaxInFlight = 3
  MaxFaults = 1
  Fallible <- AllCalls
  Main = Main
  K0 = K0
  Master = Master
  NoKey = NoKey
  o1 = o1
  o2 = o2
  o3 = o3
SYMMETRY SymmetryThree
INVARIANT InstanceKept
CHECK_DEADLOCK FALSE
