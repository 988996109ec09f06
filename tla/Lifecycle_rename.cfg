SPECIFICATION Spec
CONSTANTS
  Ops <- TwoOps
  Kinds <- OpKinds
  MaxInFlight = 1
  MaxFaults = 1
  Fallible <- OnlyRename
  Main = Main
  K0 = K0
  Master = Master
  NoKey = NoKey
  o1 = o1
  o2 = o2
  o3 = o3
INVARIANT RestoredOrReplaced
CHECK_DEADLOCK FALSE
