\* Two creations of one name on one host.
SPECIFICATION MountSpec
CONSTANTS
  Ctrs = {k1, k2}
  Alike = {k1, k2}
  Makers = {n1}
  Far = far
  Roots = {"r1"}
  MaxEvents = 1
  Nothing = Nothing
INVARIANT MemoryIsolated
CHECK_DEADLOCK FALSE
