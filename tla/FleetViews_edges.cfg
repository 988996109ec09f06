SPECIFICATION ViewSpec
CONSTANTS
  Sites = {s1, s2}
  Remote = {s2}
  Boxes = {i1}
  MaxMoves = 2
INVARIANT NoDanglingEdge
CHECK_DEADLOCK FALSE
