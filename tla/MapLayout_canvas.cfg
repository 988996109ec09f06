SPECIFICATION MapSpec
CONSTANTS
  Width = 110000
  GroupSizes = {1, 2}
  Refusals = {3}
  MaxParts = 4
INVARIANT RibbonsOnCanvas
CHECK_DEADLOCK FALSE
