SPECIFICATION FairSpec
CONSTANTS
  Mounts = {m1, m2}
  Links = {l1, l2}
  MaxDelay = 1
  MaxFaults = 1
  NoLink = NoLink
  Browsers = {b1, b2}
  Fetches = {f1, f2}
  MaxVersion = 1
  MaxLosses = 1
  Sites = {s1, s2}
  Remote = {s2}
  Boxes = {i1, i2}
  MaxMoves = 3
  Ids = {i3, i4}
  MaxMade = 3
  NoId = NoId
  MaxEdits = 2
  NoModel = NoModel
  Width = 110000
  GroupSizes = {1, 20}
  Refusals = {3}
  MaxParts = 2
  Ctrs = {k1, k2}
  Alike = {k1, k2}
  Makers = {n1}
  Far = far
  Roots = {"r1"}
  MaxEvents = 2
  Nothing = Nothing
INVARIANT TypeOK
INVARIANT OneSocketPerTab
INVARIANT AdminRemains
INVARIANT ViewsAgree
INVARIANT MapsRight
INVARIANT ActsOnTheShown
INVARIANT RecreatedAsCreated
INVARIANT KeyWithinBackend
INVARIANT MountsItsOwn
INVARIANT BehindIsPending
PROPERTY DeadSessionsGo
PROPERTY TabsRest
PROPERTY CatchesUp
CHECK_DEADLOCK FALSE
