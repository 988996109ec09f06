\* One remote host with three attempts to listen to it that may overlap; three
\* operations on one instance, one at a time; three creations at once against a
\* cap of one, where any call may fail and the manager may die.
SPECIFICATION MCSpec
CONSTANTS
  o1 = o1
  o2 = o2
  o3 = o3
  i1 = i1
  i2 = i2
  i3 = i3
  i4 = i4
  Ops <- ThreeOps
  Kinds <- OpKinds
  MaxInFlight = 1
  MaxFaults = 1
  Fallible <- Undone
  Main = Main
  K0 = K0
  Master = Master
  NoKey = NoKey
  Ids <- FourIds
  MaxInstances = 1
  AtOnce = 3
  MaxFailures = 2
  MayFail <- AnyCall
  Hosts = {h1}
  Local = h2
  Addrs = {a1, a2}
  Tries = {t1, t2, t3}
  None = None
  Connecting = Connecting
  BackoffCap = 2
  MaxCuts = 1
INVARIANT NoOrphanStream
INVARIANT ListensOnlyWhereAllowed
INVARIANT SentinelHasAttempt
INVARIANT RestoredOrReplaced
INVARIANT RemoveLeavesNothing
INVARIANT RecordComplete
INVARIANT UndoneLeavesNothing
INVARIANT Overrun
PROPERTY WatchSpec
PROPERTY EventuallyWatched
PROPERTY AtomicSpec
CHECK_DEADLOCK FALSE
