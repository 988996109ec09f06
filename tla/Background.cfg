SPECIFICATION FairSpec
CONSTANTS
  Ticks = {t1, t2}
  IdleWindow = 2
  SaveTimeout = 1
  MaxFailures = 1
  Sweeps = {s1, s2}
  Calls = {c1}
  Requests = {r1}
  DayLen = 2
  Life = 2
  Tasks = {j1, j2}
  NewestNpm = 2
  MaxCritical = 2
  MaxTroubles = 1
  Checks = {c3, c4}
  MaxHiccups = 1
  Hosts = {h1, h2}
  Local = h1
  Daemons = {d1, d2}
  Insts = {i1, i2}
  None = None
  MaxChanges = 2
  Users = {u1, u2}
  Lines = {l1, l2}
  Ttl = 1
  Latency = 1
  Nobody = Nobody
  Unasked = Unasked
  Clients = {g1, g2}
  Ips = {a1, a2}
  Domains = {w1, w2}
  Base = {w1}
  AllHosts = AllHosts
  Nil = Nil
  Writers = {p1}
  Overlap = FALSE
  MaxMoves = 4
INVARIANT TypeOK
INVARIANT AsksOnce
INVARIANT StopsOnlyIdle
INVARIANT OpenTerminalSpares
INVARIANT ResolvedOnce
INVARIANT OneJob
INVARIANT RecentHolder
INVARIANT AclExact
PROPERTY ReapedOnEvidence
PROPERTY SweptOnlyExpired
PROPERTY TroubleShows
PROPERTY PendingEnds
PROPERTY ExpiredIsSwept
PROPERTY Converges
CHECK_DEADLOCK FALSE
