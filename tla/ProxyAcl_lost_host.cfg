\* One instance, two tasks that overlap: an approval during a resync.
SPECIFICATION AclSpec
CONSTANTS
  Clients = {i1}
  Ips = {a1, a2}
  Domains = {h1, h2}
  Base = {h1}
  AllHosts = AllHosts
  Nil = Nil
  Writers = {t1, t2}
  Overlap = TRUE
  MaxMoves = 2
INVARIANT ApprovedReachable
CHECK_DEADLOCK FALSE
