\* The endpoint of a stream after a PATCH that overlapped an attempt.
SPECIFICATION StreamSpec
CONSTANTS
  Hosts = {h1}
  Local = h2
  Addrs = {a1, a2}
  Tries = {t1, t2}
  None = None
  Connecting = Connecting
  BackoffCap = 1
  MaxCuts = 0
INVARIANTS
  StreamAtCurrentEndpoint
