\* The sweep against the sentence of docs/architecture.md.
SPECIFICATION GrantSpec
CONSTANTS
  Sweeps = {s1, s2}
  Calls = {c1, c2}
  Requests = {r1}
  DayLen = 2
  Life = 2
PROPERTY EverySweepTakesExpired
CHECK_DEADLOCK FALSE
