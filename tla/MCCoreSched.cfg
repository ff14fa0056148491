SPECIFICATION Spec
CONSTANTS
  c1 = c1
  c2 = c2
  t1 = t1
  t2 = t2
  t3 = t3
  CPUs = {c1, c2}
  Tasks = {t1, t2, t3}
  Cookies = {a, b}
  a = a
  b = b
  FirstLeader = c1
  Pluggable = {c1}
  Idle = Idle
  NULL = NULL
  Prio <- MCPrio
  MaxEnables = 1
SYMMETRY MCSymmetry
INVARIANTS CookieExclusion PickValid LeaderAgreed HeldIsEnabled CoreNotStalled
