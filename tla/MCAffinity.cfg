CONSTANTS
  CPUs = {c1, c2}
  Callers = {p, q1}
  Self = p
  NULL = NULL
  Nesting = 2
SPECIFICATION FairSpec
INVARIANTS StopWorkStable StopWorkOnce RequestAlive
PROPERTIES PinnedStays CallersReturn
