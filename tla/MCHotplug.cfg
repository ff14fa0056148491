SPECIFICATION FairSpec
CONSTANTS
  c0 = c0
  c1 = c1
  u = u
  v = v
  k = k
  CPUs = {c0, c1}
  Pluggable = {c1}
  Tasks = {u, v, k}
  Kind <- MCKind
  Mask <- MCMask
  Idle = Idle
  Stop = Stop
  Cpuhp = Cpuhp
  NULL = NULL
  Busy = TRUE
  Splices = 1
  MaxPins = 1
  MaxDowns = 1
INVARIANT Vacated
PROPERTY DownEnds
