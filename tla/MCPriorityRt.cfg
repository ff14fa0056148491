CONSTANTS
  Tasks = {t1, t2}
  CPUs = {c1, c2}
  None = None
  Init_task = t1
  NicePrios = {}
  Increments = {}
  FixedPrios = {}
  Resets = {TRUE}
  RtPrios = {50}
  DonorPrios = {60}
SPECIFICATION Spec
SYMMETRY Symmetry
INVARIANTS LoadInStep BoostKept
CHECK_DEADLOCK FALSE
