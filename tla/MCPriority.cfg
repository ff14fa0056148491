CONSTANTS
  Tasks = {t1, t2}
  CPUs = {c1, c2}
  None = None
  Init_task = t1
  NicePrios = {100}
  Increments = {20}
  FixedPrios = {100, 139}
  Resets = {FALSE}
  RtPrios = {}
  DonorPrios = {}
SPECIFICATION Spec
SYMMETRY Symmetry
INVARIANTS FixedUnlessReniced LoadInStep
CHECK_DEADLOCK FALSE
