CONSTANTS
  Tasks = {t1, t2}
  CPUs = {c1, c2}
  Idle = Idle
  Wakers = {"normal"}
SPECIFICATION Spec
SYMMETRY Symmetry
INVARIANTS WakeListSound WakeupInFlight CountersExact ReleasedOnce
CHECK_DEADLOCK FALSE
