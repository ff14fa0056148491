CONSTANTS
  Tasks = {t1}
  CPUs = {c1, c2}
  Idle = Idle
  Wakers = {"normal", "signal"}
SPECIFICATION FairSpec
INVARIANTS IndInv
PROPERTIES ImplementsTaskLife BlockedIsWoken
CHECK_DEADLOCK FALSE
