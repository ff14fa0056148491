CONSTANTS
  Forkers = {t1, t2}
  MaxThreads = 3
  NprocLimit = 4
  Others = 1
  Events = {"signal", "sigkill", "seccomp"}
SPECIFICATION Spec
SYMMETRY Symmetry
INVARIANTS NoOverRelease NothingLeft SignalReachesChild FilterReachesThread ThreadsBounded
