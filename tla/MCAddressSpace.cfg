CONSTANTS
  Users = {u1, u2}
  Kthreads = {k1}
  CPUs = {c1, c2}
  MMs = {m1, m2}
  InitMm = InitMm
  None = None
SPECIFICATION Spec
SYMMETRY Symmetry
INVARIANTS UsersExact CountExact PageTablesLive CompletionAlive VforkCompleted
