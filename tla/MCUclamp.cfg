CONSTANTS
  Tasks = {p, c}
  FirstTask = p
  a = a
  Groups = {root, a}
  Root = root
  Parent <- MCParent
  NULL = NULL
  Scale = 2
  Buckets = 2
  Sysctls <- MCSysctls
  Utils <- MCUtils
  Attrs <- MCAttrs
  Writes = 2
SPECIFICATION Spec
INVARIANTS RqClampExact RtDefaultSynced LimitsApply GroupAlive
