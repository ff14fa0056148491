SPECIFICATION Spec
CONSTANTS
  MaxTasks = 3
  MaxCalls = 4
  CloneFlags = {"VM", "FS", "SIGHAND", "THREAD", "NEWNS", "NEWUSER"}
  UnshareRequests <- MCUnshareRequests
INVARIANTS HandlersShareVm NamespacesAgree UsersExact
CHECK_DEADLOCK FALSE
