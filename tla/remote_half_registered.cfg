SPECIFICATION Spec
CONSTANTS
  Runs = {r1}
  NoUrl = NoUrl
  UserUrl = UserUrl
  Faults = TRUE
INVARIANT RemovedOnExit
