SPECIFICATION Spec
CONSTANTS
  Runs = {r1, r2}
  NoUrl = NoUrl
  UserUrl = UserUrl
  Faults = FALSE
PROPERTY RemovesOnlyOwn
