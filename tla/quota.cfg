SPECIFICATION Spec
CONSTANTS
  Handlers = {h1, h2}
  NoHandler = NoHandler
  MaxRequests = 2
  WindowSecs = 2
  MaxTime = 5
  MaxSetBacks = 2
SYMMETRY HandlerSymmetry
INVARIANTS QuotaInv QuotaBound
PROPERTY ImplementsQuota
