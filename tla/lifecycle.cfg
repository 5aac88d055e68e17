SPECIFICATION Spec
CONSTANTS
  Runs = {r1, r2}
  Names = {n1}
  NoRun = NoRun
  NRules = 2
  NDevices = 1
  MaxAttempts = 1
  Kills = TRUE
  Vanish = "ended"
SYMMETRY Symmetry
INVARIANTS UpIsConfined NoLeak OwnerInv
PROPERTIES DeletesOnlyOwn ImplementsSandbox
