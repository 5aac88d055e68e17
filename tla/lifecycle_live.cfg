SPECIFICATION FairSpec
CONSTANTS
  Runs = {r1}
  Names = {n1}
  NoRun = NoRun
  NRules = 2
  NDevices = 2
  MaxAttempts = 2
  Kills = TRUE
  Vanish = "any"
INVARIANTS NicIsConfined LeakInv
PROPERTIES LaunchSettles UnwindEnds
