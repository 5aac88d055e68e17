SPECIFICATION FairSpec
CONSTANTS
  Names = {a, b, c, slash}
  Valid = {a, b, c}
  NoProfile = NoProfile
  ByDirectory = ByDirectory
  Entries = {e1, e2}
  NoEntry = NoEntry
  MaxDepth = 2
CHECK_DEADLOCK FALSE
INVARIANTS SelectsDeepest MergesLineage ChildWins ChainInv
PROPERTIES RefusesOnlyUnsound LoadingEnds
