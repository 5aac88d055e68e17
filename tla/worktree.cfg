SPECIFICATION SessionSpec
CONSTANTS
  Runs = {r1, r2}
  NoUrl = NoUrl
  UserUrl = UserUrl
  Faults = TRUE
  None = None
  NoneValue = None
  Setups <- MCSetups
  Lower <- MCLower
SYMMETRY RunSymmetry
INVARIANTS RemoteInv Hardened NoStaleRemote SessionInv CommandInClone SessionAsMeant ExtPolicySound
PROPERTIES UserRemoteKept FetchedKept
