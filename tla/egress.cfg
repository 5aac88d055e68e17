SPECIFICATION FairEgressSpec
CONSTANTS
  Deadline = 1
  None = None
  NoneValue = None
  Width <- MCWidth
  Lower <- MCLower
  Escapes <- MCEscapes
  WithColon <- MCWithColon
  Bracketed <- MCBracketed
  Setups <- MCSetups
  Request <- MCRequest
  Packet <- MCPacket
  Query <- MCQuery
INVARIANTS StopIsNoticed PolicyInv OnlyConfiguredEgress SecretsToTheirRule
  NoSecondChance RefusesOnlyDead ServedIsInstance
PROPERTY SetupEnds
