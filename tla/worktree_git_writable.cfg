SPECIFICATION Spec
CONSTANTS
  NoPath = NoPath
  MaxMounts = 1
  MaxLinks = 2
  Home <- MCHome
  Config <- MCConfig
  Runtime <- MCRuntime
  Project <- MCProject
  Dirs <- MCDirs
  Files <- MCFiles
  Sockets <- MCSockets
  Layouts <- MCLayouts
  Written <- MCWritten
  WrittenSockets <- MCWrittenSockets
  Allowlists <- MCAllowlists
  Targets <- MCTargets
INVARIANT GitNeverWritable
