SPECIFICATION FairSpec
CONSTANTS
  c1 = c1
  c2 = c2
  Consoles <- MCConsoles
  Program <- MCProgram
  Job <- MCOneJob
  Ignoring = {}
  Commands <- MCSessions
  FdLimit = 7
  StackLimit = 2
  HardTime = 1
  ForkFaults = FALSE
  Kills = FALSE
INVARIANT
  NoSessionLeftBehind
PROPERTIES
  ConnectsInTime
  TimedSessionEnds
CHECK_DEADLOCK FALSE
