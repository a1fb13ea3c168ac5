SPECIFICATION FairSpec
CONSTANTS
  c1 = c1
  c2 = c2
  Consoles <- MCConsoles
  Program <- MCProgram
  Job <- MCJobs
  Ignoring = {}
  Commands <- MCSessions
  FdLimit = 4
  StackLimit = 1
  HardTime = 2
  ForkFaults = FALSE
  Kills = FALSE
PROPERTY
  AuthenticatedGetsPrompt
CHECK_DEADLOCK FALSE
