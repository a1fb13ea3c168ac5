SPECIFICATION Spec
CONSTANTS
  c1 = c1
  c2 = c2
  Consoles <- MCConsoles
  Program <- MCProgram
  Job <- MCOneJob
  Ignoring = {c1}
  Commands <- MCCommands
  FdLimit = 5
  StackLimit = 2
  HardTime = 2
  ForkFaults = TRUE
  Kills = TRUE
INVARIANTS
  TypeOK
  NoSessionLeftBehind
  RetryBudget
CHECK_DEADLOCK FALSE
