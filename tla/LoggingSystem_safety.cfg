SPECIFICATION Spec
CONSTANTS
  c1 = c1
  Instances = {s1, s2}
  MknodFaults = FALSE
  Background = {s2}
  Consoles <- MCCcli
  Program <- MCProgram
  Job <- MCJobs
  Ignoring = {}
  Commands <- MCTimed
  FdLimit = 4
  StackLimit = 2
  HardTime = 1
  ForkFaults = TRUE
  Kills = FALSE
INVARIANTS
  TypeOK
  OneClaimPerBoot
  AtMostOneServing
  CcliConnectsAfterClaim
PROPERTIES
  NoTruncationWhileServing
  LockSpec
CHECK_DEADLOCK FALSE
