SPECIFICATION FairSpec
CONSTANTS
  c1 = c1
  c2 = c2
  Clients <- MCClients
  Asks <- MCAsks
  Fits <- MCFits
  ArgLength = 3
  MaxReplies = 3
  IoFaults = TRUE
INVARIANTS
  TypeOK
  RegisterNeverLogsIn
  GrantedByLastReply
PROPERTIES
  LoneSuccessIsSeen
CHECK_DEADLOCK FALSE
