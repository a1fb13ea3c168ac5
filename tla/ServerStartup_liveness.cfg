SPECIFICATION FairSpec
CONSTANTS
  Instances = {s1}
  MknodFaults = TRUE
  Background = {}
PROPERTY
  LauncherComesBack
CHECK_DEADLOCK FALSE
