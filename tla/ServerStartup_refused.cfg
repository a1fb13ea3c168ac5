SPECIFICATION Spec
CONSTANTS
  Instances = {s1, s2}
  MknodFaults = FALSE
  Background = {}
PROPERTY
  RefusedByLiveInstance
CHECK_DEADLOCK FALSE
