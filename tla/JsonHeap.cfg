SPECIFICATION Spec
CONSTANTS
  Values = {v1, v2, v3, v4}
  NULL = NULL
  Names = {a, b}
  StartCap = 1
  MaxMembers = 2
  AllocFaults = TRUE
SYMMETRY Symmetry
INVARIANTS
  TypeOK
  NoDanglingMember
  OwnedOnce
  ParentKnown
  NamesUnique
  WithinCapacity
PROPERTY
  NothingLost
CHECK_DEADLOCK FALSE
