SPECIFICATION Spec
CONSTANTS
  Calls = {d1, d2, d3}
  Lines = {start, network}
  StartLine = start
  Nothing = nothing
SYMMETRY Symmetry
INVARIANTS
  OneFileStays
  TakenOut
CHECK_DEADLOCK FALSE
