SPECIFICATION Spec
CONSTANTS
  InputLines <- MCLines
  MaxTyped = 3
  Readers = {"AUTH", "AGENT"}
  Size = 13
  Sessions = {c1, c2}
  Top <- MCTop
  Listings <- MCListings
  Global <- MCGlobal
  Data <- MCData
  Garbage <- MCGarbage
  MaxArgs = 3
SYMMETRY Symmetry
INVARIANTS
  EndsForAReason
  StaleCommand
  StaleTailOnly
CHECK_DEADLOCK FALSE
