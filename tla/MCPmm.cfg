CONSTANTS
  TotalPages = 6
  Reserved = {0, 3}
  FRAMES_STACK_ENTRIES = 2
  U64 = 7
  Owners = {o1, o2, o3}
  AllocSizes = {1, 2}
  FreeSizes = {1, 2}
  AlignPages = {2, 3}
  NULL = NULL
SPECIFICATION Spec
SYMMETRY Symmetry
INVARIANT TypeOK
INVARIANT ReservedNeverHandedOut
INVARIANT ExclusiveOwnership
INVARIANT FreeCountExact
