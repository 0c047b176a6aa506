CONSTANTS
  NAME = 2
  EXT = 2
  SIZE = 7
  Paths <- SmallPaths
  MountPaths <- SmallMountPaths
  MountIds = {m1, m2}
  FileIds = {f1, f2}
  MAX_OPEN_FILES = 2
  Sizes = {1}
  Lengths = {1}
  MaxPos = 1
SPECIFICATION Spec
INVARIANT RoutedToItsMount
INVARIANT BuffersHold
INVARIANT NamesLeadBack
INVARIANT ResourcesOwned
INVARIANT PosAgrees
SYMMETRY Symmetry
