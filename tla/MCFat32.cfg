CONSTANTS
  LastCluster = 4
  LastEntry = 5
  Slots = 3
  B = 2
  MAX_OPEN_FILES = 2
  Paths <- SmallPaths
  Lengths = {3}
  MaxPos = 3
  Disks <- SmallDisks
  DEPTH = 2
SPECIFICATION LsSpec
 
INVARIANT NoDangling
INVARIANT NamesUnique
INVARIANT CursorAgrees
INVARIANT NoLeak
PROPERTY LinksStable
PROPERTY WritesStayInChain
PROPERTY ListsEverything
PROPERTY CallsReturn
