CONSTANTS
  Disks <- SmallDisks
SPECIFICATION Spec
INVARIANT FatStartsInItsVolume
