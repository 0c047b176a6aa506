CONSTANTS
  BYTE = 2
  NIBBLE = 2
  Capacity = 9
  Places = 2
  Attached <- SmallAttached
  POLLS = 1
  LONG_POLLS = 2
  Lbas = {7, 8}
  Counts = {0, 1, 2, 3}
  Buffers <- SmallBuffers
  MaxWrites = 2
SPECIFICATION Spec
INVARIANT FlushedSurvives
PROPERTY ImplementsBlockDevice
PROPERTY CallsReturn
