CONSTANTS
  TotalPages = 7
  WordBits = 3
  Requests = {0, 1, 2, 3, 4}
  Alignments = {0, 1, 2, 3}
  NOT_FOUND = NOT_FOUND
SPECIFICATION AllSpec
INVARIANT ReturnsFirstFit
INVARIANT ReturnsFirstAligned
PROPERTY Terminates
