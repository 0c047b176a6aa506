CONSTANTS
  FONT_WIDTH = 2
  FONT_HEIGHT = 2
  fb_width = 4
  fb_height = 3
  INT_MAX = 127
  UINT64 = 65536
  Keys = {"letter", "shift", "arrow"}
  MaxEvents = 2
  Configs = {68, 69}
  Numbers = {7}
SPECIFICATION Spec
INVARIANT EveryInterruptHasAGate
INVARIANT CursorOnScreen
INVARIANT SerialLossBounded
INVARIANT NoStuckShift
 
INVARIANT NumbersShown
PROPERTY BytesAreRead
