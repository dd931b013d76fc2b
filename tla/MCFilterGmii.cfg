SPECIFICATION Spec
CONSTANTS
  Mod32 = 16
  MinGaps = {7, 9, 10, 12}
  MaxFrame = 4
  MaxIdle = 20
INVARIANTS TypeOK IInv
PROPERTIES WholeFrames OutputGapKept NoNeedlessDrop
