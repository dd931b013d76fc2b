SPECIFICATION LineSpec
CONSTANTS
  Mod32 = 16
  Half64 = 2
  Words = 4
  PreambleOctets = 8
  SeqOctets = 8
  TsOctets = 10
  CrcOctets = 4
  Times = {0, 1}
  Contents = {0, 1}
  FrameSizes = {9, 11}
  InterframeGaps = {4, 5}
  InterburstGaps = {7}
  FramesPerBurst = {0}
  TotalHalves = {0}
  MaxIdle = 10
  MaxWrites = 3
INVARIANTS TypeOK BufferOctets SequenceNumbers TimestampOfFirstOctet CrcCoversFrame
PROPERTIES FramesAreWhole
