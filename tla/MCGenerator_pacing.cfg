SPECIFICATION FairLineSpec
CONSTANTS
  Mod32 = 8
  Half64 = 2
  Words = 2
  PreambleOctets = 2
  SeqOctets = 1
  TsOctets = 1
  CrcOctets = 1
  Times = {0}
  Contents = {0}
  FrameSizes = {3}
  InterframeGaps = {2, 3, 5}
  InterburstGaps = {6}
  FramesPerBurst = {0, 2}
  TotalHalves = {0, 1}
  MaxIdle = 10
  MaxWrites = 3
INVARIANTS GapExact GapNeverShort TotalRespected
PROPERTIES StopsQuiet SendsAll
