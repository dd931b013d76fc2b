SPECIFICATION ToolSpec
CONSTANTS
  EarliestSfd = 2
  LatestSfd = 3
  TypeOctet = 1
  NsecModulo = 100
  NsecDigits = 2
  SecWrap = 4
  ExpectedWrap = 4
  CycleWrap = 1
  Words = 2
  Frames <- FewFrames
  Times <- RxTimes
  MaxFrames = 2
  MaxWrites = 0
  MaxStarts = 2
INVARIANTS ReportTogether CaptureReported
