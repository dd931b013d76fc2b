SPECIFICATION LineSpec
CONSTANTS
  EarliestSfd = 2
  LatestSfd = 3
  TypeOctet = 1
  NsecModulo = 5
  SecWrap = 4
  ExpectedWrap = 4
  CycleWrap = 3
  Words = 2
  Frames <- FewFrames
  Times <- RxTimes
  MaxFrames = 3
  MaxWrites = 2
INVARIANTS PublishedTogether LatencyTogether LatencyExact CaptureWhole CyclesAccounted
PROPERTIES FrozenHolds
