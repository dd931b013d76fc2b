SPECIFICATION LineSpec
CONSTANTS
  EarliestSfd = 2
  LatestSfd = 3
  TypeOctet = 1
  NsecModulo = 5
  SecWrap = 4
  ExpectedWrap = 4
  CycleWrap = 1
  Words = 2
  Frames <- AllFrames
  Times <- OneTime
  MaxFrames = 3
  MaxWrites = 2
INVARIANTS TypeOK CountsExact
