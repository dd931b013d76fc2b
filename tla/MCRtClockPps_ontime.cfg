SPECIFICATION PpsSpec
CONSTANTS
  ClkToNs = 8
  NsecModulo = 48
  NsecWrap = 128
  SecWrap = 3
  FracUnit = 2
  Deltas <- NominalDelta
  SecConfigs = {1}
  PowerUpTotals = {0, 8}
  PpsPeriods = {6}
PROPERTY SecondNotEarly
