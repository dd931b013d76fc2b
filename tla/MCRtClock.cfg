SPECIFICATION Spec
CONSTANTS
  ClkToNs = 8
  NsecModulo = 20
  NsecWrap = 48
  SecWrap = 3
  FracUnit = 2
  Deltas <- MCDeltas
  SecConfigs = {1}
  PowerUpTotals = {0, 16}
INVARIANTS TypeOK FreeNsecInRange DisciplinedOvershoot HoldsAtZero
PROPERTIES FreeRunExact PulsesCountedOnce
