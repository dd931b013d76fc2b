SPECIFICATION Spec
CONSTANTS
  Outputs = {o1, o2}
  Params = {antenna, frequency}
  Antenna = antenna
  NoRoot = NoRoot
  Crashes = 1
INVARIANTS PoweredAsConfigured TimingAsConfigured
PROPERTIES CommitsKeepPower
