SPECIFICATION Spec
CONSTANTS
  Outputs = {o1}
  Params = {antenna, frequency}
  Antenna = antenna
  NoRoot = NoRoot
  Crashes = 1
INVARIANTS AntennaAsConfigured
