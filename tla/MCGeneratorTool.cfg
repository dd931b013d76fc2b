SPECIFICATION Spec
CONSTANTS
  Mod32 = 256
  DynamicLen = 22
  Words = 20
  NoType = NoType
  OptionSets <- Calls
INVARIANTS DataAsGiven
PROPERTIES ImplementsService
