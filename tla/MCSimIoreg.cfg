SPECIFICATION FairSpec
CONSTANTS
  generator = generator
  analyzer = analyzer
  shell = shell
  tg = tg
  ta = ta
  NoCore = NoCore
  NoTool = NoTool
  Tools = {generator, analyzer, shell}
  Cores = {tg, ta}
  Programs <- ToolPrograms
  CoreOf <- ToolCores
  Pieces = 1
  Shells = {sh}
  Backlog = 1
  Slots = 1
INVARIANTS OwnCore AbortsForAReason
PROPERTIES NobodyWaitsForEver
CONSTRAINT FewAtOnce
CHECK_DEADLOCK FALSE
