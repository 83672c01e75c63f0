SPECIFICATION FairSpec
CONSTANTS
  Exporters = {sweep, eviction}
  Schemas = {plain, custom}
  DefaultTemplate = plain
  IdBase = 2
  IdLimit = 4
  SendMayFail = TRUE
  NoTemplate = NoTemplate
  MaxChunks = 1
  MaxChanges = 2
  MaxCrashes = 1
INVARIANTS TypeOK OneMeaningPerId NoMisdecode TemplateAccounted
PROPERTIES CollectorCatchesUp
