SPECIFICATION Spec
CONSTANTS
  Exporters = {sweep, eviction}
  Schemas = {plain, custom}
  DefaultTemplate = plain
  IdBase = 2
  IdLimit = 4
  SendMayFail = FALSE
  NoTemplate = NoTemplate
  MaxChunks = 1
  MaxChanges = 1
  MaxCrashes = 0
SYMMETRY ExporterSymmetry
INVARIANTS TemplateBeforeData
