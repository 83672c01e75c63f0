SPECIFICATION Spec
CONSTANTS
  near1 = near1
  near2 = near2
  near3 = near3
  far = far
  Exporters = {sweep, eviction}
  Handlers = {response, operator}
  Records <- MCRecords
  Pair <- MCPair
  Proto <- MCProto
  Bytes <- MCBytes
  InitialMax = 2
  Caps <- MCCaps
  Patches <- MCPatches

PROPERTIES PatchKeepsOtherFields
