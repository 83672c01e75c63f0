SPECIFICATION Spec
CONSTANTS
  Exporters = {sweep, eviction}
  Batches <- MCBatches
  NfMaxPerPkt = 2
  IpfixChunk = 2
  Wide = 4
  Templates <- MCTemplates
  Rates = {0, 1, 3}
  MaxTime = 5
  MaxPackets = 4
  MaxFailures = 1
INVARIANTS TypeOK EveryRecordSent NumbersCountFlows DecodedAsSent SampleEstimate
CHECK_DEADLOCK FALSE
