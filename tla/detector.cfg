SPECIFICATION FairSpec
CONSTANTS
  srv = srv
  node = node
  ext = ext
  any = any
  none = none
  Addresses = {srv, node, ext, any}
  NoAddress = none
  AnyAddress = any
  Private = {srv, node}
  SensorNet = {node}
  FlowRecords <- MCFlowRecords
  ScanPorts = 2
  LateralHosts = 2
  BeaconFlows = 3
  Window = 1
  MaxAlerts = 4
  NoWindow = NoWindow
  Slow = {1}
  Failing = {2}
  MaxLog = 4
  MaxTime = 2
  MaxRunning = 2
  MaxRestarts = 1
INVARIANTS TypeOK BufferKeepsNewest ScanReported LateralExact BreachOnce BeaconReported
PROPERTIES EveryAlertAnswered
CHECK_DEADLOCK FALSE
