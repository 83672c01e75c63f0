SPECIFICATION Spec
CONSTANTS
  srv = srv
  node = node
  ext = ext
  any = any
  none = none
  Addresses = {srv, node, ext, any}
  NoAddress = none
  AnyAddress = any
  Private = {srv, node}
  SensorNet = {node}
  FlowRecords <- MCCalls
  ScanPorts = 30
  LateralHosts = 8
  BeaconFlows = 6
  Window = 5
  MaxAlerts = 500
  NoWindow = NoWindow
  Slow = {1}
  Failing = {}
  MaxLog = 6
  MaxTime = 5
  MaxRunning = 2
  MaxRestarts = 1
INVARIANTS BeaconRegular
CHECK_DEADLOCK FALSE
