SPECIFICATION Spec
CONSTANTS
  srv = srv
  node = node
  ext = ext
  any = any
  none = none
  Addresses = {srv, node, ext, any}
  NoAddress = none
  AnyAddress = any
  Private = {srv, node}
  SensorNet = {node}
  FlowRecords <- MCProbes
  ScanPorts = 3
  LateralHosts = 2
  BeaconFlows = 3
  Window = 1
  MaxAlerts = 4
  NoWindow = NoWindow
  Slow = {1}
  Failing = {}
  MaxLog = 4
  MaxTime = 2
  MaxRunning = 2
  MaxRestarts = 1
INVARIANTS ScanWithinWindow
CHECK_DEADLOCK FALSE
