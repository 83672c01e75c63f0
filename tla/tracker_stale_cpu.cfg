SPECIFICATION Spec
CONSTANTS
  Keys = {k1}
  NotIPv4 = NotIPv4
  MaxFlows = 1
  ActiveTo = 1
  InactiveTo = 1
  ChanBuf = 2
  CpuLoads = {80}
  Clean = Clean
  Problems = {}
  Absent = Absent
  IedMetas = {}
  NoMeta = NoMeta
  SensorKeys = {}
  MaxPackets = 3
  Horizon = 2
  MaxTime = 4
INVARIANTS CpuLoadAtFlowStart
