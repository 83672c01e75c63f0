SPECIFICATION FairSpec
CONSTANTS
  Keys = {k1, k2}
  NotIPv4 = NotIPv4
  MaxFlows = 1
  ActiveTo = 1
  InactiveTo = 1
  ChanBuf = 1
  CpuLoads = {80}
  Clean = Clean
  Problems = {lossy}
  Absent = Absent
  IedMetas = {weak}
  NoMeta = NoMeta
  SensorKeys = {k1}
  MaxPackets = 2
  Horizon = 1
  MaxTime = 3
PROPERTIES EventuallyReported StampsFixedAtCreation
