SPECIFICATION Spec
CONSTANTS
  Keys = {k1, k2, k3}
  NotIPv4 = NotIPv4
  MaxFlows = 2
  ActiveTo = 2
  InactiveTo = 1
  ChanBuf = 2
  CpuLoads = {}
  Clean = Clean
  Problems = {}
  Absent = Absent
  IedMetas = {}
  NoMeta = NoMeta
  SensorKeys = {}
  MaxPackets = 4
  Horizon = 3
  MaxTime = 5
SYMMETRY KeySymmetry
INVARIANTS TypeOK OnePlace PacketAccounting ReportsInOrder TableBound
PROPERTIES HandedOverFrozen IdleExactly LedgerSpec
