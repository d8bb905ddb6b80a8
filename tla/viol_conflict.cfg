SPECIFICATION PeripherySpec
CONSTANTS
  Workers = {"w1", "w2"}
  Routes = {"r1", "r2"}
  Deadman = "deadman"
  Window = 1
  MaxTime = 1
  Troubles = 1
  Outages = 1
  Alerts = {"f1", "f2"}
  Requests = {"q1", "q2"}
  Jobs = {"job"}
  GatewayTask = "gateway"
  MaxChange = 1
  Mishaps = 0
  Members = {"f1", "f2"}
  Shapes <- ThreeShapes
  Threshold = 3
  ForumThreshold = 2
  StormWindow = 2
  Retained = 1
  DigestWindow = 4
  Regroup = 0
  StormTime = 3
  Batches = 5
  Upsets = 1
INVARIANTS NobodyWasFirst
CHECK_DEADLOCK FALSE
