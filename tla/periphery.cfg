SPECIFICATION PeripherySpec
CONSTANTS
  Workers = {"w1", "w2"}
  Routes = {"r1", "r2"}
  Deadman = "deadman"
  Window = 1
  MaxTime = 5
  Troubles = 4
  Outages = 2
  Alerts = {"f1", "f2"}
  Requests = {"q1", "q2"}
  Jobs = {"job"}
  GatewayTask = "gateway"
  MaxChange = 1
  Mishaps = 2
  Members = {"f1", "f2"}
  Shapes <- ThreeShapes
  Threshold = 3
  ForumThreshold = 2
  StormWindow = 2
  Retained = 1
  DigestWindow = 2
  Regroup = 1
  StormTime = 3
  Batches = 3
  Upsets = 1
INVARIANTS PeripheryTypeOK OneNoticePerCondition DeadmanSpeaks NoChangeLostQuietly OwnCardFollows SeparationIsExplained
PROPERTIES StopEnds
CHECK_DEADLOCK FALSE
