SPECIFICATION ReplicasSpec
CONSTANTS
  Nobody = Nobody
  NoCard = NoCard
  NoWork = NoWork
  NoSubject = NoSubject
  ReclaimAge = 0
  Horizon = 1
  Overdue = 0
  Procs <- TwoReplicas
  Workers <- OneEach
  ProcOf <- ProcessOf
  IndexOf <- LaneIndexOf
  Of = 1
  Name <- NameOnHost
  Cards <- OneCard
  LaneOf <- CardLanes
  AskKinds = {"edit_card"}
  Delays = {0}
  RetryAfters = {1}
  BatchSize = 1
  MaxAttempts = 2
  MaxBackoff = 1
  Backend = "postgres"
  MaxAsks = 2
  MaxRequests = 5
  MaxFaults = 1
CONSTRAINT FoldedOrShared
PROPERTIES OnlyOvertakenIsLost EveryRequestSettles
CHECK_DEADLOCK FALSE
