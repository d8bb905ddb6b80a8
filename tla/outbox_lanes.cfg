SPECIFICATION Spec
CONSTANTS
  Nobody = Nobody
  NoCard = NoCard
  NoWork = NoWork
  NoSubject = NoSubject
  ReclaimAge = 1
  Horizon = 2
  Overdue = 0
  Procs <- OneProcess
  Workers <- TwoLanes
  ProcOf <- ProcessOf
  IndexOf <- LaneIndexOf
  Of = 2
  Name <- NameOnHost
  Cards <- TwoCards
  LaneOf <- CardLanes
  AskKinds = {"edit_card"}
  Delays = {0}
  RetryAfters = {1}
  BatchSize = 2
  MaxAttempts = 1
  MaxBackoff = 1
  Backend = "sqlite"
  MaxAsks = 2
  MaxRequests = 4
  MaxFaults = 1
INVARIANTS OneWorkerPerCard
PROPERTIES OnlyHolderSettles EffectsAreDurable
CHECK_DEADLOCK FALSE
