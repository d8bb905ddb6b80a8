SPECIFICATION RacesSpec
CONSTANTS
  None = None
  Fps <- OneAlert
  IdentityOf <- Exact
  Routes = {"r1"}
  Tasks = {"t1", "t2"}
  Budget <- BudgetRace
  Texts = {"a"}
  Never = Never
  Unborn = Unborn
  Pruned = Pruned
  CardIds = {1, 2, 3}
  Route <- RouteOfEach
  Deadline <- Deadlines
  Sweepers = {"w1", "w2"}
  Batch = 1
  Retention = 1
  PruneBatch = 1
  MaxHour = 2
  Returns = 1
  Faults = 1
INVARIANTS TypeOK MentionedOnce
PROPERTIES FiringHasCard EveryCardIsReached
CHECK_DEADLOCK FALSE
