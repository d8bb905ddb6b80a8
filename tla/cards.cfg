SPECIFICATION Spec
CONSTANTS
  None = None
  Fps <- TwoAlerts
  IdentityOf <- Merged
  Routes = {"r1"}
  Tasks = {"t1"}
  Budget <- BudgetOne
  Texts = {"a"}
INVARIANTS OneOpenCard ResolvesWithLast
PROPERTIES AppliedChangeIsShown RefireKeepsAckRead
CHECK_DEADLOCK FALSE
