SPECIFICATION Spec
CONSTANTS
  None = None
  Texts <- AnyText
  Policies <- AllRoutes
  Debounce = 1
  Backoff = 2
  Budget <- BudgetAll
  MaxUpsets = 1
ACTION_CONSTRAINT OneChange
INVARIANTS TypeOK MessageCatchesUp PostFollowsCard TagsFollowDecisions
CHECK_DEADLOCK FALSE
