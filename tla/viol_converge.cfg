SPECIFICATION Spec
CONSTANTS
  None = None
  Texts = {}
  Fps = {"f1"}
  Silences = {"s1", "s2"}
  Ours = {"s1"}
  MaxPolls = 5
  Budget <- BudgetRestart
INVARIANTS CardsConverge
CHECK_DEADLOCK FALSE
