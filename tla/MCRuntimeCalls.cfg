SPECIFICATION Spec
CONSTANTS
  MaxAttempts = 2
  Script <- CostRoute
  Catching = {1, 2}
  Limit <- Tight
INVARIANTS BudgetHolds EveryChargeIsTold TokensKept FailureEndsTheWork AtMostOneLateCall
CHECK_DEADLOCK FALSE
