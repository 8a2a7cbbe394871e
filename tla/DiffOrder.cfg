SPECIFICATION DiffSpec
CONSTANTS
  Runs = 2
  Requests <- MCRequests
  Effects <- MCEffects
  ReportedEffects = {"spawn"}
  Observed <- MCObserved
  CallerValues = {"caller"}
  ConfigValues = {"config"}
  EqualValues <- MCEqualValues
INVARIANT SameTrafficIsConsistent
CHECK_DEADLOCK FALSE
