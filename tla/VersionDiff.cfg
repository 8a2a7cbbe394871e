SPECIFICATION DiffSpec
CONSTANTS
  Runs = 2
  Requests <- MCRequests
  Effects <- MCEffects
  ReportedEffects = {"spawn"}
  Observed <- MCObserved
  CallerValues = {"caller"}
  ConfigValues = {"config"}
  EqualValues <- MCEqualValues
INVARIANT DiffTypeOK
INVARIANT ConcludedMeansAgreed
INVARIANT FindingsAreReproducible
INVARIANT ConsistentMeansNothingNew
INVARIANT RepeatsAreNotConsistent
INVARIANT LoopMatchesByRank
CHECK_DEADLOCK FALSE
