SPECIFICATION RunSpec
CONSTANTS
  Conns = {c1, c2}
  NHooks = 0
  KeyOf <- NoKeys
  NTools = 2
  MaxEffects = 0
SYMMETRY ConnSymmetry
INVARIANT WindowsInOrder
INVARIANT AwaitedRequestsExact
CHECK_DEADLOCK FALSE
