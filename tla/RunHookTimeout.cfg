SPECIFICATION FairRunSpec
CONSTANTS
  Conns = {}
  NHooks = 1
  KeyOf <- KeysOfOne
  NTools = 0
  MaxEffects = 0
PROPERTY HookIsBounded
CHECK_DEADLOCK FALSE
