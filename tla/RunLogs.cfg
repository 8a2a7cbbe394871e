SPECIFICATION FairPipesSpec
CONSTANTS
  Conns = {}
  NHooks = 3
  KeyOf <- KeysOfCopies
  NTools = 2
  MaxEffects = 1
INVARIANT RunTypeOK
INVARIANT WindowsInOrder
INVARIANT PromptEffectsExact
PROPERTY RunEnds
CHECK_DEADLOCK FALSE
