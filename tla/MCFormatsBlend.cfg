\* a blend of which one component changes
SPECIFICATION Spec
CONSTANTS
  Contexts <- MCContexts
  EntityCases <- MCEntityCases
  FrameCases <- MCFrameCases
  MoveCases <- MCMoveCases
  BatchCases <- MCBatchCases
INVARIANT BlendArrives
CHECK_DEADLOCK FALSE
