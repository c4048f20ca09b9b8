SPECIFICATION Spec
CONSTANTS
  Contexts <- MCContexts
  EntityCases <- MCEntityCases
  FrameCases <- MCFrameCases
  MoveCases <- MCMoveCases
  BatchCases <- MCBatchCases
INVARIANTS
  EntityArrives
  PlayerArrives
  FrameArrives
  MoveArrives
  BatchArrives
  InStep
  RefusedForAReason
CHECK_DEADLOCK FALSE
