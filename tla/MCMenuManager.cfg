SPECIFICATION Spec
CONSTANTS
  Menus <- MCMenus
  ItemsPerPage = 2
  InputDebounce = 2
  MoveTypes <- MCMoveTypes
  KeySets <- MCKeySets
  FreezeAnytime = FALSE
  MaxDepth = 2
  MaxCalls = 3
INVARIANTS
  SessionInv
  MovementIsLent
PROPERTIES
  KeysAreMeant
