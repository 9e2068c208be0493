SPECIFICATION Spec
CONSTANTS
  None = None
  Slot <- OneSlot
  EffectId <- OneId
  Specs <- MCSpecs
  GameVerbs <- ApplyVerbs
  TickVerbs <- NoVerbs
  StopVerbs <- NoVerbs
  StopSparesAssigned = TRUE
  MaxEffects = 3
  MaxClock = 2
INVARIANTS
  PlayersMatchEffects
CHECK_DEADLOCK FALSE
