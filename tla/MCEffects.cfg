SPECIFICATION Spec
CONSTANTS
  None = None
  Slot <- OneSlot
  EffectId <- TwoIds
  Specs <- MCSpecs
  GameVerbs <- AllVerbs
  TickVerbs <- SweepVerbs
  StopVerbs <- ApplyVerbs
  StopSparesAssigned = TRUE
  MaxEffects = 3
  MaxClock = 1
INVARIANTS
  StopsExactlyOnce
  NothingOrphaned
  SweepsReachEveryVictim
PROPERTIES
  TimedEffectsEnd
  SweepsSpareTheRest
CHECK_DEADLOCK FALSE
