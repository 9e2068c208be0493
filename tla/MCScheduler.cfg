SPECIFICATION LiveSpec
CONSTANTS
  MaxHandle = 3
  MaxClock = 2
  Delays <- MCDelays
  Intervals <- MCIntervals
PROPERTIES
  CancelledNeverRuns
  FramesAreExact
  DueTimersAreServed
  ImplementsTimerService
