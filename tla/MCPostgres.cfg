SPECIFICATION Spec
CONSTANTS
  Game = Game
  Kinds <- AsyncKinds
  Helpers <- OneHelper
  Name <- MCNames
  Ping = "ping"
  StopInCallbacks = FALSE
  MaxJobs = 3
  MaxStarts = 2
INVARIANTS
  StatementsAreSafe
PROPERTIES
  StopIsFinal
  ImplementsAsyncStore
  WaitsEnd
CHECK_DEADLOCK FALSE
