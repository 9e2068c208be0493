SPECIFICATION Spec
CONSTANTS
  Timeout = 2
  AcceptAfterBegin = FALSE
  MaxCaptures = 3
PROPERTIES
  TimeoutsAreDue
  TextFromOwner
  TimedCapturesEnd
