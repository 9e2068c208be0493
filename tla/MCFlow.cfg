SPECIFICATION FlowSpec
CONSTANTS
  Flows = {f1, f2}
  NoFlow = NoFlow
  Steps = 3
  Values <- MCValues
  Skips <- MCSkips
  WithConfirm = {f1}
  MaxDepth = 4
INVARIANTS
  ScreensAgree
PROPERTIES
  FinishIsJustified
