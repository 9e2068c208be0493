SPECIFICATION ServerSpec
CONSTANTS
  None = None
  t1 = t1
  t2 = t2
  t3 = t3
  Object <- Objects
  Slot = {0, 1, 2}
  SteamId = {0, 1, 2}
  Bot = 0
  Depths = {1, 2}
  Decodes = TRUE
  PreVerbs = {}
  Spec0 <- MCSpec0
  Extra <- MCExtra
  ChatPrefixes = {"!", "."}
  Lines <- MCLines
  Actions <- MCActions
  NameOf <- Names
  Admins <- MCAdmins
  Immune <- MCImmune
  IntWidth = 16
  Looks <- MCLooks
  Panel <- Panels
  RenderVerbs = {"stop"}
  Home <- Homes
  Seats <- SeatsOf
INVARIANTS
  IndexIsExact
  NothingLeaksToTheNext
  CommandsAreTheirOwn
  ActsWithinPolicy
  ArgumentsAreMeant
  DelayedActsAreAccounted
