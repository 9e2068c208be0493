SPECIFICATION PluginSpec
CONSTANTS
  None = None
  Missing = Missing
  us = us
  them = them
  first = first
  second = second
  twin = twin
  Event = {e1, e2}
  Resource = {res}
  Other = {a, b}
  Kit = Kit
  EventVerbs = {"remove others"}
  Request = {r1, r2, r3}
  CallbackVerbs = {"post", "stop"}
  Server <- Servers
  Us = us
  File <- Files
  VersionOf <- Versions
  Good <- MCGood
  Unreadable = {}
  Dirs <- MCDirs
  Together <- MCTogether
  MaxCleanups = 2
INVARIANTS
  EngineForgetsThePlugin
  FeedsAreExact
  EachRequestOnce
  MigrationsAreTold
PROPERTIES
  RunsEnd
