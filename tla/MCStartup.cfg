SPECIFICATION KitSpec
CONSTANTS
  None = None
  Broken = Broken
  Hosts <- MCHosts
  PlayerSlot <- Slots
  IdentitySlot = {1, 2, 3, 4}
  PawnField = {"m_iHealth", "m_iTeamNum"}
  MaxSerial = 1
  Client <- Slots
  Language = {"en", "de", "fr", "xx"}
  Key = {"hello", "bye"}
  CommandLine <- Lines2
  MaxBuffer = 5
INVARIANTS
  ResolutionsAreTrue
  SignaturesAndStagesShow
  SpawnsAreWhole
  CallsHitTheirPlayer
  CommandsStayApart
  
CHECK_DEADLOCK FALSE
