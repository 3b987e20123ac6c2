SPECIFICATION MatchSpec
CONSTANTS
  MAX_CLIENTS = 3
  maxClients = 3
  WeaponIds = {"WEAPON_AK47"}
  HitGroups = {1}
  Names = {"one"}
  Items <- OnlyAK
  KillInputs <- PlainKills
  Damages = {50}
  Payments <- NoInput
  RoundResults <- GunResults
  CvarValues = {1}
  Teams <- PlayingTeams
  StartTeams <- TwoAndOne
  MaxHits = 1
  MaxDamage = 50
  MaxKills = 1
  MaxRoundFrags = 1
  MaxShots = 0
  MaxBombs = 0
  MaxMoney = 0
  MaxRounds = 0
INVARIANT AssistTakesDamage
CHECK_DEADLOCK FALSE
