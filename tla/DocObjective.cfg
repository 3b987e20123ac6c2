SPECIFICATION BombRoundsSpec
CONSTANTS
  MAX_CLIENTS = 3
  maxClients = 3
  WeaponIds = {"WEAPON_AK47"}
  HitGroups = {1}
  Names = {"one"}
  Items <- OnlyAK
  KillInputs <- PlainKills
  Damages = {50}
  Payments <- NoInput
  RoundResults <- BombResults
  CvarValues = {1}
  Teams <- PlayingTeams
  StartTeams <- TwoAndOne
  MaxHits = 1
  MaxDamage = 50
  MaxKills = 0
  MaxRoundFrags = 0
  MaxShots = 0
  MaxBombs = 1
  MaxMoney = 0
  MaxRounds = 1
PROPERTY ObjectivePaysEachWinner
CHECK_DEADLOCK FALSE
