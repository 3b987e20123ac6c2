SPECIFICATION PlantsSpec
CONSTANTS
  MAX_CLIENTS = 2
  maxClients = 2
  WeaponIds = {"WEAPON_AK47"}
  HitGroups = {1}
  Names = {"one"}
  Items <- OnlyAK
  KillInputs <- PlainKills
  Damages = {50}
  Payments <- NoInput
  RoundResults <- BombResults
  CvarValues = {1}
  Teams = {"SPECTATOR"}
  StartTeams <- OneEach
  MaxHits = 0
  MaxDamage = 0
  MaxKills = 0
  MaxRoundFrags = 0
  MaxShots = 0
  MaxBombs = 1
  MaxMoney = 0
  MaxRounds = 1
PROPERTY ExplosionPaysWinners
CHECK_DEADLOCK FALSE
