SPECIFICATION MatchSpec
CONSTANTS
  MAX_CLIENTS = 2
  maxClients = 2
  WeaponIds = {"WEAPON_AK47"}
  HitGroups = {1}
  Names = {"one"}
  Items <- OnlyAK
  KillInputs <- PlainKills
  Damages = {50}
  Payments <- NoInput
  RoundResults <- GunResults
  CvarValues = {1}
  Teams <- PlayingTeams
  StartTeams <- OneEach
  MaxHits = 1
  MaxDamage = 50
  MaxKills = 0
  MaxRoundFrags = 0
  MaxShots = 0
  MaxBombs = 0
  MaxMoney = 0
  MaxRounds = 0
INVARIANT HitBoxDamageAddsUp
CHECK_DEADLOCK FALSE
