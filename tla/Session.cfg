SPECIFICATION HSpec
CONSTANTS
  MAX_CLIENTS = 2
  maxClients = 1
  WeaponIds = {"WEAPON_AK47"}
  HitGroups = {1}
  Names = {"one"}
  Items <- OnlyAK
  KillInputs <- PlainKills
  Damages = {50}
  Payments <- Salaries
  RoundResults <- GunResults
  CvarValues = {0, 1}
  Teams <- PlayingTeams
  StartTeams <- OneEach
  MaxHits = 1
  MaxDamage = 50
  MaxKills = 0
  MaxRoundFrags = 0
  MaxShots = 0
  MaxBombs = 1
  MaxMoney = 1
  MaxRounds = 1
INVARIANT TypeOK
PROPERTY FrozenWhileDisabled
