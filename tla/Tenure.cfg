SPECIFICATION HTenureSpec
CONSTANTS
  MAX_CLIENTS = 2
  maxClients = 2
  WeaponIds = {"WEAPON_AK47"}
  HitGroups = {1}
  Names = {"one"}
  Items <- OnlyAK
  KillInputs <- PlainKills
  Damages = {50}
  Payments <- NoInput
  RoundResults <- NoInput
  CvarValues = {1}
  Teams <- NoInput
  StartTeams <- OneEach
  MaxHits = 1
  MaxDamage = 50
  MaxKills = 1
  MaxRoundFrags = 1
  MaxShots = 0
  MaxBombs = 1
  MaxMoney = 0
  MaxRounds = 0
INVARIANT TablesWithinRecord
PROPERTY AssistsEarned
PROPERTY EmptySlotsUntouched
