SPECIFICATION HookMatchSpec
CONSTANTS
  MAX_CLIENTS = 2
  maxClients = 2
  WeaponIds = {"WEAPON_AK47"}
  HitGroups = {1}
  Names = {"one"}
  Items <- OnlyAK
  KillInputs <- PlainKills
  Damages = {0, 50}
  Payments <- OneSalary
  RoundResults <- DefusalOnly
  CvarValues = {0, 1}
  Teams = {"SPECTATOR"}
  StartTeams <- PlanterSecond
  Inside <- NestingOf
  MaxCalls = 3
  MaxHits = 4
  MaxDamage = 200
  MaxKills = 4
  MaxRoundFrags = 4
  MaxShots = 4
  MaxBombs = 4
  MaxMoney = 4
  MaxRounds = 4
PROPERTY DefuserPaid
CHECK_DEADLOCK FALSE
