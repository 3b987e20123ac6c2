SPECIFICATION HTeamsSpec
CONSTANTS
  MAX_CLIENTS = 2
  maxClients = 2
  WeaponIds = {"WEAPON_AK47"}
  HitGroups = {1}
  Names = {"one"}
  Items <- OnlyAK
  KillInputs <- PlainKills
  Damages = {10,30}
  Payments <- NoInput
  RoundResults <- BombResults
  CvarValues = {1}
  Teams = {"CT"}
  StartTeams <- BothTerrorists
  MaxHits = 1
  MaxDamage = 40
  MaxKills = 0
  MaxRoundFrags = 0
  MaxShots = 0
  MaxBombs = 1
  MaxMoney = 0
  MaxRounds = 2
INVARIANT RoundDamageBalanced
INVARIANT DamageWithinTeam
INVARIANT SharesOfAWhole
PROPERTY ShareWithinRounds
PROPERTY InfinityNeedsMove
CHECK_DEADLOCK FALSE
