SPECIFICATION RecordSpec
CONSTANTS
  MAX_CLIENTS = 2
  maxClients = 2
  WeaponIds = {"WEAPON_AWP", "WEAPON_KNIFE"}
  HitGroups = {1}
  Names = {"one"}
  Items <- SniperAndKnife
  KillInputs <- KillKinds
  Damages = {50}
  Payments <- NoInput
  RoundResults <- GunResults
  CvarValues = {1}
  Teams <- PlayingTeams
  StartTeams <- OneEach
  MaxHits = 1
  MaxDamage = 50
  MaxKills = 3
  MaxRoundFrags = 3
  MaxShots = 1
  MaxBombs = 0
  MaxMoney = 0
  MaxRounds = 2
INVARIANT BreakdownsCovered
INVARIANT HeadshotsAreKills
INVARIANT RoundsPartitioned
INVARIANT OneStreakPerRound
PROPERTY VersusOnlyFromOverrun
PROPERTY ImplementsScoreboard
CHECK_DEADLOCK FALSE
