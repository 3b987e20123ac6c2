-------------------------------- MODULE Stats --------------------------------
(***************************************************************************)
(* class CStats (Stats.h, Stats.cpp): the handlers that the hooks of       *)
(* ReGameDLL.cpp, ReAPI.cpp and MetaDLL.cpp call, and the one enabling     *)
(* variable they consult (Manager.cpp).                                    *)
(*                                                                         *)
(* Everything runs on the game's thread.  Each handler is one action, and  *)
(* here they happen in any order: whatever order the game calls them in is *)
(* one of the orders of this specification.  A call that a handler's own   *)
(* tests refuse changes nothing and is a stuttering step.                  *)
(*                                                                         *)
(* What the game owns (who is connected, whose entity has private data,    *)
(* the teams) is modelled by the Server section, from how Stats.cpp uses   *)
(* it.                                                                     *)
(***************************************************************************)
EXTENDS CPlayer, Sums

CONSTANTS
  maxClients,       \* gpGlobals->maxClients
  Items,            \* what can be a player's m_pActiveItem
  KillInputs,       \* what Killed reads from victim and killer: see KillInput
  Damages,          \* values of m_lastDamageAmount
  Payments,         \* <<amount, type>> arguments of AddAccount
  RoundResults,     \* <<winStatus, event>> arguments of RoundEnd
  CvarValues,       \* values an administrator gives stats_enabled
  Teams,            \* the teams players move to
  \* Bounds of the counters.
  MaxHits, MaxDamage, MaxKills, MaxRoundFrags, MaxShots, MaxBombs, MaxMoney, MaxRounds

TeamName == {"UNASSIGNED", "TERRORIST", "CT", "SPECTATOR"}

Clients == 1..maxClients

\* Entity indices a handler can be given: 0 is the world, maxClients + 1 stands
\* for every entity that is not a player.
Entities == 0..maxClients + 1

\* A null m_pActiveItem answers every test of IsWeapon as this item does.
NoItem == [weapon |-> FALSE, slot |-> "NONE_SLOT", id |-> WEAPON_NONE]

Item == [weapon : BOOLEAN, id : WeaponIds \cup {WEAPON_NONE},
         slot : {"NONE_SLOT", "PRIMARY_WEAPON_SLOT", "PISTOL_SLOT", "KNIFE_SLOT",
                 "GRENADE_SLOT", "C4_SLOT"}]

\* byBomb: m_bKilledByBomb; isPlayer: Killer->IsPlayer(); head: m_bHeadshotKilled;
\* the others are explained at Hacks.
KillInput == [byBomb : BOOLEAN, isPlayer : BOOLEAN, head : BOOLEAN,
              oneHit : BOOLEAN, defaultFov : BOOLEAN, blind : BOOLEAN]

ASSUME ClientsAssumption == maxClients \in 1..MAX_CLIENTS
ASSUME InputsAssumption == /\ Items \subseteq Item
                           /\ KillInputs \subseteq KillInput
                           /\ Damages \subseteq Nat
                           /\ Payments \subseteq Int \X Int
                           /\ Teams \subseteq TeamName
                           /\ CvarValues \subseteq {0, 1}
\* A streak index past the two arrays KillStreak and Versus is not modelled.
ASSUME FragsAssumption == MaxRoundFrags \in 0..(2 * MAX_CLIENTS + 1)

VARIABLES
  m_Data, m_RoundDamage, m_RoundDamageSelf, m_RoundDamageTeam, m_RoundFrags,
  m_RoundVersus, m_RoundBombPlanter, m_RoundBombDefuser,   \* class CStats
  m_Enabled,        \* CManager: is the cvar pointer set
  stats_enabled,    \* the cvar's value, NoCvar before it is registered
  sv_active,        \* a map is running
  connected,        \* the slots whose client is in the game
  pvPrivateData,    \* the slots whose entity has a CBasePlayer
  m_iTeam

combatVars == <<m_RoundDamage, m_RoundDamageSelf, m_RoundDamageTeam, m_RoundFrags, m_RoundVersus>>
bombVars == <<m_RoundBombPlanter, m_RoundBombDefuser>>
managerVars == <<m_Enabled, stats_enabled>>
serverVars == <<sv_active, connected, pvPrivateData, m_iTeam>>
vars == <<m_Data, combatVars, bombVars, managerVars, serverVars>>

NoCvar == -1
NoPlayer == -1

-----------------------------------------------------------------------------
(* Helpers of the handlers. *)

\* IsEnabled if it tested the pointer alone.
PointerOnly == m_Enabled

IsEnabled == m_Enabled /\ stats_enabled # 0

\* UTIL_PlayerByIndexSafe(e) is not null.
PlayerByIndexSafe(e) == e \in Clients /\ e \in pvPrivateData

IsWeapon(item, AllowKnife) ==
  IF /\ item.weapon
     /\ item.slot \in {"PRIMARY_WEAPON_SLOT", "PISTOL_SLOT", "KNIFE_SLOT", "GRENADE_SLOT"}
     /\ item.id \notin {"WEAPON_SMOKEGRENADE", "WEAPON_FLASHBANG"}
     /\ AllowKnife \/ item.id # "WEAPON_KNIFE"
  THEN item.id ELSE WEAPON_NONE

\* CountAlive counts the living into an array of its own and returns their number;
\* the array it is given, the only thing its caller reads, is left as it is.
CountAlive(Alive, living) ==
  LET Count == [t \in TeamName |-> Cardinality({i \in living : m_iTeam[i] = t})]
  IN  [Alive |-> Alive, total |-> Count["TERRORIST"] + Count["CT"]]

\* The players on one of the two playing teams.
OnTeam == {i \in pvPrivateData : m_iTeam[i] \in {"TERRORIST", "CT"}}

Opponent(t) == IF t = "TERRORIST" THEN "CT" ELSE "TERRORIST"

\* Assists if the killer were not left out.
AssistsWithKiller(k, v) == {i \in OnTeam : m_RoundDamage[i][v] >= MANAGER_ASSISTANCE_DMG}

\* Who assists when k kills v.
Assists(k, v) == {i \in OnTeam \ {k} : m_RoundDamage[i][v] >= MANAGER_ASSISTANCE_DMG}

-----------------------------------------------------------------------------
(* The handlers: money, damage, kills and shots. *)

AddAccount(p, amount, type) ==
  /\ IsEnabled
  /\ p \in pvPrivateData
  /\ type \in RewardType
  /\ m_Data[p].Money[type] + amount \in -MaxMoney..MaxMoney
  /\ m_Data' = [m_Data EXCEPT ![p] = Paid(@, amount, type)]
  /\ UNCHANGED <<combatVars, bombVars, managerVars, serverVars>>

\* v was hit in group h and m_lastDamageAmount is d; e is the attacker's entity
\* and item what it holds.
TakeDamage(v, e, h, d, item) ==
  /\ IsEnabled
  /\ PlayerByIndexSafe(e)
  /\ m_Data[e].Hits < MaxHits
  /\ m_Data[e].HitBoxDamage[h] + d <= MaxDamage
  /\ m_Data[v].DamageReceive + d <= MaxDamage
  /\ m_RoundDamageTeam[m_iTeam[e]] + d <= MaxDamage
  /\ LET dealt == [m_Data EXCEPT ![e] = Dealt(@, h, d, IsWeapon(item, TRUE))]
     IN  m_Data' = [dealt EXCEPT ![v] = Received(@, d)]
  /\ m_RoundDamage' = [m_RoundDamage EXCEPT ![e][v] = @ + d]
  /\ m_RoundDamageSelf' = [m_RoundDamageSelf EXCEPT ![e] = @ + d]
  /\ m_RoundDamageTeam' = [m_RoundDamageTeam EXCEPT ![m_iTeam[e]] = @ + d]
  /\ UNCHANGED <<m_RoundFrags, m_RoundVersus, bombVars, managerVars, serverVars>>

\* Every record after k has killed v with weapon w.
AfterKill(k, v, w, kill) ==
  LET scored == [m_Data EXCEPT ![k] = Scored(@, w, kill)]
      died == [scored EXCEPT ![v] = Died(@, w)]
  IN  [i \in Slots |-> IF i \in Assists(k, v) THEN Assisted(died[i]) ELSE died[i]]

\* The number of opponents the last living player of a team is facing.
Versus(PlayerCount) ==
  [i \in Slots |-> IF i \in OnTeam /\ m_RoundVersus[i] = 0 /\ PlayerCount[m_iTeam[i]] = 1
                   THEN PlayerCount[Opponent(m_iTeam[i])]
                   ELSE m_RoundVersus[i]]

\* v was killed by the entity e, which holds item; living are the players alive.
\* There is always an entity, the world if nobody else: unlike TakeDamage the handler does
\* not test its attacker for null (Stats.cpp:48, 96).
Killed(v, e, kill, item, living) ==
  /\ IsEnabled
  /\ ~kill.byBomb
  /\ PlayerByIndexSafe(e)
  /\ kill.isPlayer
  /\ v # e
  /\ m_Data[v].Deaths < MaxKills
  /\ m_Data[e].Frags < MaxKills
  /\ m_RoundFrags[e] < MaxRoundFrags
  /\ \A i \in Assists(e, v) : m_Data[i].Assists < MaxKills
  /\ m_Data' = AfterKill(e, v, IsWeapon(item, TRUE), kill)
  /\ m_RoundFrags' = [m_RoundFrags EXCEPT ![e] = @ + 1]
  /\ m_RoundVersus' = Versus(CountAlive([t \in TeamName |-> 0], living).Alive)
  /\ UNCHANGED <<m_RoundDamage, m_RoundDamageSelf, m_RoundDamageTeam, bombVars,
                 managerVars, serverVars>>

\* playerAnim is PLAYER_ATTACK1 or PLAYER_ATTACK2; the other animations do nothing.
SetAnimation(p, item) ==
  /\ IsEnabled
  /\ IsWeapon(item, FALSE) # WEAPON_NONE
  /\ m_Data[p].Shots < MaxShots
  /\ m_Data' = [m_Data EXCEPT ![p] = Fired(@, IsWeapon(item, FALSE))]
  /\ UNCHANGED <<combatVars, bombVars, managerVars, serverVars>>

-----------------------------------------------------------------------------
(* The handlers: the bomb. *)

\* Called with Planted = FALSE before the game plants the bomb, TRUE after.
PlantBomb(owner, Planted) ==
  /\ IsEnabled
  /\ PlayerByIndexSafe(owner)
  /\ IF Planted
     THEN /\ m_Data[owner].BombStats.PLANTED < MaxBombs
          /\ m_RoundBombPlanter' = owner
          /\ m_Data' = [m_Data EXCEPT ![owner] = Bombed(@, "PLANTED")]
     ELSE /\ m_Data[owner].BombStats.PLANTING < MaxBombs
          /\ m_RoundBombPlanter' = NoPlayer
          /\ m_Data' = [m_Data EXCEPT ![owner] = Bombed(@, "PLANTING")]
  /\ UNCHANGED <<combatVars, m_RoundBombDefuser, managerVars, serverVars>>

DefuseBombStart(p) ==
  /\ IsEnabled
  /\ m_Data[p].BombStats.DEFUSING < MaxBombs
  /\ m_Data' = [m_Data EXCEPT ![p] = Bombed(@, "DEFUSING")]
  /\ UNCHANGED <<combatVars, bombVars, managerVars, serverVars>>

\* Called with Defused = TRUE; with FALSE the handler does nothing.
DefuseBombEnd(p) ==
  /\ IsEnabled
  /\ m_Data[p].BombStats.DEFUSED < MaxBombs
  /\ m_Data' = [m_Data EXCEPT ![p] = Bombed(@, "DEFUSED")]
  /\ m_RoundBombDefuser' = p
  /\ UNCHANGED <<combatVars, m_RoundBombPlanter, managerVars, serverVars>>

\* ExplodeBomb if the planter were not looked up again.
ExplodeUnasked ==
  /\ IsEnabled
  /\ m_RoundBombPlanter # NoPlayer
  /\ m_Data[m_RoundBombPlanter].BombStats.EXPLODED < MaxBombs
  /\ m_Data' = [m_Data EXCEPT ![m_RoundBombPlanter] = Bombed(@, "EXPLODED")]
  /\ UNCHANGED <<combatVars, bombVars, managerVars, serverVars>>

ExplodeBomb ==
  /\ IsEnabled
  /\ m_RoundBombPlanter # NoPlayer
  /\ PlayerByIndexSafe(m_RoundBombPlanter)
  /\ m_Data[m_RoundBombPlanter].BombStats.EXPLODED < MaxBombs
  /\ m_Data' = [m_Data EXCEPT ![m_RoundBombPlanter] = Bombed(@, "EXPLODED")]
  /\ UNCHANGED <<combatVars, bombVars, managerVars, serverVars>>

-----------------------------------------------------------------------------
(* The handlers: the round. *)

ZeroPerSlot == [i \in Slots |-> 0]
ZeroPerTeam == [t \in TeamName |-> 0]

\* RoundFreezeEnd, the three damage tables; before it, what it would be if one of
\* them were forgotten.
ForgetDamage == /\ UNCHANGED m_RoundDamage
                /\ m_RoundDamageSelf' = ZeroPerSlot
                /\ m_RoundDamageTeam' = ZeroPerTeam

ForgetDamageSelf == /\ m_RoundDamage' = [i \in Slots |-> ZeroPerSlot]
                    /\ UNCHANGED m_RoundDamageSelf
                    /\ m_RoundDamageTeam' = ZeroPerTeam

ForgetDamageTeam == /\ m_RoundDamage' = [i \in Slots |-> ZeroPerSlot]
                    /\ m_RoundDamageSelf' = ZeroPerSlot
                    /\ UNCHANGED m_RoundDamageTeam

ZeroDamage == /\ m_RoundDamage' = [i \in Slots |-> ZeroPerSlot]
              /\ m_RoundDamageSelf' = ZeroPerSlot
              /\ m_RoundDamageTeam' = ZeroPerTeam

ZeroKills == m_RoundFrags' = ZeroPerSlot /\ m_RoundVersus' = ZeroPerSlot

ForgetPlanter == UNCHANGED m_RoundBombPlanter /\ m_RoundBombDefuser' = NoPlayer

ZeroBomb == m_RoundBombPlanter' = NoPlayer /\ m_RoundBombDefuser' = NoPlayer

RoundFreezeEnd ==
  /\ IsEnabled
  /\ ZeroDamage
  /\ ZeroKills
  /\ ZeroBomb
  /\ UNCHANGED <<m_Data, managerVars, serverVars>>

\* What the bomb adds to the share of i.
BombShare(i, event) ==
  IF event = "ROUND_BOMB_DEFUSED" /\ i = m_RoundBombDefuser THEN MANAGER_RWS_C4_DEFUSED
  ELSE IF event = "ROUND_TARGET_BOMB" /\ i = m_RoundBombPlanter THEN MANAGER_RWS_C4_EXPLODE
  ELSE Frac(0, 1)

\* What the damage i did in the round adds to the share of i.
DamageShare(i, Winner, event) ==
  IF m_iTeam[i] # Winner \/ m_RoundDamageSelf[i] = 0 THEN Frac(0, 1)
  ELSE LET RoundWinShare == Frac(m_RoundDamageSelf[i], m_RoundDamageTeam[Winner])
       IN  IF event \in {"ROUND_BOMB_DEFUSED", "ROUND_TARGET_BOMB"}
           THEN MapTarget(RoundWinShare) ELSE RoundWinShare

\* The record of i after a round that Winner has won.
AfterRound(i, Winner, event) ==
  LET played == Streak(RoundPlayed(m_Data[i], m_iTeam[i], Winner), m_RoundFrags[i])
      faced == IF m_iTeam[i] = Winner THEN Clutched(played, m_RoundVersus[i]) ELSE played
  IN  Shared(Shared(faced, BombShare(i, event)), DamageShare(i, Winner, event))

RoundEnd(winStatus, event) ==
  /\ IsEnabled
  /\ winStatus \in {"WINSTATUS_TERRORISTS", "WINSTATUS_CTS"}
  /\ \A i \in pvPrivateData : m_Data[i].Rounds.PLAY < MaxRounds
  /\ LET Winner == IF winStatus = "WINSTATUS_TERRORISTS" THEN "TERRORIST" ELSE "CT"
     IN  m_Data' = [i \in Slots |-> IF PlayerByIndexSafe(i) THEN AfterRound(i, Winner, event)
                                    ELSE m_Data[i]]
  /\ UNCHANGED <<combatVars, bombVars, managerVars, serverVars>>

-----------------------------------------------------------------------------
(* The handlers: players and maps. *)

GetIntoGame(p, netname) ==
  /\ m_Data' = [m_Data EXCEPT ![p] = Join(@, netname)]
  /\ UNCHANGED <<combatVars, bombVars, managerVars, serverVars>>

Disconnected(p) == m_Data' = [m_Data EXCEPT ![p] = Clear(@)]

AllZeroed == [i \in Slots |-> Zeroed]

\* CvarRegister if the cvar were looked up and never registered.
LookUpOnly == UNCHANGED stats_enabled

\* CUtil::CvarRegister("stats_enabled", "0"): a cvar that exists keeps its value.
CvarRegister == stats_enabled' = IF stats_enabled = NoCvar THEN 0 ELSE stats_enabled

\* DLL_POST_ServerActivate: CManager::ServerActivate, then CStats::ServerActivate.
ServerActivate ==
  /\ ~sv_active
  /\ sv_active' = TRUE
  /\ CvarRegister
  /\ m_Enabled' = TRUE
  /\ m_Data' = AllZeroed
  /\ UNCHANGED <<combatVars, bombVars, connected, pvPrivateData, m_iTeam>>

\* DLL_POST_ServerDeactivate; the engine then frees every entity of the map.
ServerDeactivate ==
  /\ sv_active
  /\ sv_active' = FALSE
  /\ m_Data' = AllZeroed
  /\ connected' = {}
  /\ pvPrivateData' = {}
  /\ m_iTeam' = [i \in Slots |-> "UNASSIGNED"]
  /\ UNCHANGED <<combatVars, bombVars, managerVars>>

-----------------------------------------------------------------------------
(* Server: the engine and the game, as far as the handlers read them. *)

pluginVars == <<m_Data, combatVars, bombVars>>

ClientPutInServer(p) ==
  /\ sv_active
  /\ p \notin connected
  /\ connected' = connected \cup {p}
  /\ pvPrivateData' = pvPrivateData \cup {p}
  /\ m_iTeam' = [m_iTeam EXCEPT ![p] = "UNASSIGNED"]
  /\ UNCHANGED <<pluginVars, managerVars, sv_active>>

\* ReAPI_SV_DropClient: the handler first, then the engine drops the client.  The
\* slot's entity keeps its private data for the time being.
SV_DropClient(p) ==
  /\ p \in connected
  /\ Disconnected(p)
  /\ connected' = connected \ {p}
  /\ UNCHANGED <<combatVars, bombVars, managerVars, sv_active, pvPrivateData, m_iTeam>>

\* The engine frees what is left of a client that was dropped, at any later time.
FreePrivateData(p) ==
  /\ p \in pvPrivateData \ connected
  /\ pvPrivateData' = pvPrivateData \ {p}
  /\ m_iTeam' = [m_iTeam EXCEPT ![p] = "UNASSIGNED"]
  /\ UNCHANGED <<pluginVars, managerVars, sv_active, connected>>

ChangeTeam(p, team) ==
  /\ m_iTeam' = [m_iTeam EXCEPT ![p] = team]
  /\ UNCHANGED <<pluginVars, managerVars, sv_active, connected, pvPrivateData>>

SetCvar(value) ==
  /\ stats_enabled # NoCvar
  /\ stats_enabled' = value
  /\ UNCHANGED <<pluginVars, m_Enabled, serverVars>>

-----------------------------------------------------------------------------
\* The plugin is loaded before the first map or while one is running (PT_ANYTIME);
\* in the second case players may be in the game, the cvar may exist already (a
\* configuration file may define it) and m_Enabled is null until the next map.
Init ==
  /\ m_Data = AllZeroed
  /\ m_RoundDamage = [i \in Slots |-> ZeroPerSlot]
  /\ m_RoundDamageSelf = ZeroPerSlot
  /\ m_RoundDamageTeam = ZeroPerTeam
  /\ m_RoundFrags = ZeroPerSlot
  /\ m_RoundVersus = ZeroPerSlot
  /\ m_RoundBombPlanter = NoPlayer
  /\ m_RoundBombDefuser = NoPlayer
  /\ m_Enabled = FALSE
  /\ stats_enabled \in {NoCvar} \cup CvarValues
  /\ sv_active \in BOOLEAN
  /\ connected \in IF sv_active THEN SUBSET Clients ELSE {{}}
  /\ pvPrivateData = connected
  /\ m_iTeam = [i \in Slots |-> "UNASSIGNED"]

Combat ==
  \/ \E p \in connected, pay \in Payments : AddAccount(p, pay[1], pay[2])
  \/ \E v \in connected, e \in Entities, h \in HitGroups, d \in Damages,
        item \in Items : TakeDamage(v, e, h, d, item)
  \/ \E v \in connected, e \in Entities, kill \in KillInputs, item \in Items :
       \E living \in SUBSET (connected \ {v}) : Killed(v, e, kill, item, living)
  \/ \E p \in connected, item \in Items : SetAnimation(p, item)

Bomb ==
  \/ \E p \in connected, planted \in BOOLEAN : PlantBomb(p, planted)
  \/ \E p \in connected : DefuseBombStart(p)
  \/ \E p \in connected : DefuseBombEnd(p)
  \/ ExplodeBomb

Round ==
  \/ RoundFreezeEnd
  \/ \E result \in RoundResults : RoundEnd(result[1], result[2])

Session ==
  \/ \E p \in Clients : ClientPutInServer(p)
  \/ \E p \in connected, netname \in Names : GetIntoGame(p, netname)
  \/ \E p \in connected : SV_DropClient(p)
  \/ \E p \in Clients : FreePrivateData(p)
  \/ \E p \in connected, team \in Teams : ChangeTeam(p, team)

Map ==
  \/ ServerActivate
  \/ ServerDeactivate
  \/ \E value \in CvarValues : SetCvar(value)

Next == Combat \/ Bomb \/ Round \/ Session \/ Map

Spec == Init /\ [][Next]_vars

-----------------------------------------------------------------------------
(* Properties. *)

CStatsType ==
  /\ m_Data \in [Slots -> CPlayerRecord]
  /\ m_RoundDamage \in [Slots -> [Slots -> Nat]]
  /\ m_RoundDamageSelf \in [Slots -> Nat]
  /\ m_RoundDamageTeam \in [TeamName -> Nat]
  /\ m_RoundFrags \in [Slots -> 0..MaxRoundFrags]
  /\ m_RoundVersus \in [Slots -> Slots]
  /\ m_RoundBombPlanter \in {NoPlayer} \cup Clients
  /\ m_RoundBombDefuser \in {NoPlayer} \cup Clients

ServerType ==
  /\ m_Enabled \in BOOLEAN
  /\ stats_enabled \in {NoCvar} \cup CvarValues \cup {0}
  /\ sv_active \in BOOLEAN
  /\ connected \subseteq pvPrivateData
  /\ pvPrivateData \subseteq Clients
  /\ m_iTeam \in [Slots -> TeamName]
  /\ m_Enabled => stats_enabled # NoCvar
  /\ ~sv_active => pvPrivateData = {}

\* The variables have their types; the manager's pointer is only set once the cvar
\* exists, and entities have private data only while a map is running.
TypeOK == CStatsType /\ ServerType

\* The three damage tables of the round agree (Stats.cpp:68-72, 305-309): what a
\* slot has dealt is the sum of its row, and the teams together have dealt what
\* the slots together have, whoever left, joined or changed team in between.
RoundDamageBalanced ==
  /\ \A i \in Slots : m_RoundDamageSelf[i] = SumOf(m_RoundDamage[i])
  /\ SumOf(m_RoundDamageTeam) = SumOf(m_RoundDamageSelf)

\* A column of the table of weapons.
Column(ws, field) == [w \in WeaponIds |-> ws[w][field]]

\* A slot's totals cover its break-downs (Stats.cpp:56-80, 108-130, 217-219): every
\* hit is in one hit box, every shot is some weapon's, and no weapon table holds a
\* hit, a point of damage, a kill, a headshot or a death the totals do not have.
BreakdownsCovered ==
  \A i \in Slots : LET d == m_Data[i] IN
    /\ d.Hits = SumOf(d.HitBox)
    /\ d.Shots = SumOf(Column(d.WeaponStats, "SHOT"))
    /\ d.Hits >= SumOf(Column(d.WeaponStats, "HIT"))
    /\ d.Damage >= SumOf(Column(d.WeaponStats, "DAMAGE"))
    /\ d.Frags >= SumOf(Column(d.WeaponStats, "KILL"))
    /\ d.Headshot >= SumOf(Column(d.WeaponStats, "HEADSHOT"))
    /\ d.Deaths >= SumOf(Column(d.WeaponStats, "DEATH"))

\* A headshot is a kill, in total and for each weapon (Stats.cpp:110-130), and no
\* slot was suspected of more no-scope, one-hit or blind kills than it has kills.
HeadshotsAreKills ==
  \A i \in Slots : LET d == m_Data[i] IN
    /\ d.Headshot <= d.Frags
    /\ \A w \in WeaponIds : d.WeaponStats[w].HEADSHOT <= d.WeaponStats[w].KILL
    /\ d.HackStats.ONEHIT <= d.Frags
    /\ d.HackStats.NOSCOP <= d.Frags
    /\ d.HackStats.VISION <= d.Frags

\* Every round a slot has played is exactly one of won and lost, as one side
\* (Stats.cpp:366-397).
RoundsPartitioned ==
  \A i \in Slots : LET r == m_Data[i].Rounds
                   IN  r.PLAY = r.WIN_TR + r.LOSE_TR + r.WIN_CT + r.LOSE_CT

\* KillStreak and Versus together hold at most one entry per round a slot has played:
\* one streak, whatever its length and whichever array it falls into, and no clutch
\* beside it (Stats.cpp:366-380, 432-456).
OneStreakPerRound ==
  \A i \in Slots : LET d == m_Data[i]
                   IN  SumOf(d.KillStreak) + SumOf(d.Versus) <= d.Rounds.PLAY

\* CountAlive (Stats.cpp:432-456) never fills its caller's array, so m_RoundVersus
\* stays zero and no clutch is recorded: the only way a Versus entry ever grows is
\* a kill streak longer than the array KillStreak, which is laid out before it.
VersusOnlyFromOverrun ==
  [][\A i, n \in Slots : m_Data'[i].Versus[n] > m_Data[i].Versus[n]
                           => m_RoundFrags[i] > MAX_CLIENTS]_vars

\* While stats_enabled is 0 or the plugin has not seen a map start, the only thing
\* that may happen to a record is that it is cleared (Manager.cpp:15-23).
FrozenWhileDisabled ==
  [][~m_Enabled \/ stats_enabled = 0 =>
       /\ \A i \in Slots : \/ m_Data'[i] = m_Data[i]
                           \/ m_Data'[i] = Zeroed
                           \/ \E name \in Names \cup {NoName} :
                                m_Data'[i] = [Clear(m_Data[i]) EXCEPT !.Index = name]
       /\ UNCHANGED <<combatVars, bombVars>>]_vars

\* The tables of the round go on naming slots whose players have left.  Once the entity
\* of such a slot has lost its private data, no kill, explosion or end of a round writes
\* to its record (Stats.cpp:169, 289, 331, 345, 360); only a change of map zeroes it.
EmptySlotsUntouched ==
  [][\A p \in Slots \ pvPrivateData : m_Data'[p] = m_Data[p] \/ m_Data'[p] = Zeroed]_vars

Board == INSTANCE Scoreboard WITH
  Players <- Clients, Amounts <- Damages,
  frags <- [i \in Clients |-> m_Data[i].Frags],
  deaths <- [i \in Clients |-> m_Data[i].Deaths],
  assists <- [i \in Clients |-> m_Data[i].Assists],
  dealt <- [i \in Clients |-> m_Data[i].Damage],
  taken <- [i \in Clients |-> m_Data[i].DamageReceive],
  played <- [i \in Clients |-> m_Data[i].Rounds.PLAY],
  won <- [i \in Clients |-> m_Data[i].Rounds.WIN_TR + m_Data[i].Rounds.WIN_CT]

\* The statistics behave as the score board of module Scoreboard.
ImplementsScoreboard == Board!Spec

-----------------------------------------------------------------------------
(* What comments of the headers say, which the code does not keep. *)

\* "Mininum damage to take assistance for player" (Stats.h:3): who has an assist
\* has dealt that much damage.
AssistTakesDamage ==
  \A p \in Slots : m_Data[p].Assists > 0 => m_Data[p].Damage >= MANAGER_ASSISTANCE_DMG

\* "Amount added to each player of winner team if map objective is complete by
\* winner team" (Stats.h:4): when the bomb has exploded, planted by a player of the
\* winners, every winner's share grows.
ObjectivePaysEachWinner ==
  [][RoundEnd("WINSTATUS_TERRORISTS", "ROUND_TARGET_BOMB")
       /\ m_RoundBombPlanter \in connected /\ m_iTeam[m_RoundBombPlanter] = "TERRORIST"
       => \A p \in connected : m_iTeam[p] = "TERRORIST"
            => m_Data'[p].RoundWinShare # m_Data[p].RoundWinShare]_vars

\* "Extra amount added to player from winner team that planted the bomb and bomb
\* explode" (Stats.h:5): only winners' shares grow.
ExplosionPaysWinners ==
  [][RoundEnd("WINSTATUS_TERRORISTS", "ROUND_TARGET_BOMB")
       => \A p \in Slots : m_Data'[p].RoundWinShare # m_Data[p].RoundWinShare
            => m_iTeam[p] = "TERRORIST"]_vars

\* HitBoxDamage is marked "Ok" (Player.h:87): like HitBox and Hits, its entries add
\* up to the total, Damage.
HitBoxDamageAddsUp == \A p \in Slots : m_Data[p].Damage = SumOf(m_Data[p].HitBoxDamage)

=============================================================================
