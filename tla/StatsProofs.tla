----------------------------- MODULE StatsProofs -----------------------------
(***************************************************************************)
(* Theorems about Stats, for every value of its constants.                 *)
(***************************************************************************)
EXTENDS CPlayerProofs

\* IsWeapon returns a weapon in play or WEAPON_NONE (Stats.cpp:404-430).
LEMMA IsWeaponType == ASSUME NEW item \in Items, NEW AllowKnife
                      PROVE  IsWeapon(item, AllowKnife) \in WeaponOrNone
BY InputsAssumption DEF IsWeapon, Item, WeaponOrNone

\* The handlers' slots are slots of the arrays.
LEMMA ClientsAreSlots == Clients \subseteq Slots /\ 0 \in Slots
BY SlotsAssumption, ClientsAssumption DEF Clients, Slots

\* CountAlive leaves its caller's array as it is (Stats.cpp:432-456), so an entry
\* of m_RoundVersus that Killed writes is zero.
LEMMA VersusZero ==
  ASSUME ServerType, NEW living, NEW i \in Slots
  PROVE  LET versus == Versus(CountAlive([t \in TeamName |-> 0], living).Alive)
         IN  versus[i] \in {0, m_RoundVersus[i]}
<1> DEFINE zero == [t \in TeamName |-> 0]
<1>1. CountAlive(zero, living).Alive = zero
  BY DEF CountAlive
<1>2. \A t \in TeamName : zero[Opponent(t)] = 0
  BY DEF Opponent, TeamName
<1>3. m_iTeam[i] \in TeamName
  BY DEF ServerType
<1> QED
  BY <1>1, <1>2, <1>3 DEF Versus

-----------------------------------------------------------------------------
(* Type correctness. *)

\* AddAccount keeps the types (Stats.cpp:28-40).
LEMMA AddAccountType ==
  ASSUME TypeOK, NEW p \in Slots, NEW amount \in Int, NEW type, AddAccount(p, amount, type)
  PROVE  TypeOK'
<1>1. m_Data' \in [Slots -> CPlayerRecord]
  BY PaidType DEF TypeOK, CStatsType, AddAccount
<1> QED
  BY <1>1 DEF AddAccount, TypeOK, CStatsType, ServerType, combatVars, bombVars, managerVars, serverVars

\* TakeDamage keeps the types (Stats.cpp:42-86).
LEMMA TakeDamageType ==
  ASSUME TypeOK, NEW v \in Slots, NEW e, NEW h \in HitGroups, NEW d \in Damages,
         NEW item \in Items, TakeDamage(v, e, h, d, item)
  PROVE  TypeOK'
<1> DEFINE w == IsWeapon(item, TRUE)
           dealt == [m_Data EXCEPT ![e] = Dealt(m_Data[e], h, d, w)]
<1>1. e \in Slots /\ d \in Nat /\ m_iTeam[e] \in TeamName
  BY ClientsAreSlots, InputsAssumption DEF TakeDamage, PlayerByIndexSafe, TypeOK, ServerType
<1>2. m_Data \in [Slots -> CPlayerRecord]
  BY DEF TypeOK, CStatsType
<1>3. dealt \in [Slots -> CPlayerRecord]
  BY <1>1, <1>2, IsWeaponType, DealtType
<1>4. [dealt EXCEPT ![v] = Received(dealt[v], d)] \in [Slots -> CPlayerRecord]
  BY <1>1, <1>3, ReceivedType
<1>5. m_Data' = [dealt EXCEPT ![v] = Received(dealt[v], d)]
  BY DEF TakeDamage
<1>6. /\ m_RoundDamage' \in [Slots -> [Slots -> Nat]]
      /\ m_RoundDamageSelf' \in [Slots -> Nat]
      /\ m_RoundDamageTeam' \in [TeamName -> Nat]
  BY <1>1 DEF TakeDamage, TypeOK, CStatsType
<1> QED
  BY <1>4, <1>5, <1>6 DEF TakeDamage, TypeOK, CStatsType, ServerType, bombVars, managerVars, serverVars

\* Killed keeps the types (Stats.cpp:88-201).
LEMMA KilledType ==
  ASSUME TypeOK, NEW v \in Slots, NEW e, NEW kill \in KillInputs, NEW item \in Items,
         NEW living, Killed(v, e, kill, item, living)
  PROVE  TypeOK'
<1> DEFINE w == IsWeapon(item, TRUE)
           scored == [m_Data EXCEPT ![e] = Scored(m_Data[e], w, kill)]
           died == [scored EXCEPT ![v] = Died(scored[v], w)]
<1>1. e \in Slots /\ kill \in KillInput
  BY ClientsAreSlots, InputsAssumption DEF Killed, PlayerByIndexSafe
<1>2. m_Data \in [Slots -> CPlayerRecord]
  BY DEF TypeOK, CStatsType
<1>3. scored \in [Slots -> CPlayerRecord]
  BY <1>1, <1>2, IsWeaponType, ScoredType
<1>4. died \in [Slots -> CPlayerRecord]
  BY <1>1, <1>3, IsWeaponType, DiedType
<1>5. m_Data' = [i \in Slots |-> IF i \in Assists(e, v) THEN Assisted(died[i]) ELSE died[i]]
  BY DEF Killed, AfterKill
<1> HIDE DEF died
<1>6. m_Data' \in [Slots -> CPlayerRecord]
  BY <1>4, <1>5, AssistedType
<1>7. m_RoundFrags' \in [Slots -> 0..MaxRoundFrags]
  BY <1>1, FragsAssumption, SlotsAssumption DEF Killed, TypeOK, CStatsType
<1>8. m_RoundVersus' \in [Slots -> Slots]
  <2> DEFINE versus == Versus(CountAlive([t \in TeamName |-> 0], living).Alive)
  <2>1. \A i \in Slots : versus[i] \in Slots
    BY VersusZero, ClientsAreSlots DEF TypeOK, CStatsType
  <2>2. versus = [i \in Slots |-> versus[i]]
    BY DEF Versus
  <2>3. m_RoundVersus' = versus
    BY DEF Killed
  <2> HIDE DEF versus
  <2> QED
    BY <2>1, <2>2, <2>3
<1> QED
  BY <1>6, <1>7, <1>8
  DEF Killed, TypeOK, CStatsType, ServerType, bombVars, managerVars, serverVars

\* SetAnimation keeps the types (Stats.cpp:203-224).
LEMMA SetAnimationType ==
  ASSUME TypeOK, NEW p \in Slots, NEW item \in Items, SetAnimation(p, item)
  PROVE  TypeOK'
<1>1. IsWeapon(item, FALSE) \in WeaponIds
  BY IsWeaponType DEF SetAnimation, WeaponOrNone
<1>2. m_Data' \in [Slots -> CPlayerRecord]
  BY <1>1, FiredType DEF SetAnimation, TypeOK, CStatsType
<1> QED
  BY <1>2 DEF SetAnimation, TypeOK, CStatsType, ServerType, combatVars, bombVars, managerVars, serverVars

\* The five handlers of the bomb keep the types (Stats.cpp:226-299).
LEMMA BombType == TypeOK /\ Bomb => TypeOK'
<1> SUFFICES ASSUME TypeOK, Bomb
             PROVE  TypeOK'
  OBVIOUS
<1>1. connected \subseteq Slots /\ connected \subseteq Clients /\ Clients \subseteq Slots
  BY ClientsAreSlots DEF TypeOK, ServerType
<1>2. m_Data \in [Slots -> CPlayerRecord]
  BY DEF TypeOK, CStatsType
<1>3. ASSUME NEW p \in Slots, NEW what \in BombGroup
      PROVE  [m_Data EXCEPT ![p] = Bombed(m_Data[p], what)] \in [Slots -> CPlayerRecord]
  BY <1>2, BombedType
<1>4. BombGroup = {"PLANTING", "PLANTED", "EXPLODED", "DEFUSING", "DEFUSED"}
  BY DEF BombGroup
<1> USE DEF TypeOK, CStatsType, ServerType, combatVars, managerVars, serverVars
<1>5. ASSUME NEW p \in connected, NEW planted \in BOOLEAN, PlantBomb(p, planted)
      PROVE  TypeOK'
  BY <1>1, <1>3, <1>4, <1>5 DEF PlantBomb
<1>6. ASSUME NEW p \in connected, DefuseBombStart(p)
      PROVE  TypeOK'
  BY <1>1, <1>3, <1>4, <1>6 DEF DefuseBombStart, bombVars
<1>7. ASSUME NEW p \in connected, DefuseBombEnd(p)
      PROVE  TypeOK'
  BY <1>1, <1>3, <1>4, <1>7 DEF DefuseBombEnd
<1>8. CASE ExplodeBomb
  BY <1>1, <1>3, <1>4, <1>8 DEF ExplodeBomb, PlayerByIndexSafe, bombVars
<1> QED
  BY <1>5, <1>6, <1>7, <1>8 DEF Bomb

\* The record of a slot after a round (Stats.cpp:325-397).
LEMMA AfterRoundType ==
  ASSUME TypeOK, NEW i \in Slots, NEW Winner \in TeamName, NEW event
  PROVE  AfterRound(i, Winner, event) \in CPlayerRecord
<1> DEFINE played == Streak(RoundPlayed(m_Data[i], m_iTeam[i], Winner), m_RoundFrags[i])
           faced == IF m_iTeam[i] = Winner THEN Clutched(played, m_RoundVersus[i]) ELSE played
<1>1. /\ m_Data[i] \in CPlayerRecord
      /\ m_RoundFrags[i] \in 0..MaxRoundFrags
      /\ m_RoundVersus[i] \in Slots
  BY DEF TypeOK, CStatsType
<1>2. played \in CPlayerRecord
  BY <1>1, RoundPlayedType, StreakType
<1> HIDE DEF played
<1>3. faced \in CPlayerRecord
  BY <1>1, <1>2, ClutchedType
<1>4. BombShare(i, event) \in Fraction
  BY DEF BombShare, MANAGER_RWS_C4_DEFUSED, MANAGER_RWS_C4_EXPLODE, Frac, Fraction
<1>5. DamageShare(i, Winner, event) \in Fraction
  <2>1. m_RoundDamageSelf[i] \in Nat /\ m_RoundDamageTeam[Winner] \in Nat
    BY DEF TypeOK, CStatsType
  <2> QED
    BY <2>1 DEF DamageShare, MapTarget, Frac, Fraction
<1>6. AfterRound(i, Winner, event) =
        Shared(Shared(faced, BombShare(i, event)), DamageShare(i, Winner, event))
  BY DEF AfterRound, played
<1> HIDE DEF faced
<1> QED
  BY <1>3, <1>4, <1>5, <1>6, SharedType

\* RoundFreezeEnd and RoundEnd keep the types (Stats.cpp:301-402).
LEMMA RoundType == TypeOK /\ Round => TypeOK'
<1> SUFFICES ASSUME TypeOK, Round
             PROVE  TypeOK'
  OBVIOUS
<1>1. CASE RoundFreezeEnd
  BY <1>1, ClientsAreSlots, FragsAssumption, SlotsAssumption
  DEF RoundFreezeEnd, ZeroDamage, ZeroKills, ZeroBomb, ZeroPerSlot, ZeroPerTeam,
      TypeOK, CStatsType, ServerType, managerVars, serverVars
<1>2. ASSUME NEW winStatus, NEW event, RoundEnd(winStatus, event)
      PROVE  TypeOK'
  <2> DEFINE Winner == IF winStatus = "WINSTATUS_TERRORISTS" THEN "TERRORIST" ELSE "CT"
  <2>1. m_Data' = [i \in Slots |-> IF PlayerByIndexSafe(i) THEN AfterRound(i, Winner, event)
                                   ELSE m_Data[i]]
    BY <1>2 DEF RoundEnd
  <2>2. Winner \in TeamName
    BY DEF TeamName
  <2>3. \A i \in Slots : m_Data[i] \in CPlayerRecord
    BY DEF TypeOK, CStatsType
  <2> HIDE DEF Winner
  <2>4. m_Data' \in [Slots -> CPlayerRecord]
    BY <2>1, <2>2, <2>3, AfterRoundType
  <2> QED
    BY <1>2, <2>4
    DEF RoundEnd, TypeOK, CStatsType, ServerType, combatVars, bombVars, managerVars, serverVars
<1> QED
  BY <1>1, <1>2 DEF Round

\* Players coming, going and changing teams keep the types.
LEMMA SessionType == TypeOK /\ Session => TypeOK'
<1> SUFFICES ASSUME TypeOK, Session
             PROVE  TypeOK'
  OBVIOUS
<1>1. connected \subseteq Slots /\ Clients \subseteq Slots
  BY ClientsAreSlots DEF TypeOK, ServerType
<1> USE DEF TypeOK, CStatsType, ServerType, combatVars, bombVars, managerVars, serverVars, pluginVars
<1>2. ASSUME NEW p \in Clients, ClientPutInServer(p)
      PROVE  TypeOK'
  BY <1>1, <1>2 DEF ClientPutInServer, TeamName
<1>3. ASSUME NEW p \in connected, NEW netname \in Names, GetIntoGame(p, netname)
      PROVE  TypeOK'
  BY <1>1, <1>3, JoinType DEF GetIntoGame
<1>4. ASSUME NEW p \in connected, SV_DropClient(p)
      PROVE  TypeOK'
  BY <1>1, <1>4, ClearType DEF SV_DropClient, Disconnected
<1>5. ASSUME NEW p \in connected, NEW team \in Teams, ChangeTeam(p, team)
      PROVE  TypeOK'
  BY <1>1, <1>5, InputsAssumption DEF ChangeTeam
<1>6. ASSUME NEW p \in Clients, FreePrivateData(p)
      PROVE  TypeOK'
  BY <1>1, <1>6 DEF FreePrivateData, TeamName
<1> QED
  BY <1>2, <1>3, <1>4, <1>5, <1>6 DEF Session

\* The map's start and end and the cvar keep the types.
LEMMA MapType == TypeOK /\ Map => TypeOK'
<1> SUFFICES ASSUME TypeOK, Map
             PROVE  TypeOK'
  OBVIOUS
<1>1. AllZeroed \in [Slots -> CPlayerRecord]
  BY ZeroedType DEF AllZeroed
<1> USE DEF TypeOK, CStatsType, ServerType, combatVars, bombVars, managerVars, serverVars, pluginVars
<1>2. CASE ServerActivate
  BY <1>1, <1>2, InputsAssumption DEF ServerActivate, CvarRegister, NoCvar
<1>3. CASE ServerDeactivate
  BY <1>1, <1>3 DEF ServerDeactivate, TeamName
<1>4. ASSUME NEW value \in CvarValues, SetCvar(value)
      PROVE  TypeOK'
  BY <1>4, InputsAssumption DEF SetCvar, NoCvar
<1> QED
  BY <1>2, <1>3, <1>4 DEF Map

\* Combat keeps the types.
LEMMA CombatType == TypeOK /\ Combat => TypeOK'
<1> SUFFICES ASSUME TypeOK, Combat
             PROVE  TypeOK'
  OBVIOUS
<1>1. connected \subseteq Slots
  BY ClientsAreSlots DEF TypeOK, ServerType
<1>2. \A pay \in Payments : pay[1] \in Int
  BY InputsAssumption
<1> QED
  BY <1>1, <1>2, AddAccountType, TakeDamageType, KilledType, SetAnimationType DEF Combat

\* The plugin's initial state has the types.
LEMMA InitType == Init => TypeOK
<1> SUFFICES ASSUME Init
             PROVE  TypeOK
  OBVIOUS
<1>1. ZeroPerSlot \in [Slots -> Nat] /\ ZeroPerSlot \in [Slots -> Slots]
      /\ ZeroPerSlot \in [Slots -> 0..MaxRoundFrags] /\ ZeroPerTeam \in [TeamName -> Nat]
  BY ClientsAreSlots, FragsAssumption, SlotsAssumption DEF ZeroPerSlot, ZeroPerTeam
<1>2. AllZeroed \in [Slots -> CPlayerRecord]
  BY ZeroedType DEF AllZeroed
<1>3. CStatsType
  BY <1>1, <1>2 DEF Init, CStatsType
<1>4. connected \subseteq Clients /\ (~sv_active => connected = {})
  BY DEF Init
<1>5. ServerType
  BY <1>4 DEF Init, ServerType, TeamName
<1> QED
  BY <1>3, <1>5 DEF TypeOK

\* Every step of Stats keeps the types.
LEMMA NextType == TypeOK /\ [Next]_vars => TypeOK'
<1>1. TypeOK /\ UNCHANGED vars => TypeOK'
  BY DEF vars, combatVars, bombVars, managerVars, serverVars, TypeOK, CStatsType, ServerType
<1> QED
  BY <1>1, CombatType, BombType, RoundType, SessionType, MapType DEF Next

\* Every variable of Stats always has its type, whatever order the game calls the
\* handlers in.
THEOREM TypeCorrect == Spec => []TypeOK
BY InitType, NextType, PTL DEF Spec

=============================================================================
