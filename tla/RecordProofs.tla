---------------------------- MODULE RecordProofs -----------------------------
(***************************************************************************)
(* What a step of Stats does to one record, and the properties of Stats    *)
(* that follow from it: each speaks of one slot at a time, so it is enough *)
(* to know which operators of CPlayer a step may apply to the slot's       *)
(* record.  What the record adds up over its arrays is known from the      *)
(* entry that an operator raises and from SumProofs.                       *)
(***************************************************************************)
EXTENDS StatsProofs, SumProofs

Winners == {"TERRORIST", "CT"}

\* d is cleared.
Wiped(d) == {Clear(d), Zeroed} \cup {Join(d, netname) : netname \in Names}

\* A record that is cleared is zero in every field but Index and HitBoxDamage.
LEMMA WipedFields ==
  ASSUME NEW d \in CPlayerRecord, NEW r \in Wiped(d)
  PROVE  /\ r.Frags = 0 /\ r.Deaths = 0 /\ r.Assists = 0 /\ r.Headshot = 0
         /\ r.Damage = 0 /\ r.DamageReceive = 0
         /\ r.Shots = 0 /\ r.Hits = 0
         /\ r.HitBox = [h \in HitGroups |-> 0]
         /\ r.Rounds = [PLAY |-> 0, WIN_TR |-> 0, LOSE_TR |-> 0, WIN_CT |-> 0, LOSE_CT |-> 0]
         /\ r.RoundWinShare = Frac(0, 1)
         /\ r.WeaponStats = [w \in WeaponIds |-> [KILL |-> 0, DEATH |-> 0, HEADSHOT |-> 0,
                                                  SHOT |-> 0, HIT |-> 0, DAMAGE |-> 0]]
         /\ r.KillStreak = [n \in Slots |-> 0] /\ r.Versus = [n \in Slots |-> 0]
         /\ r.HackStats = [VISION |-> 0, ONEHIT |-> 0, NOSCOP |-> 0]
<1>1. PICK netname : r \in {Clear(d), Join(d, netname), Zeroed}
  BY DEF Wiped
<1> QED
  BY <1>1, ClearFields

\* d's owner is paid, shoots or handles the bomb.
Handled(d) ==
  {Paid(d, amount, type) : amount \in Int, type \in RewardType}
    \cup {Bombed(d, what) : what \in BombGroup} \cup {Fired(d, w) : w \in WeaponIds}

\* d's owner hits someone, is hit, or both.
Hurt(d) ==
  {Dealt(d, h, dmg, w) : h \in HitGroups, dmg \in Nat, w \in WeaponOrNone}
    \cup {Received(d, dmg) : dmg \in Nat}
    \cup {Received(Dealt(d, h, dmg, w), dmg) : h \in HitGroups, dmg \in Nat, w \in WeaponOrNone}

\* d's owner kills, dies (and may assist) or assists.
Fought(d) ==
  {Scored(d, w, kill) : w \in WeaponOrNone, kill \in KillInput}
    \cup {Died(d, w) : w \in WeaponOrNone}
    \cup {Assisted(Died(d, w)) : w \in WeaponOrNone}
    \cup {Assisted(d)}

\* The step from d, the record of slot i, to r, when nobody is killed.
QuietStep(i, d, r) ==
  \/ r = d
  \/ r \in Handled(d) \cup Hurt(d)
  \/ \E Winner \in Winners, event \in {result[2] : result \in RoundResults} :
       r = AfterRound(i, Winner, event)

\* The step from d, the record of slot i, to r, when the player plays on.
PlayStep(i, d, r) == QuietStep(i, d, r) \/ r \in Fought(d)

\* Somebody is killed.
AnyKilled ==
  \E v \in connected, e \in Entities, kill \in KillInputs, item \in Items :
    \E living \in SUBSET (connected \ {v}) : Killed(v, e, kill, item, living)

\* Any step from d, the record of slot i, to r.
RecordStep(i, d, r) == r \in Wiped(d) \/ PlayStep(i, d, r)

\* What TakeDamage makes of x, the record of slot i, when e hits v.
AfterHit(x, i, v, e, h, dmg, w) ==
  IF i = v /\ i = e THEN Received(Dealt(x, h, dmg, w), dmg)
  ELSE IF i = v THEN Received(x, dmg)
  ELSE IF i = e THEN Dealt(x, h, dmg, w)
  ELSE x

\* TakeDamage: attacker and victim may be the same player (Stats.cpp:42-86).
LEMMA TakeDamageStep ==
  ASSUME TypeOK, NEW v \in Slots, NEW e, NEW h \in HitGroups, NEW d \in Damages,
         NEW item \in Items, TakeDamage(v, e, h, d, item), NEW i \in Slots
  PROVE  m_Data'[i] = AfterHit(m_Data[i], i, v, e, h, d, IsWeapon(item, TRUE))
<1> DEFINE w == IsWeapon(item, TRUE)
           dealt == [m_Data EXCEPT ![e] = Dealt(m_Data[e], h, d, w)]
<1>1. e \in Slots
  BY ClientsAreSlots DEF TakeDamage, PlayerByIndexSafe
<1>2. m_Data \in [Slots -> CPlayerRecord]
  BY DEF TypeOK, CStatsType
<1>3. m_Data' = [dealt EXCEPT ![v] = Received(dealt[v], d)]
  BY DEF TakeDamage
<1> HIDE DEF w
<1>4. dealt[i] = IF i = e THEN Dealt(m_Data[i], h, d, w) ELSE m_Data[i]
  BY <1>2
<1>5. m_Data'[i] = IF i = v THEN Received(dealt[i], d) ELSE dealt[i]
  BY <1>2, <1>3
<1> HIDE DEF dealt
<1> QED
  BY <1>4, <1>5 DEF w, AfterHit

\* Killed: killer and victim differ (Stats.cpp:88-201).
LEMMA KilledStep ==
  ASSUME TypeOK, NEW v \in Slots, NEW e, NEW kill \in KillInputs, NEW item \in Items,
         NEW living, Killed(v, e, kill, item, living), NEW i \in Slots
  PROVE  LET w == IsWeapon(item, TRUE)
         IN  m_Data'[i] = IF i = e THEN Scored(m_Data[i], w, kill)
                          ELSE IF i = v /\ i \in Assists(e, v) THEN Assisted(Died(m_Data[i], w))
                          ELSE IF i = v THEN Died(m_Data[i], w)
                          ELSE IF i \in Assists(e, v) THEN Assisted(m_Data[i])
                          ELSE m_Data[i]
<1> DEFINE w == IsWeapon(item, TRUE)
           scored == [m_Data EXCEPT ![e] = Scored(m_Data[e], w, kill)]
           died == [scored EXCEPT ![v] = Died(scored[v], w)]
<1>1. e \in Slots /\ v # e /\ e \notin Assists(e, v)
  BY ClientsAreSlots DEF Killed, PlayerByIndexSafe, Assists
<1>2. m_Data \in [Slots -> CPlayerRecord]
  BY DEF TypeOK, CStatsType
<1>3. m_Data' = [j \in Slots |-> IF j \in Assists(e, v) THEN Assisted(died[j]) ELSE died[j]]
  BY DEF Killed, AfterKill
<1> HIDE DEF w
<1>4. died[i] = IF i = e THEN Scored(m_Data[i], w, kill)
                ELSE IF i = v THEN Died(m_Data[i], w) ELSE m_Data[i]
  BY <1>1, <1>2
<1>5. m_Data'[i] = IF i \in Assists(e, v) THEN Assisted(died[i]) ELSE died[i]
  BY <1>3
<1> HIDE DEF died
<1> QED
  BY <1>1, <1>4, <1>5 DEF w

\* While nobody is killed, a handler leaves a record alone or changes it in one of
\* these ways.
LEMMA QuietSteps ==
  ASSUME TypeOK, Combat \/ Bomb \/ Round, ~AnyKilled, NEW i \in Slots
  PROVE  QuietStep(i, m_Data[i], m_Data'[i])
<1>1. connected \subseteq Slots /\ connected \subseteq Clients /\ Clients \subseteq Slots
  BY ClientsAreSlots DEF TypeOK, ServerType
<1>2. m_Data \in [Slots -> CPlayerRecord]
  BY DEF TypeOK, CStatsType
<1>3. CASE Combat
  <2>1. ASSUME NEW p \in connected, NEW pay \in Payments, AddAccount(p, pay[1], pay[2])
        PROVE  QuietStep(i, m_Data[i], m_Data'[i])
    <3>1. pay[1] \in Int /\ pay[2] \in RewardType
      BY <2>1, InputsAssumption DEF AddAccount
    <3>2. m_Data'[i] = IF i = p THEN Paid(m_Data[i], pay[1], pay[2]) ELSE m_Data[i]
      BY <1>1, <1>2, <2>1 DEF AddAccount
    <3>3. Paid(m_Data[i], pay[1], pay[2]) \in Handled(m_Data[i])
      BY <3>1 DEF Handled
    <3> QED
      BY <3>2, <3>3 DEF QuietStep
  <2>2. ASSUME NEW v \in connected, NEW e \in Entities, NEW h \in HitGroups, NEW d \in Damages,
               NEW item \in Items, TakeDamage(v, e, h, d, item)
        PROVE  QuietStep(i, m_Data[i], m_Data'[i])
    <3> DEFINE w == IsWeapon(item, TRUE)
    <3>1. w \in WeaponOrNone /\ d \in Nat
      BY IsWeaponType, InputsAssumption
    <3>2. m_Data'[i] = AfterHit(m_Data[i], i, v, e, h, d, w)
      BY <1>1, <2>2, TakeDamageStep, ZenonT(60)
    <3> HIDE DEF w
    <3>3. {Received(Dealt(m_Data[i], h, d, w), d), Received(m_Data[i], d),
           Dealt(m_Data[i], h, d, w)} \subseteq Hurt(m_Data[i])
      BY <3>1 DEF Hurt
    <3> QED
      BY <3>2, <3>3 DEF QuietStep, AfterHit
  <2>3. ASSUME NEW p \in connected, NEW item \in Items, SetAnimation(p, item)
        PROVE  QuietStep(i, m_Data[i], m_Data'[i])
    <3> DEFINE w == IsWeapon(item, FALSE)
    <3>1. w \in WeaponIds
      BY <2>3, IsWeaponType DEF SetAnimation, WeaponOrNone
    <3>2. m_Data'[i] = IF i = p THEN Fired(m_Data[i], w) ELSE m_Data[i]
      BY <1>1, <1>2, <2>3 DEF SetAnimation
    <3> HIDE DEF w
    <3>3. Fired(m_Data[i], w) \in Handled(m_Data[i])
      BY <3>1 DEF Handled
    <3> QED
      BY <3>2, <3>3 DEF QuietStep
  <2> QED
    BY <1>3, <2>1, <2>2, <2>3 DEF Combat, AnyKilled
<1>4. CASE Bomb
  <2>1. ASSUME NEW p \in Slots, NEW what \in BombGroup,
               m_Data' = [m_Data EXCEPT ![p] = Bombed(m_Data[p], what)]
        PROVE  QuietStep(i, m_Data[i], m_Data'[i])
    <3>1. m_Data'[i] = IF i = p THEN Bombed(m_Data[i], what) ELSE m_Data[i]
      BY <1>2, <2>1
    <3> QED
      BY <3>1 DEF QuietStep, Handled
  <2>2. BombGroup = {"PLANTING", "PLANTED", "EXPLODED", "DEFUSING", "DEFUSED"}
    BY DEF BombGroup
  <2>3. \E p \in Slots, what \in BombGroup : m_Data' = [m_Data EXCEPT ![p] = Bombed(m_Data[p], what)]
    BY <1>1, <1>4, <2>2
    DEF Bomb, PlantBomb, DefuseBombStart, DefuseBombEnd, ExplodeBomb, PlayerByIndexSafe
  <2> QED
    BY <2>1, <2>3
<1>5. CASE Round
  <2>1. CASE RoundFreezeEnd
    BY <2>1 DEF RoundFreezeEnd, QuietStep
  <2>2. ASSUME NEW result \in RoundResults, RoundEnd(result[1], result[2])
        PROVE  QuietStep(i, m_Data[i], m_Data'[i])
    <3> DEFINE Winner == IF result[1] = "WINSTATUS_TERRORISTS" THEN "TERRORIST" ELSE "CT"
    <3>1. Winner \in Winners
      BY DEF Winners
    <3>2. m_Data'[i] = IF PlayerByIndexSafe(i) THEN AfterRound(i, Winner, result[2]) ELSE m_Data[i]
      BY <2>2 DEF RoundEnd
    <3> HIDE DEF Winner
    <3> QED
      BY <3>1, <3>2 DEF QuietStep
  <2> QED
    BY <1>5, <2>1, <2>2 DEF Round
<1> QED
  BY <1>3, <1>4, <1>5

\* A handler of the round leaves a record alone or changes it in one of these ways.
LEMMA PlaySteps ==
  ASSUME TypeOK, Combat \/ Bomb \/ Round, NEW i \in Slots
  PROVE  PlayStep(i, m_Data[i], m_Data'[i])
<1>1. connected \subseteq Slots
  BY ClientsAreSlots DEF TypeOK, ServerType
<1>2. ASSUME NEW v \in connected, NEW e \in Entities, NEW kill \in KillInputs,
             NEW item \in Items, NEW living, Killed(v, e, kill, item, living)
      PROVE  PlayStep(i, m_Data[i], m_Data'[i])
  <2> DEFINE w == IsWeapon(item, TRUE)
  <2>1. w \in WeaponOrNone /\ kill \in KillInput
    BY IsWeaponType, InputsAssumption
  <2>2. m_Data'[i] = IF i = e THEN Scored(m_Data[i], w, kill)
                     ELSE IF i = v /\ i \in Assists(e, v) THEN Assisted(Died(m_Data[i], w))
                     ELSE IF i = v THEN Died(m_Data[i], w)
                     ELSE IF i \in Assists(e, v) THEN Assisted(m_Data[i])
                     ELSE m_Data[i]
    BY <1>1, <1>2, KilledStep
  <2> HIDE DEF w
  <2>3. m_Data'[i] \in {m_Data[i]} \cup Fought(m_Data[i])
    BY <2>1, <2>2 DEF Fought
  <2> QED
    BY <2>3 DEF PlayStep, QuietStep
<1>3. CASE ~AnyKilled
  BY <1>3, QuietSteps DEF PlayStep
<1> QED
  BY <1>2, <1>3 DEF AnyKilled

\* Players and maps coming and going clear a record or leave it alone.
LEMMA RestSteps ==
  ASSUME TypeOK, Session \/ Map \/ UNCHANGED vars, NEW i \in Slots
  PROVE  m_Data'[i] \in Wiped(m_Data[i]) \cup {m_Data[i]}
<1>1. connected \subseteq Slots /\ Clients \subseteq Slots
  BY ClientsAreSlots DEF TypeOK, ServerType
<1>2. m_Data \in [Slots -> CPlayerRecord]
  BY DEF TypeOK, CStatsType
<1>3. CASE UNCHANGED vars
  BY <1>3 DEF vars
<1>4. CASE Session
  BY <1>1, <1>2, <1>4
  DEF Session, ClientPutInServer, GetIntoGame, SV_DropClient, FreePrivateData, Disconnected, ChangeTeam,
      pluginVars, Wiped
<1>5. CASE Map
  BY <1>2, <1>5
  DEF Map, ServerActivate, ServerDeactivate, SetCvar, AllZeroed, pluginVars, Wiped
<1> QED
  BY <1>3, <1>4, <1>5

\* Whatever happens, a record is cleared or the player plays on.
LEMMA RecordSteps ==
  ASSUME TypeOK, [Next]_vars, NEW i \in Slots
  PROVE  RecordStep(i, m_Data[i], m_Data'[i])
<1>1. CASE Combat \/ Bomb \/ Round
  BY <1>1, PlaySteps DEF RecordStep
<1>2. CASE Session \/ Map \/ UNCHANGED vars
  BY <1>2, RestSteps DEF RecordStep, PlayStep, QuietStep
<1> QED
  BY <1>1, <1>2 DEF Next

\* What the end of a round leaves of a record, and what it adds (Stats.cpp:325-397).
LEMMA AfterRoundFields ==
  ASSUME TypeOK, NEW i \in Slots, NEW Winner, NEW event
  PROVE  LET d == m_Data[i]
             r == AfterRound(i, Winner, event)
         IN  /\ r.Rounds = RoundCounted(d.Rounds, m_iTeam[i], Winner)
             /\ r.Frags = d.Frags /\ r.Deaths = d.Deaths /\ r.Assists = d.Assists
             /\ r.Headshot = d.Headshot /\ r.Damage = d.Damage
             /\ r.DamageReceive = d.DamageReceive
             /\ r.BombStats = d.BombStats /\ r.WeaponStats = d.WeaponStats
             /\ r.HackStats = d.HackStats
             /\ r.Shots = d.Shots /\ r.Hits = d.Hits /\ r.HitBox = d.HitBox
             /\ r.RoundWinShare = FracAdd(FracAdd(d.RoundWinShare, BombShare(i, event)),
                                         DamageShare(i, Winner, event))
             /\ m_RoundVersus[i] = 0 /\ m_RoundFrags[i] \in Slots => r.Versus = d.Versus
<1> DEFINE d == m_Data[i]
           counted == RoundPlayed(d, m_iTeam[i], Winner)
           played == Streak(counted, m_RoundFrags[i])
           faced == IF m_iTeam[i] = Winner THEN Clutched(played, m_RoundVersus[i]) ELSE played
           paid == Shared(faced, BombShare(i, event))
<1>1. /\ d \in CPlayerRecord
      /\ m_RoundFrags[i] \in 0..MaxRoundFrags
      /\ m_RoundVersus[i] \in Slots
  BY DEF TypeOK, CStatsType
<1>2. AfterRound(i, Winner, event) = Shared(paid, DamageShare(i, Winner, event))
  BY DEF AfterRound
<1> HIDE DEF d
<1>3. counted \in CPlayerRecord /\ counted.Versus = d.Versus
  BY <1>1, RoundPlayedType, RoundPlayedFields
<1> DEFINE Same(r) == /\ r.Rounds = RoundCounted(d.Rounds, m_iTeam[i], Winner)
                      /\ r.Frags = d.Frags /\ r.Deaths = d.Deaths /\ r.Assists = d.Assists
                      /\ r.Headshot = d.Headshot /\ r.Damage = d.Damage
                      /\ r.DamageReceive = d.DamageReceive
                      /\ r.BombStats = d.BombStats /\ r.WeaponStats = d.WeaponStats
                      /\ r.HackStats = d.HackStats
                      /\ r.Shots = d.Shots /\ r.Hits = d.Hits /\ r.HitBox = d.HitBox
<1>4. Same(counted) /\ counted.RoundWinShare = d.RoundWinShare
  BY <1>1, RoundPlayedFields
<1> HIDE DEF counted
<1>5. /\ played \in CPlayerRecord /\ Same(played) /\ played.RoundWinShare = d.RoundWinShare
      /\ m_RoundFrags[i] \in Slots => played.Versus = d.Versus
  BY <1>1, <1>3, <1>4, StreakType, StreakFields, StreakKeepsVersus
<1> HIDE DEF played
<1>6. /\ faced \in CPlayerRecord /\ Same(faced) /\ faced.RoundWinShare = d.RoundWinShare
      /\ m_RoundVersus[i] = 0 /\ m_RoundFrags[i] \in Slots => faced.Versus = d.Versus
  BY <1>1, <1>5, ClutchedType, ClutchedFields
<1> HIDE DEF faced
<1>7. BombShare(i, event) \in Fraction
  BY DEF BombShare, MANAGER_RWS_C4_DEFUSED, MANAGER_RWS_C4_EXPLODE, Frac, Fraction
<1>8. /\ paid \in CPlayerRecord /\ Same(paid)
      /\ paid.RoundWinShare = FracAdd(d.RoundWinShare, BombShare(i, event))
      /\ m_RoundVersus[i] = 0 /\ m_RoundFrags[i] \in Slots => paid.Versus = d.Versus
  BY <1>6, <1>7, SharedType, SharedFields
<1> HIDE DEF paid
<1> QED
  BY <1>2, <1>8, SharedFields DEF d

-----------------------------------------------------------------------------
(* Rounds are partitioned. *)

\* A record whose rounds are each won or lost on one side.
Partitioned(r) == r.PLAY = r.WIN_TR + r.LOSE_TR + r.WIN_CT + r.LOSE_CT

\* One more round is won or lost on one side, whatever the team (Stats.cpp:366-397).
LEMMA RoundCountedPartition ==
  ASSUME NEW r \in RoundGroup, Partitioned(r), NEW team, NEW winner
  PROVE  Partitioned(RoundCounted(r, team, winner))
BY DEF RoundGroup, Partitioned, RoundCounted, Bit

\* Every step keeps the rounds of a record partitioned.
LEMMA PartitionStep ==
  ASSUME TypeOK, NEW i \in Slots, NEW r, RecordStep(i, m_Data[i], r),
         Partitioned(m_Data[i].Rounds)
  PROVE  Partitioned(r.Rounds)
<1> DEFINE d == m_Data[i]
<1>1. d \in CPlayerRecord
  BY DEF TypeOK, CStatsType
<1> HIDE DEF d
<1>2. CASE r \in Wiped(d)
  <2>1. r.Rounds = [PLAY |-> 0, WIN_TR |-> 0, LOSE_TR |-> 0, WIN_CT |-> 0, LOSE_CT |-> 0]
    BY <1>1, <1>2, WipedFields
  <2> QED
    BY <2>1 DEF Partitioned
<1>3. CASE r \in Handled(d)
  BY <1>1, <1>3, PaidFields, BombedFields, FiredFields DEF Handled, d
<1>4. CASE r \in Hurt(d)
  BY <1>1, <1>4, DealtFields, DealtType, ReceivedFields DEF Hurt, d
<1>5. CASE r \in Fought(d)
  BY <1>1, <1>5, ScoredFields, DiedFields, DiedType, AssistedFields DEF Fought, d
<1>6. ASSUME NEW Winner, NEW event, r = AfterRound(i, Winner, event)
      PROVE  Partitioned(r.Rounds)
  <2>1. d.Rounds \in RoundGroup /\ Partitioned(d.Rounds)
    BY <1>1 DEF CPlayerRecord, d
  <2>2. r.Rounds = RoundCounted(d.Rounds, m_iTeam[i], Winner)
    BY <1>6, AfterRoundFields DEF d
  <2> QED
    BY <2>1, <2>2, RoundCountedPartition
<1> QED
  BY <1>2, <1>3, <1>4, <1>5, <1>6 DEF RecordStep, PlayStep, QuietStep, d

\* Whatever the handlers' order, every round a slot has played is exactly one of won
\* and lost, as one side (Stats.cpp:366-397).
THEOREM RoundsArePartitioned == Spec => []RoundsPartitioned
<1>1. Init => RoundsPartitioned
  BY DEF Init, RoundsPartitioned, AllZeroed, Zeroed
<1>2. TypeOK /\ RoundsPartitioned /\ [Next]_vars => RoundsPartitioned'
  BY RecordSteps, PartitionStep DEF RoundsPartitioned, Partitioned
<1> QED
  BY <1>1, <1>2, TypeCorrect, PTL DEF Spec

-----------------------------------------------------------------------------
(* Headshots and suspicions are kills. *)

\* No weapon has more headshots than kills.
TableSound(ws) == \A w \in WeaponIds : ws[w].HEADSHOT <= ws[w].KILL

\* HeadshotsAreKills for one record.
RecordSound(d) == /\ d.Headshot <= d.Frags
                  /\ TableSound(d.WeaponStats)
                  /\ d.HackStats.ONEHIT <= d.Frags
                  /\ d.HackStats.NOSCOP <= d.Frags
                  /\ d.HackStats.VISION <= d.Frags

\* No handler raises a weapon's headshots without its kills (Stats.cpp:121-130).
LEMMA TableSoundStep ==
  ASSUME NEW ws \in WeaponTable, NEW w \in WeaponOrNone, TableSound(ws)
  PROVE  /\ \A dmg \in Nat : TableSound(HitWith(ws, w, dmg))
         /\ \A head \in BOOLEAN : TableSound(KillWith(ws, w, head))
         /\ TableSound(DeathBy(ws, w))
         /\ w # WEAPON_NONE => TableSound(ShotWith(ws, w))
<1> USE DEF WeaponTable, WeaponStatsGroup, WeaponOrNone, TableSound
<1>1. \A dmg \in Nat : TableSound(HitWith(ws, w, dmg))
  BY DEF HitWith
<1>2. \A head \in BOOLEAN : TableSound(KillWith(ws, w, head))
  BY DEF KillWith, Bit
<1>3. TableSound(DeathBy(ws, w))
  BY DEF DeathBy
<1>4. w # WEAPON_NONE => TableSound(ShotWith(ws, w))
  BY DEF ShotWith
<1> QED
  BY <1>1, <1>2, <1>3, <1>4

\* A kill raises the frags by one, the headshots and each suspicion by at most one
\* (Stats.cpp:110-160).
LEMMA ScoredSound ==
  ASSUME NEW d \in CPlayerRecord, NEW w \in WeaponOrNone, NEW kill \in KillInput, RecordSound(d)
  PROVE  RecordSound(Scored(d, w, kill))
<1> DEFINE r == Scored(d, w, kill)
<1>1. /\ d.Frags \in Nat /\ d.Headshot \in Nat /\ d.HackStats \in HackStatsGroup
      /\ d.WeaponStats \in WeaponTable /\ kill.head \in BOOLEAN
  BY DEF CPlayerRecord, WeaponTable, KillInput
<1>2. /\ r.Frags = d.Frags + 1
      /\ r.Headshot = d.Headshot + Bit(kill.head)
      /\ r.WeaponStats = KillWith(d.WeaponStats, w, kill.head)
      /\ r.HackStats = (IF w = WEAPON_NONE THEN d.HackStats ELSE Hacks(d.HackStats, w, kill))
  BY ScoredFields
<1> HIDE DEF r
<1>3. r.Headshot <= r.Frags
  BY <1>1, <1>2 DEF Bit, RecordSound
<1>4. TableSound(r.WeaponStats)
  BY <1>1, <1>2, TableSoundStep DEF RecordSound
<1>5. /\ r.HackStats.ONEHIT <= r.Frags
      /\ r.HackStats.NOSCOP <= r.Frags
      /\ r.HackStats.VISION <= r.Frags
  BY <1>1, <1>2 DEF Hacks, Bit, RecordSound, HackStatsGroup
<1> QED
  BY <1>3, <1>4, <1>5 DEF RecordSound, r

\* A death is none of the killer's figures (Stats.cpp:108, 125).
LEMMA DiedSound ==
  ASSUME NEW d \in CPlayerRecord, NEW w \in WeaponOrNone, RecordSound(d)
  PROVE  RecordSound(Died(d, w))
<1>1. d.WeaponStats \in WeaponTable
  BY DEF CPlayerRecord, WeaponTable
<1> QED
  BY <1>1, DiedFields, TableSoundStep DEF RecordSound

\* Every step keeps a record sound.
LEMMA RecordSoundStep ==
  ASSUME TypeOK, NEW i \in Slots, NEW r, RecordStep(i, m_Data[i], r), RecordSound(m_Data[i])
  PROVE  RecordSound(r)
<1> DEFINE d == m_Data[i]
<1>1. d \in CPlayerRecord /\ d.WeaponStats \in WeaponTable /\ RecordSound(d)
  BY DEF TypeOK, CStatsType, CPlayerRecord, WeaponTable
<1> HIDE DEF d
<1>2. CASE r \in Wiped(d)
  <2>1. /\ r.Frags = 0 /\ r.Headshot = 0
        /\ r.WeaponStats = [w \in WeaponIds |-> [KILL |-> 0, DEATH |-> 0, HEADSHOT |-> 0,
                                                 SHOT |-> 0, HIT |-> 0, DAMAGE |-> 0]]
        /\ r.HackStats = [VISION |-> 0, ONEHIT |-> 0, NOSCOP |-> 0]
    BY <1>1, <1>2, WipedFields
  <2> QED
    BY <2>1 DEF RecordSound, TableSound
<1>3. CASE r \in Handled(d)
  <2>1. CASE \E amount \in Int, type \in RewardType : r = Paid(d, amount, type)
    BY <1>1, <2>1, PaidFields DEF RecordSound
  <2>2. CASE \E what \in BombGroup : r = Bombed(d, what)
    BY <1>1, <2>2, BombedFields DEF RecordSound
  <2>3. ASSUME NEW w \in WeaponIds, r = Fired(d, w)
        PROVE  RecordSound(r)
    <3>1. TableSound(ShotWith(d.WeaponStats, w))
      BY <1>1 DEF RecordSound, TableSound, ShotWith, WeaponTable, WeaponStatsGroup
    <3> QED
      BY <1>1, <2>3, <3>1, FiredFields DEF RecordSound
  <2> QED
    BY <1>3, <2>1, <2>2, <2>3 DEF Handled
<1>4. CASE r \in Hurt(d)
  <2>1. \A h \in HitGroups, dmg \in Nat, w \in WeaponOrNone :
          RecordSound(Dealt(d, h, dmg, w)) /\ Dealt(d, h, dmg, w) \in CPlayerRecord
    BY <1>1, DealtFields, DealtType, TableSoundStep DEF RecordSound
  <2>2. \A x \in CPlayerRecord, dmg \in Nat : RecordSound(x) => RecordSound(Received(x, dmg))
    BY ReceivedFields DEF RecordSound
  <2> QED
    BY <1>1, <1>4, <2>1, <2>2 DEF Hurt
<1>5. CASE r \in Fought(d)
  <2>1. \A x \in CPlayerRecord : RecordSound(x) => RecordSound(Assisted(x))
    BY AssistedFields DEF RecordSound
  <2> QED
    BY <1>1, <1>5, <2>1, ScoredSound, DiedSound, DiedType DEF Fought
<1>6. ASSUME NEW Winner, NEW event, r = AfterRound(i, Winner, event)
      PROVE  RecordSound(r)
  BY <1>1, <1>6, AfterRoundFields DEF RecordSound, d
<1> QED
  BY <1>1, <1>2, <1>3, <1>4, <1>5, <1>6 DEF RecordStep, PlayStep, QuietStep, d

\* In every state, a slot's headshots and suspicions are at most its kills, in total
\* and for each weapon (Stats.cpp:110-160).
THEOREM HeadshotsAreAlwaysKills == Spec => []HeadshotsAreKills
<1>1. HeadshotsAreKills <=> \A i \in Slots : RecordSound(m_Data[i])
  BY DEF HeadshotsAreKills, RecordSound, TableSound
<1>2. Init => HeadshotsAreKills
  BY <1>1 DEF Init, AllZeroed, Zeroed, RecordSound, TableSound
<1>3. TypeOK /\ HeadshotsAreKills /\ [Next]_vars => HeadshotsAreKills'
  BY RecordSteps, RecordSoundStep DEF HeadshotsAreKills, RecordSound, TableSound
<1> QED
  BY <1>2, <1>3, TypeCorrect, PTL DEF Spec

-----------------------------------------------------------------------------
(* Clutches. *)

\* No clutch is noted.
VersusUnset == \A i \in Slots : m_RoundVersus[i] = 0

\* Killed, the only handler that writes m_RoundVersus, writes what it reads from the
\* array that CountAlive has not filled (Stats.cpp:163-194).
LEMMA VersusUnsetStep == TypeOK /\ VersusUnset /\ [Next]_vars => VersusUnset'
<1> SUFFICES ASSUME TypeOK, VersusUnset, [Next]_vars
             PROVE  VersusUnset'
  OBVIOUS
<1>1. CASE UNCHANGED m_RoundVersus
  BY <1>1 DEF VersusUnset
<1>2. ASSUME NEW v, NEW e, NEW kill, NEW item, NEW living, Killed(v, e, kill, item, living)
      PROVE  VersusUnset'
  <2> DEFINE versus == Versus(CountAlive([t \in TeamName |-> 0], living).Alive)
  <2>1. m_RoundVersus' = versus
    BY <1>2 DEF Killed
  <2>2. \A i \in Slots : versus[i] \in {0, m_RoundVersus[i]}
    BY VersusZero DEF TypeOK
  <2> HIDE DEF versus
  <2> QED
    BY <2>1, <2>2 DEF VersusUnset
<1>3. CASE RoundFreezeEnd
  BY <1>3 DEF RoundFreezeEnd, ZeroKills, ZeroPerSlot, VersusUnset
<1>4. CASE Combat
  <2>1. ASSUME NEW p, NEW amount, NEW type, AddAccount(p, amount, type)
        PROVE  UNCHANGED m_RoundVersus
    BY <2>1 DEF AddAccount, combatVars
  <2>2. ASSUME NEW v, NEW e, NEW h, NEW d, NEW item, TakeDamage(v, e, h, d, item)
        PROVE  UNCHANGED m_RoundVersus
    BY <2>2 DEF TakeDamage
  <2>3. ASSUME NEW p, NEW item, SetAnimation(p, item)
        PROVE  UNCHANGED m_RoundVersus
    BY <2>3 DEF SetAnimation, combatVars
  <2> QED
    BY <1>1, <1>2, <1>4, <2>1, <2>2, <2>3 DEF Combat
<1>5. CASE Bomb
  BY <1>1, <1>5 DEF Bomb, PlantBomb, DefuseBombStart, DefuseBombEnd, ExplodeBomb, combatVars
<1>6. CASE Round
  BY <1>1, <1>3, <1>6 DEF Round, RoundEnd, combatVars
<1>7. CASE Session
  BY <1>1, <1>7
  DEF Session, ClientPutInServer, GetIntoGame, SV_DropClient, FreePrivateData, ChangeTeam, pluginVars, combatVars
<1>8. CASE Map
  BY <1>1, <1>8 DEF Map, ServerActivate, ServerDeactivate, SetCvar, pluginVars, combatVars
<1>9. CASE UNCHANGED vars
  BY <1>1, <1>9 DEF vars, combatVars
<1> QED
  BY <1>4, <1>5, <1>6, <1>7, <1>8, <1>9 DEF Next

\* A clutch is never recorded: Versus grows only where a kill streak has overrun the
\* array KillStreak (Stats.cpp:163, 370, 377-380, 432-456).
THEOREM ClutchesAreNeverCounted == Spec => VersusOnlyFromOverrun
<1> DEFINE Overrun == \A i, n \in Slots : m_Data'[i].Versus[n] > m_Data[i].Versus[n]
                        => m_RoundFrags[i] > MAX_CLIENTS
<1>1. Init => VersusUnset
  BY DEF Init, VersusUnset, ZeroPerSlot
<1>2. TypeOK /\ VersusUnset /\ [Next]_vars => [Overrun]_vars
  <2> SUFFICES ASSUME TypeOK, VersusUnset, [Next]_vars, NEW i \in Slots, NEW n \in Slots
               PROVE  m_Data'[i].Versus[n] > m_Data[i].Versus[n] => m_RoundFrags[i] > MAX_CLIENTS
    OBVIOUS
  <2> DEFINE d == m_Data[i]
             r == m_Data'[i]
  <2>1. /\ d \in CPlayerRecord /\ d.Versus[n] \in Nat
        /\ m_RoundFrags[i] \in 0..MaxRoundFrags /\ m_RoundVersus[i] = 0
    BY DEF TypeOK, CStatsType, CPlayerRecord, VersusUnset
  <2>2. RecordStep(i, d, r)
    BY RecordSteps
  <2> SUFFICES \/ r.Versus = d.Versus \/ r.Versus = [m \in Slots |-> 0]
               \/ m_RoundFrags[i] \notin Slots
    BY <2>1, FragsAssumption, SlotsAssumption DEF Slots
  <2> HIDE DEF d, r
  <2>3. CASE r \in Wiped(d)
    BY <2>1, <2>3, WipedFields
  <2>4. CASE r \in Handled(d)
    BY <2>1, <2>4, PaidFields, BombedFields, FiredFields DEF Handled
  <2>5. CASE r \in Hurt(d)
    BY <2>1, <2>5, DealtFields, DealtType, ReceivedFields DEF Hurt
  <2>6. CASE r \in Fought(d)
    BY <2>1, <2>6, ScoredFields, DiedFields, DiedType, AssistedFields DEF Fought
  <2>7. ASSUME NEW Winner, NEW event, r = AfterRound(i, Winner, event)
        PROVE  r.Versus = d.Versus \/ m_RoundFrags[i] \notin Slots
    BY <2>1, <2>7, AfterRoundFields DEF d
  <2> QED
    BY <2>2, <2>3, <2>4, <2>5, <2>6, <2>7 DEF RecordStep, PlayStep, QuietStep
<1> QED
  BY <1>1, <1>2, VersusUnsetStep, TypeCorrect, PTL DEF Spec, VersusOnlyFromOverrun

-----------------------------------------------------------------------------
(* Totals and break-downs. *)

\* The arrays have finitely many entries.
LEMMA FiniteArrays ==
  IsFiniteSet(Slots) /\ IsFiniteSet(HitGroups) /\ IsFiniteSet(WeaponIds) /\ IsFiniteSet(TeamName)
<1>1. IsFiniteSet(Slots)
  <2>1. 0 \in Int /\ MAX_CLIENTS \in Int
    BY SlotsAssumption
  <2> QED
    BY <2>1, FS_Interval DEF Slots
<1>2. IsFiniteSet(HitGroups)
  <2>1. 0 \in Int /\ 8 \in Int
    OBVIOUS
  <2>2. IsFiniteSet(0..8)
    BY <2>1, FS_Interval, Zenon
  <2> QED
    BY <2>2, EnumsAssumption, FS_Subset
<1>3. IsFiniteSet(TeamName)
  <2>1. IsFiniteSet({"UNASSIGNED", "TERRORIST"})
    <3>1. IsFiniteSet({} \cup {"UNASSIGNED"})
      BY FS_EmptySet, FS_AddElement
    <3>2. {"UNASSIGNED", "TERRORIST"} = ({} \cup {"UNASSIGNED"}) \cup {"TERRORIST"}
      OBVIOUS
    <3> QED
      BY <3>1, <3>2, FS_AddElement
  <2>2. TeamName = ({"UNASSIGNED", "TERRORIST"} \cup {"CT"}) \cup {"SPECTATOR"}
    BY DEF TeamName
  <2> QED
    BY <2>1, <2>2, FS_AddElement
<1> QED
  BY <1>1, <1>2, <1>3, EnumsAssumption

Fields == {"KILL", "DEATH", "HEADSHOT", "SHOT", "HIT", "DAMAGE"}

\* A column of the table of weapons is an array of naturals.
LEMMA ColumnType ==
  ASSUME NEW ws \in WeaponTable, NEW field \in Fields
  PROVE  Column(ws, field) \in [WeaponIds -> Nat]
BY DEF Column, WeaponTable, WeaponStatsGroup, Fields

\* The column of a table in which one entry has gained n.
LEMMA ColumnGain ==
  ASSUME NEW ws \in WeaponTable, NEW xs, NEW field \in Fields, NEW w \in WeaponIds, NEW n \in Nat,
         \A v \in WeaponIds : xs[v][field] = IF v = w THEN ws[v][field] + n ELSE ws[v][field]
  PROVE  SumOf(Column(xs, field)) = SumOf(Column(ws, field)) + n
<1> DEFINE f == Column(ws, field)
<1>1. f \in [WeaponIds -> Nat]
  BY ColumnType
<1>2. \A v \in WeaponIds : f[v] = ws[v][field]
  BY DEF Column
<1>3. Column(xs, field) = [v \in WeaponIds |-> IF v = w THEN f[v] + n ELSE f[v]]
  BY <1>2 DEF Column
<1> HIDE DEF f
<1>4. Column(xs, field) = [f EXCEPT ![w] = f[w] + n]
  BY <1>1, <1>3
<1>5. SumOf([f EXCEPT ![w] = f[w] + n]) = SumOf(f) + n
  BY <1>1, FiniteArrays, SumOfGain
<1> QED
  BY <1>4, <1>5 DEF f

\* The column of a table none of whose entries has changed.
LEMMA ColumnKept ==
  ASSUME NEW ws, NEW xs, NEW field, \A v \in WeaponIds : xs[v][field] = ws[v][field]
  PROVE  Column(xs, field) = Column(ws, field)
BY DEF Column

\* The table after a hit (Stats.cpp:64-80).
LEMMA HitWithColumns ==
  ASSUME NEW ws \in WeaponTable, NEW w \in WeaponOrNone, NEW dmg \in Nat
  PROVE  LET xs == HitWith(ws, w, dmg)
         IN  /\ \A field \in Fields \ {"HIT", "DAMAGE"} : Column(xs, field) = Column(ws, field)
             /\ SumOf(Column(xs, "HIT")) <= SumOf(Column(ws, "HIT")) + 1
             /\ SumOf(Column(xs, "DAMAGE")) <= SumOf(Column(ws, "DAMAGE")) + dmg
<1> DEFINE xs == HitWith(ws, w, dmg)
<1>1. SumOf(Column(ws, "HIT")) \in Nat /\ SumOf(Column(ws, "DAMAGE")) \in Nat
  BY ColumnType, FiniteArrays, SumOfNat DEF Fields
<1>2. CASE w = WEAPON_NONE
  <2>1. xs = ws
    BY <1>2 DEF HitWith
  <2> QED
    BY <1>1, <2>1
<1>3. CASE w \in WeaponIds /\ w # WEAPON_NONE
  <2>1. \A v \in WeaponIds :
          /\ xs[v].HIT = IF v = w THEN ws[v].HIT + 1 ELSE ws[v].HIT
          /\ xs[v].DAMAGE = IF v = w THEN ws[v].DAMAGE + dmg ELSE ws[v].DAMAGE
          /\ xs[v].KILL = ws[v].KILL /\ xs[v].DEATH = ws[v].DEATH
          /\ xs[v].HEADSHOT = ws[v].HEADSHOT /\ xs[v].SHOT = ws[v].SHOT
    BY <1>3 DEF HitWith, WeaponTable, WeaponStatsGroup
  <2> HIDE DEF xs
  <2>2. \A field \in Fields \ {"HIT", "DAMAGE"} : Column(xs, field) = Column(ws, field)
    BY <2>1, ColumnKept DEF Fields
  <2>3. SumOf(Column(xs, "HIT")) = SumOf(Column(ws, "HIT")) + 1
    BY <1>3, <2>1, ColumnGain DEF Fields
  <2>4. SumOf(Column(xs, "DAMAGE")) = SumOf(Column(ws, "DAMAGE")) + dmg
    BY <1>3, <2>1, ColumnGain DEF Fields
  <2> QED
    BY <1>1, <2>2, <2>3, <2>4 DEF xs
<1> QED
  BY <1>2, <1>3 DEF WeaponOrNone

\* The table after a kill (Stats.cpp:121-130).
LEMMA KillWithColumns ==
  ASSUME NEW ws \in WeaponTable, NEW w \in WeaponOrNone, NEW head \in BOOLEAN
  PROVE  LET xs == KillWith(ws, w, head)
         IN  /\ \A field \in Fields \ {"KILL", "HEADSHOT"} : Column(xs, field) = Column(ws, field)
             /\ SumOf(Column(xs, "KILL")) <= SumOf(Column(ws, "KILL")) + 1
             /\ SumOf(Column(xs, "HEADSHOT")) <= SumOf(Column(ws, "HEADSHOT")) + Bit(head)
<1> DEFINE xs == KillWith(ws, w, head)
<1>1. /\ SumOf(Column(ws, "KILL")) \in Nat /\ SumOf(Column(ws, "HEADSHOT")) \in Nat
      /\ Bit(head) \in Nat
  BY ColumnType, FiniteArrays, SumOfNat DEF Fields, Bit
<1>2. CASE w = WEAPON_NONE
  <2>1. xs = ws
    BY <1>2 DEF KillWith
  <2> QED
    BY <1>1, <2>1
<1>3. CASE w \in WeaponIds /\ w # WEAPON_NONE
  <2>1. \A v \in WeaponIds :
          /\ xs[v].KILL = IF v = w THEN ws[v].KILL + 1 ELSE ws[v].KILL
          /\ xs[v].HEADSHOT = IF v = w THEN ws[v].HEADSHOT + Bit(head) ELSE ws[v].HEADSHOT
          /\ xs[v].HIT = ws[v].HIT /\ xs[v].DEATH = ws[v].DEATH
          /\ xs[v].DAMAGE = ws[v].DAMAGE /\ xs[v].SHOT = ws[v].SHOT
    BY <1>3 DEF KillWith, WeaponTable, WeaponStatsGroup
  <2> HIDE DEF xs
  <2>2. \A field \in Fields \ {"KILL", "HEADSHOT"} : Column(xs, field) = Column(ws, field)
    BY <2>1, ColumnKept DEF Fields
  <2>3. SumOf(Column(xs, "KILL")) = SumOf(Column(ws, "KILL")) + 1
    BY <1>3, <2>1, ColumnGain DEF Fields
  <2>4. SumOf(Column(xs, "HEADSHOT")) = SumOf(Column(ws, "HEADSHOT")) + Bit(head)
    <3>1. PICK n \in Nat : n = Bit(head)
      BY <1>1
    <3>2. \A v \in WeaponIds : xs[v].HEADSHOT = IF v = w THEN ws[v].HEADSHOT + n ELSE ws[v].HEADSHOT
      BY <2>1, <3>1
    <3>3. SumOf(Column(xs, "HEADSHOT")) = SumOf(Column(ws, "HEADSHOT")) + n
      BY <1>3, <3>2, ColumnGain DEF Fields
    <3> QED
      BY <3>1, <3>3
  <2> QED
    BY <1>1, <2>2, <2>3, <2>4 DEF xs
<1> QED
  BY <1>2, <1>3 DEF WeaponOrNone

\* The table after a death (Stats.cpp:125).
LEMMA DeathByColumns ==
  ASSUME NEW ws \in WeaponTable, NEW w \in WeaponOrNone
  PROVE  LET xs == DeathBy(ws, w)
         IN  /\ \A field \in Fields \ {"DEATH"} : Column(xs, field) = Column(ws, field)
             /\ SumOf(Column(xs, "DEATH")) <= SumOf(Column(ws, "DEATH")) + 1
<1> DEFINE xs == DeathBy(ws, w)
<1>1. SumOf(Column(ws, "DEATH")) \in Nat
  BY ColumnType, FiniteArrays, SumOfNat DEF Fields
<1>2. CASE w = WEAPON_NONE
  <2>1. xs = ws
    BY <1>2 DEF DeathBy
  <2> QED
    BY <1>1, <2>1
<1>3. CASE w \in WeaponIds /\ w # WEAPON_NONE
  <2>1. \A v \in WeaponIds :
          /\ xs[v].DEATH = IF v = w THEN ws[v].DEATH + 1 ELSE ws[v].DEATH
          /\ xs[v].KILL = ws[v].KILL /\ xs[v].HEADSHOT = ws[v].HEADSHOT
          /\ xs[v].HIT = ws[v].HIT /\ xs[v].DAMAGE = ws[v].DAMAGE /\ xs[v].SHOT = ws[v].SHOT
    BY <1>3 DEF DeathBy, WeaponTable, WeaponStatsGroup
  <2> HIDE DEF xs
  <2>2. \A field \in Fields \ {"DEATH"} : Column(xs, field) = Column(ws, field)
    BY <2>1, ColumnKept DEF Fields
  <2>3. SumOf(Column(xs, "DEATH")) = SumOf(Column(ws, "DEATH")) + 1
    BY <1>3, <2>1, ColumnGain DEF Fields
  <2> QED
    BY <1>1, <2>2, <2>3 DEF xs
<1> QED
  BY <1>2, <1>3 DEF WeaponOrNone

\* The table after a shot (Stats.cpp:219).
LEMMA ShotWithColumns ==
  ASSUME NEW ws \in WeaponTable, NEW w \in WeaponIds
  PROVE  LET xs == ShotWith(ws, w)
         IN  /\ \A field \in Fields \ {"SHOT"} : Column(xs, field) = Column(ws, field)
             /\ SumOf(Column(xs, "SHOT")) = SumOf(Column(ws, "SHOT")) + 1
<1> DEFINE xs == ShotWith(ws, w)
<1>1. \A v \in WeaponIds :
        /\ xs[v].SHOT = IF v = w THEN ws[v].SHOT + 1 ELSE ws[v].SHOT
        /\ xs[v].KILL = ws[v].KILL /\ xs[v].HEADSHOT = ws[v].HEADSHOT
        /\ xs[v].HIT = ws[v].HIT /\ xs[v].DAMAGE = ws[v].DAMAGE /\ xs[v].DEATH = ws[v].DEATH
  BY DEF ShotWith, WeaponTable, WeaponStatsGroup
<1> HIDE DEF xs
<1>2. \A field \in Fields \ {"SHOT"} : Column(xs, field) = Column(ws, field)
  BY <1>1, ColumnKept DEF Fields
<1>3. SumOf(Column(xs, "SHOT")) = SumOf(Column(ws, "SHOT")) + 1
  BY <1>1, ColumnGain DEF Fields
<1> QED
  BY <1>2, <1>3 DEF xs

\* BreakdownsCovered for one record.
RecordCovered(d) ==
  /\ d.Hits = SumOf(d.HitBox)
  /\ d.Shots = SumOf(Column(d.WeaponStats, "SHOT"))
  /\ d.Hits >= SumOf(Column(d.WeaponStats, "HIT"))
  /\ d.Damage >= SumOf(Column(d.WeaponStats, "DAMAGE"))
  /\ d.Frags >= SumOf(Column(d.WeaponStats, "KILL"))
  /\ d.Headshot >= SumOf(Column(d.WeaponStats, "HEADSHOT"))
  /\ d.Deaths >= SumOf(Column(d.WeaponStats, "DEATH"))

\* The figures RecordCovered compares are naturals.
LEMMA TotalsType ==
  ASSUME NEW d \in CPlayerRecord
  PROVE  /\ d.Hits \in Nat /\ d.Shots \in Nat /\ d.Damage \in Nat
         /\ d.Frags \in Nat /\ d.Headshot \in Nat /\ d.Deaths \in Nat
         /\ SumOf(d.HitBox) \in Nat
         /\ \A field \in Fields : SumOf(Column(d.WeaponStats, field)) \in Nat
         /\ d.WeaponStats \in WeaponTable
<1>1. /\ d.Hits \in Nat /\ d.Shots \in Nat /\ d.Damage \in Nat
      /\ d.Frags \in Nat /\ d.Headshot \in Nat /\ d.Deaths \in Nat
      /\ d.HitBox \in [HitGroups -> Nat] /\ d.WeaponStats \in WeaponTable
  BY DEF CPlayerRecord, WeaponTable
<1>2. \A field \in Fields : Column(d.WeaponStats, field) \in [WeaponIds -> Nat]
  BY <1>1, ColumnType
<1> QED
  BY <1>1, <1>2, FiniteArrays, SumOfNat

\* A hit (Stats.cpp:56-80).
LEMMA DealtCovered ==
  ASSUME NEW d \in CPlayerRecord, NEW h \in HitGroups, NEW dmg \in Nat, NEW w \in WeaponOrNone,
         RecordCovered(d)
  PROVE  RecordCovered(Dealt(d, h, dmg, w))
<1> DEFINE r == Dealt(d, h, dmg, w)
           ws == d.WeaponStats
           xs == HitWith(ws, w, dmg)
<1>1. /\ r.Hits = d.Hits + 1 /\ r.Damage = d.Damage + dmg
      /\ r.HitBox = Plus(d.HitBox, h, 1) /\ r.WeaponStats = xs
      /\ r.Shots = d.Shots /\ r.Frags = d.Frags /\ r.Headshot = d.Headshot /\ r.Deaths = d.Deaths
  BY DealtFields
<1>2. SumOf(r.HitBox) = SumOf(d.HitBox) + 1
  <2>1. d.HitBox \in [HitGroups -> Nat]
    BY DEF CPlayerRecord
  <2> QED
    BY <1>1, <2>1, FiniteArrays, SumOfGain DEF Plus
<1>3. /\ \A field \in Fields \ {"HIT", "DAMAGE"} : Column(xs, field) = Column(ws, field)
      /\ SumOf(Column(xs, "HIT")) <= SumOf(Column(ws, "HIT")) + 1
      /\ SumOf(Column(xs, "DAMAGE")) <= SumOf(Column(ws, "DAMAGE")) + dmg
      /\ xs \in WeaponTable
  BY TotalsType, HitWithColumns, WeaponTableType
<1>4. \A field \in Fields : SumOf(Column(xs, field)) \in Nat
  BY <1>3, ColumnType, FiniteArrays, SumOfNat
<1> HIDE DEF r, xs
<1> QED
  BY <1>1, <1>2, <1>3, <1>4, TotalsType DEF RecordCovered, Fields, r

\* A kill (Stats.cpp:110-130).
LEMMA ScoredCovered ==
  ASSUME NEW d \in CPlayerRecord, NEW w \in WeaponOrNone, NEW kill \in KillInput, RecordCovered(d)
  PROVE  RecordCovered(Scored(d, w, kill))
<1> DEFINE r == Scored(d, w, kill)
           ws == d.WeaponStats
           xs == KillWith(ws, w, kill.head)
<1>1. /\ r.Frags = d.Frags + 1 /\ r.Headshot = d.Headshot + Bit(kill.head)
      /\ r.WeaponStats = xs
      /\ r.Shots = d.Shots /\ r.Hits = d.Hits /\ r.Damage = d.Damage /\ r.Deaths = d.Deaths
      /\ r.HitBox = d.HitBox
  BY ScoredFields
<1>2. kill.head \in BOOLEAN /\ Bit(kill.head) \in Nat
  BY DEF KillInput, Bit
<1>3. /\ \A field \in Fields \ {"KILL", "HEADSHOT"} : Column(xs, field) = Column(ws, field)
      /\ SumOf(Column(xs, "KILL")) <= SumOf(Column(ws, "KILL")) + 1
      /\ SumOf(Column(xs, "HEADSHOT")) <= SumOf(Column(ws, "HEADSHOT")) + Bit(kill.head)
      /\ xs \in WeaponTable
  <2>1. PICK head \in BOOLEAN : head = kill.head
    BY <1>2
  <2> QED
    BY <2>1, TotalsType, KillWithColumns, WeaponTableType, 0 \in Nat
<1>4. \A field \in Fields : SumOf(Column(xs, field)) \in Nat
  BY <1>3, ColumnType, FiniteArrays, SumOfNat
<1> HIDE DEF r, xs
<1> QED
  BY <1>1, <1>2, <1>3, <1>4, TotalsType DEF RecordCovered, Fields, r

\* A death (Stats.cpp:108, 125).
LEMMA DiedCovered ==
  ASSUME NEW d \in CPlayerRecord, NEW w \in WeaponOrNone, RecordCovered(d)
  PROVE  RecordCovered(Died(d, w))
<1> DEFINE r == Died(d, w)
           ws == d.WeaponStats
           xs == DeathBy(ws, w)
<1>1. /\ r.Deaths = d.Deaths + 1 /\ r.WeaponStats = xs
      /\ r.Shots = d.Shots /\ r.Hits = d.Hits /\ r.Damage = d.Damage /\ r.Frags = d.Frags
      /\ r.Headshot = d.Headshot /\ r.HitBox = d.HitBox
  BY DiedFields
<1>2. /\ \A field \in Fields \ {"DEATH"} : Column(xs, field) = Column(ws, field)
      /\ SumOf(Column(xs, "DEATH")) <= SumOf(Column(ws, "DEATH")) + 1
      /\ xs \in WeaponTable
  <2>1. Died(d, w) \in CPlayerRecord
    BY DiedType
  <2> QED
    BY <1>1, <2>1, TotalsType, DeathByColumns
<1>3. \A field \in Fields : SumOf(Column(xs, field)) \in Nat
  BY <1>2, ColumnType, FiniteArrays, SumOfNat
<1> HIDE DEF r, xs
<1> QED
  BY <1>1, <1>2, <1>3, TotalsType DEF RecordCovered, Fields, r

\* A shot (Stats.cpp:217-219).
LEMMA FiredCovered ==
  ASSUME NEW d \in CPlayerRecord, NEW w \in WeaponIds, RecordCovered(d)
  PROVE  RecordCovered(Fired(d, w))
<1> DEFINE r == Fired(d, w)
           ws == d.WeaponStats
           xs == ShotWith(ws, w)
<1>1. /\ r.Shots = d.Shots + 1 /\ r.WeaponStats = xs
      /\ r.Deaths = d.Deaths /\ r.Hits = d.Hits /\ r.Damage = d.Damage /\ r.Frags = d.Frags
      /\ r.Headshot = d.Headshot /\ r.HitBox = d.HitBox
  BY FiredFields
<1>2. /\ \A field \in Fields \ {"SHOT"} : Column(xs, field) = Column(ws, field)
      /\ SumOf(Column(xs, "SHOT")) = SumOf(Column(ws, "SHOT")) + 1
  BY TotalsType, ShotWithColumns
<1> HIDE DEF r, xs
<1> QED
  BY <1>1, <1>2, TotalsType DEF RecordCovered, Fields, r

\* What leaves the figures alone keeps them covered.
LEMMA SameTotals ==
  ASSUME NEW d, NEW r, RecordCovered(d),
         r.Hits = d.Hits, r.Shots = d.Shots, r.Damage = d.Damage, r.Frags = d.Frags,
         r.Headshot = d.Headshot, r.Deaths = d.Deaths, r.HitBox = d.HitBox,
         r.WeaponStats = d.WeaponStats
  PROVE  RecordCovered(r)
BY DEF RecordCovered

\* A record of zeros (Player.cpp:15-44).
LEMMA ZeroCovered ==
  ASSUME NEW r,
         r.Hits = 0, r.Shots = 0, r.Damage = 0, r.Frags = 0, r.Headshot = 0, r.Deaths = 0,
         r.HitBox = [h \in HitGroups |-> 0],
         r.WeaponStats = [w \in WeaponIds |-> [KILL |-> 0, DEATH |-> 0, HEADSHOT |-> 0,
                                               SHOT |-> 0, HIT |-> 0, DAMAGE |-> 0]]
  PROVE  RecordCovered(r)
<1>1. \A field \in Fields : Column(r.WeaponStats, field) = [w \in WeaponIds |-> 0]
  BY DEF Column, Fields
<1>2. SumOf([w \in WeaponIds |-> 0]) = 0 /\ SumOf([h \in HitGroups |-> 0]) = 0
  BY FiniteArrays, SumOfZero
<1> QED
  BY <1>1, <1>2 DEF RecordCovered, Fields

\* Every step keeps a record's break-downs covered by its totals.
LEMMA RecordCoveredStep ==
  ASSUME TypeOK, NEW i \in Slots, NEW r, RecordStep(i, m_Data[i], r), RecordCovered(m_Data[i])
  PROVE  RecordCovered(r)
<1> DEFINE d == m_Data[i]
<1>1. d \in CPlayerRecord /\ RecordCovered(d)
  BY DEF TypeOK, CStatsType
<1> HIDE DEF d
<1>2. CASE r \in Wiped(d)
  BY <1>1, <1>2, WipedFields, ZeroCovered
<1>3. CASE r \in Handled(d)
  <2>1. CASE \E amount \in Int, type \in RewardType : r = Paid(d, amount, type)
    BY <1>1, <2>1, PaidFields, SameTotals
  <2>2. CASE \E what \in BombGroup : r = Bombed(d, what)
    BY <1>1, <2>2, BombedFields, SameTotals
  <2>3. CASE \E w \in WeaponIds : r = Fired(d, w)
    BY <1>1, <2>3, FiredCovered
  <2> QED
    BY <1>3, <2>1, <2>2, <2>3 DEF Handled
<1>4. CASE r \in Hurt(d)
  <2>1. \A h \in HitGroups, dmg \in Nat, w \in WeaponOrNone :
          RecordCovered(Dealt(d, h, dmg, w)) /\ Dealt(d, h, dmg, w) \in CPlayerRecord
    BY <1>1, DealtCovered, DealtType
  <2>2. \A x \in CPlayerRecord, dmg \in Nat : RecordCovered(x) => RecordCovered(Received(x, dmg))
    BY ReceivedFields, SameTotals
  <2> QED
    BY <1>1, <1>4, <2>1, <2>2 DEF Hurt
<1>5. CASE r \in Fought(d)
  <2>1. \A x \in CPlayerRecord : RecordCovered(x) => RecordCovered(Assisted(x))
    BY AssistedFields, SameTotals
  <2> QED
    BY <1>1, <1>5, <2>1, ScoredCovered, DiedCovered, DiedType DEF Fought
<1>6. ASSUME NEW Winner, NEW event, r = AfterRound(i, Winner, event)
      PROVE  RecordCovered(r)
  <2>1. /\ r.Hits = d.Hits /\ r.Shots = d.Shots /\ r.Damage = d.Damage /\ r.Frags = d.Frags
        /\ r.Headshot = d.Headshot /\ r.Deaths = d.Deaths /\ r.HitBox = d.HitBox
        /\ r.WeaponStats = d.WeaponStats
    BY <1>6, AfterRoundFields DEF d
  <2> QED
    BY <1>1, <2>1, SameTotals
<1> QED
  BY <1>1, <1>2, <1>3, <1>4, <1>5, <1>6 DEF RecordStep, PlayStep, QuietStep, d

\* In every state the totals of a record cover its break-downs: hits by hit box, shots
\* by weapon, and every figure of the table of weapons (Stats.cpp:56-80, 108-130,
\* 217-219), whatever was cleared in between.
THEOREM BreakdownsAreCovered == Spec => []BreakdownsCovered
<1>1. BreakdownsCovered <=> \A i \in Slots : RecordCovered(m_Data[i])
  BY DEF BreakdownsCovered, RecordCovered
<1>2. Init => BreakdownsCovered
  <2> SUFFICES ASSUME Init, NEW i \in Slots
               PROVE  RecordCovered(m_Data[i])
    BY <1>1
  <2>1. m_Data[i] = Zeroed
    BY DEF Init, AllZeroed
  <2> QED
    BY <2>1, ZeroCovered DEF Zeroed
<1>3. TypeOK /\ BreakdownsCovered /\ [Next]_vars => BreakdownsCovered'
  <2> SUFFICES ASSUME TypeOK, BreakdownsCovered, [Next]_vars, NEW i \in Slots
               PROVE  RecordCovered(m_Data'[i])
    BY DEF BreakdownsCovered, RecordCovered
  <2>1. RecordStep(i, m_Data[i], m_Data'[i]) /\ RecordCovered(m_Data[i])
    BY <1>1, RecordSteps
  <2> QED
    BY <2>1, RecordCoveredStep
<1> QED
  BY <1>2, <1>3, TypeCorrect, PTL DEF Spec

-----------------------------------------------------------------------------
(* Streaks. *)

\* A record with at most one kill streak or overrun for each round it played.
RecordStreaks(d) == SumOf(d.KillStreak) + SumOf(d.Versus) <= d.Rounds.PLAY

\* The end of a round adds one streak, in one of the two arrays (Stats.cpp:368-371).
LEMMA StreakSum ==
  ASSUME NEW d \in CPlayerRecord, NEW frags \in 0..MaxRoundFrags
  PROVE  LET r == Streak(d, frags)
         IN  SumOf(r.KillStreak) + SumOf(r.Versus) <= SumOf(d.KillStreak) + SumOf(d.Versus) + 1
<1> DEFINE r == Streak(d, frags)
<1>1. d.KillStreak \in [Slots -> Nat] /\ d.Versus \in [Slots -> Nat]
  BY DEF CPlayerRecord
<1>2. SumOf(d.KillStreak) \in Nat /\ SumOf(d.Versus) \in Nat
  BY <1>1, FiniteArrays, SumOfNat
<1>3. CASE frags = 0
  BY <1>2, <1>3 DEF Streak
<1>4. CASE frags # 0 /\ frags \in Slots
  <2>1. PICK n \in Slots : n = frags
    BY <1>4
  <2>2. r.KillStreak = Plus(d.KillStreak, n, 1) /\ r.Versus = d.Versus
    BY <1>4, <2>1 DEF Streak, CPlayerRecord
  <2> HIDE DEF r
  <2>3. SumOf(r.KillStreak) = SumOf(d.KillStreak) + 1
    BY <1>1, <2>2, FiniteArrays, SumOfGain DEF Plus
  <2> QED
    BY <1>2, <2>2, <2>3 DEF r
<1>5. CASE frags # 0 /\ frags \notin Slots
  <2> DEFINE n == frags - (MAX_CLIENTS + 1)
  <2>1. n \in Slots
    BY <1>5, FragsAssumption, SlotsAssumption DEF Slots
  <2>2. r.KillStreak = d.KillStreak /\ r.Versus = Plus(d.Versus, n, 1)
    BY <1>5 DEF Streak, CPlayerRecord
  <2> HIDE DEF n
  <2>3. SumOf(r.Versus) = SumOf(d.Versus) + 1
    BY <1>1, <2>1, <2>2, FiniteArrays, SumOfGain DEF Plus
  <2> QED
    BY <1>2, <2>2, <2>3
<1> QED
  BY <1>3, <1>4, <1>5

\* The streaks of a slot after a round in which it had no clutch noted.
LEMMA AfterRoundStreaks ==
  ASSUME TypeOK, NEW i \in Slots, NEW Winner, NEW event, m_RoundVersus[i] = 0,
         RecordStreaks(m_Data[i])
  PROVE  RecordStreaks(AfterRound(i, Winner, event))
<1> DEFINE d == m_Data[i]
           frags == m_RoundFrags[i]
           counted == RoundPlayed(d, m_iTeam[i], Winner)
           played == Streak(counted, frags)
           faced == IF m_iTeam[i] = Winner THEN Clutched(played, m_RoundVersus[i]) ELSE played
           paid == Shared(faced, BombShare(i, event))
           r == Shared(paid, DamageShare(i, Winner, event))
<1>1. /\ d \in CPlayerRecord /\ RecordStreaks(d)
      /\ frags \in 0..MaxRoundFrags
      /\ r = AfterRound(i, Winner, event)
  BY DEF TypeOK, CStatsType, AfterRound
<1>2. d.Rounds.PLAY \in Nat
  BY <1>1 DEF CPlayerRecord, RoundGroup
<1>3. faced = played
  BY DEF Clutched
<1> HIDE DEF d, frags
<1>4. /\ counted \in CPlayerRecord
      /\ counted.KillStreak = d.KillStreak /\ counted.Versus = d.Versus
      /\ counted.Rounds.PLAY = d.Rounds.PLAY + 1
  <2>1. counted.Rounds = RoundCounted(d.Rounds, m_iTeam[i], Winner)
    BY <1>1, RoundPlayedFields
  <2>2. counted.Rounds.PLAY = d.Rounds.PLAY + 1
    BY <2>1 DEF RoundCounted
  <2> QED
    BY <1>1, <2>2, RoundPlayedFields, RoundPlayedType
<1> HIDE DEF counted
<1>5. /\ played \in CPlayerRecord /\ played.Rounds = counted.Rounds
      /\ SumOf(played.KillStreak) + SumOf(played.Versus)
           <= SumOf(counted.KillStreak) + SumOf(counted.Versus) + 1
  BY <1>1, <1>4, StreakType, StreakFields, StreakSum
<1>6. /\ SumOf(counted.KillStreak) \in Nat /\ SumOf(counted.Versus) \in Nat
      /\ SumOf(played.KillStreak) \in Nat /\ SumOf(played.Versus) \in Nat
  <2>1. /\ counted.KillStreak \in [Slots -> Nat] /\ counted.Versus \in [Slots -> Nat]
        /\ played.KillStreak \in [Slots -> Nat] /\ played.Versus \in [Slots -> Nat]
    BY <1>4, <1>5 DEF CPlayerRecord
  <2> QED
    BY <2>1, FiniteArrays, SumOfNat
<1> HIDE DEF played, faced
<1>7. BombShare(i, event) \in Fraction
  BY DEF BombShare, MANAGER_RWS_C4_DEFUSED, MANAGER_RWS_C4_EXPLODE, Frac, Fraction
<1>8. /\ paid \in CPlayerRecord /\ paid.Rounds = played.Rounds
      /\ paid.KillStreak = played.KillStreak /\ paid.Versus = played.Versus
  BY <1>3, <1>5, <1>7, SharedType, SharedFields
<1> HIDE DEF paid
<1>9. /\ r.Rounds = played.Rounds
      /\ r.KillStreak = played.KillStreak /\ r.Versus = played.Versus
  BY <1>8, SharedFields
<1>10. RecordStreaks(r)
  BY <1>1, <1>2, <1>4, <1>5, <1>6, <1>9 DEF RecordStreaks
<1> QED
  BY <1>1, <1>10

\* Every step keeps the streaks of a record within its rounds.
LEMMA RecordStreaksStep ==
  ASSUME TypeOK, NEW i \in Slots, m_RoundVersus[i] = 0,
         NEW r, RecordStep(i, m_Data[i], r), RecordStreaks(m_Data[i])
  PROVE  RecordStreaks(r)
<1> DEFINE d == m_Data[i]
<1>1. d \in CPlayerRecord /\ RecordStreaks(d)
  BY DEF TypeOK, CStatsType
<1> HIDE DEF d
<1>2. CASE r \in Wiped(d)
  <2>1. /\ r.KillStreak = [n \in Slots |-> 0] /\ r.Versus = [n \in Slots |-> 0]
        /\ r.Rounds = [PLAY |-> 0, WIN_TR |-> 0, LOSE_TR |-> 0, WIN_CT |-> 0, LOSE_CT |-> 0]
    BY <1>1, <1>2, WipedFields
  <2>2. SumOf(r.KillStreak) = 0 /\ SumOf(r.Versus) = 0
    BY <2>1, FiniteArrays, SumOfZero
  <2> QED
    BY <2>1, <2>2 DEF RecordStreaks
<1>3. CASE r \in Handled(d)
  BY <1>1, <1>3, PaidFields, BombedFields, FiredFields DEF Handled, RecordStreaks
<1>4. CASE r \in Hurt(d)
  <2>1. \A h \in HitGroups, dmg \in Nat, w \in WeaponOrNone :
          RecordStreaks(Dealt(d, h, dmg, w)) /\ Dealt(d, h, dmg, w) \in CPlayerRecord
    BY <1>1, DealtFields, DealtType DEF RecordStreaks
  <2>2. \A x \in CPlayerRecord, dmg \in Nat : RecordStreaks(x) => RecordStreaks(Received(x, dmg))
    BY ReceivedFields DEF RecordStreaks
  <2> QED
    BY <1>1, <1>4, <2>1, <2>2 DEF Hurt
<1>5. CASE r \in Fought(d)
  <2>1. \A x \in CPlayerRecord : RecordStreaks(x) => RecordStreaks(Assisted(x))
    BY AssistedFields DEF RecordStreaks
  <2>2. \A w \in WeaponOrNone : RecordStreaks(Died(d, w)) /\ Died(d, w) \in CPlayerRecord
    BY <1>1, DiedFields, DiedType DEF RecordStreaks
  <2>3. \A w \in WeaponOrNone, kill \in KillInput : RecordStreaks(Scored(d, w, kill))
    BY <1>1, ScoredFields DEF RecordStreaks
  <2> QED
    BY <1>1, <1>5, <2>1, <2>2, <2>3 DEF Fought
<1>6. ASSUME NEW Winner, NEW event, r = AfterRound(i, Winner, event)
      PROVE  RecordStreaks(r)
  BY <1>6, AfterRoundStreaks
<1> QED
  BY <1>1, <1>2, <1>3, <1>4, <1>5, <1>6 DEF RecordStep, PlayStep, QuietStep, d

\* In every state the two arrays of a record, KillStreak and the one laid out after it,
\* hold together at most one entry for each round the slot has played (Stats.cpp:366-380):
\* a streak that overruns its array is not counted on top of a clutch.
THEOREM StreaksStayWithinRounds == Spec => []OneStreakPerRound
<1>1. Init => VersusUnset
  BY DEF Init, VersusUnset, ZeroPerSlot
<1>2. OneStreakPerRound <=> \A i \in Slots : RecordStreaks(m_Data[i])
  BY DEF OneStreakPerRound, RecordStreaks
<1>3. Init => OneStreakPerRound
  <2>1. SumOf([n \in Slots |-> 0]) = 0
    BY FiniteArrays, SumOfZero
  <2>2. RecordStreaks(Zeroed)
    BY <2>1 DEF Zeroed, RecordStreaks
  <2> QED
    BY <1>2, <2>2 DEF Init, AllZeroed
<1>4. TypeOK /\ VersusUnset /\ OneStreakPerRound /\ [Next]_vars => OneStreakPerRound'
  <2> SUFFICES ASSUME TypeOK, VersusUnset, OneStreakPerRound, [Next]_vars, NEW i \in Slots
               PROVE  RecordStreaks(m_Data'[i])
    BY DEF OneStreakPerRound, RecordStreaks
  <2>1. m_RoundVersus[i] = 0 /\ RecordStreaks(m_Data[i])
    BY <1>2 DEF VersusUnset
  <2>2. RecordStep(i, m_Data[i], m_Data'[i])
    BY RecordSteps
  <2> QED
    BY <2>1, <2>2, RecordStreaksStep
<1> QED
  BY <1>1, <1>3, <1>4, VersusUnsetStep, TypeCorrect, PTL DEF Spec

-----------------------------------------------------------------------------
(* Nothing is recorded while the plugin is disabled. *)

\* While the cvar is 0 or has never been looked up, a record can only be cleared
\* (Manager.cpp:15-23, and the test that begins each handler of Stats.cpp).
THEOREM DisabledMeansFrozen == Spec => FrozenWhileDisabled
<1> DEFINE ClearedOrKept(i) ==
             \/ m_Data'[i] = m_Data[i]
             \/ m_Data'[i] = Zeroed
             \/ \E name \in Names \cup {NoName} :
                  m_Data'[i] = [Clear(m_Data[i]) EXCEPT !.Index = name]
           Frozen == ~m_Enabled \/ stats_enabled = 0 =>
                       /\ \A i \in Slots : ClearedOrKept(i)
                       /\ UNCHANGED <<combatVars, bombVars>>
<1>1. TypeOK /\ [Next]_vars => [Frozen]_vars
  <2> SUFFICES ASSUME TypeOK, [Next]_vars, ~m_Enabled \/ stats_enabled = 0
               PROVE  (\A i \in Slots : ClearedOrKept(i)) /\ UNCHANGED <<combatVars, bombVars>>
    OBVIOUS
  <2>1. ~IsEnabled
    BY DEF IsEnabled
  <2>2. ~Combat
    <3>1. \A p \in connected, pay \in Payments : ~AddAccount(p, pay[1], pay[2])
      BY <2>1 DEF AddAccount
    <3>2. \A v \in connected, e \in Entities, h \in HitGroups, d \in Damages, item \in Items :
            ~TakeDamage(v, e, h, d, item)
      <4> TAKE v \in connected, e \in Entities, h \in HitGroups, d \in Damages, item \in Items
      <4>1. TakeDamage(v, e, h, d, item) => IsEnabled
        BY ZenonT(30) DEF TakeDamage
      <4> QED
        BY <2>1, <4>1
    <3>3. \A v \in connected, e \in Entities, kill \in KillInputs, item \in Items :
            \A living \in SUBSET (connected \ {v}) : ~Killed(v, e, kill, item, living)
      BY <2>1 DEF Killed
    <3>4. \A p \in connected, item \in Items : ~SetAnimation(p, item)
      BY <2>1 DEF SetAnimation
    <3> QED
      BY <3>1, <3>2, <3>3, <3>4, Zenon DEF Combat
  <2>3. ~Bomb
    BY <2>1 DEF Bomb, PlantBomb, DefuseBombStart, DefuseBombEnd, ExplodeBomb
  <2>4. ~Round
    BY <2>1 DEF Round, RoundFreezeEnd, RoundEnd
  <2>5. Session \/ Map \/ UNCHANGED vars
    BY <2>2, <2>3, <2>4 DEF Next
  <2>6. UNCHANGED <<combatVars, bombVars>>
    BY <2>5 DEF Session, Map, vars, pluginVars, ClientPutInServer, GetIntoGame, SV_DropClient,
                FreePrivateData, ChangeTeam, ServerActivate, ServerDeactivate, SetCvar
  <2>7. ASSUME NEW i \in Slots PROVE ClearedOrKept(i)
    <3>1. m_Data'[i] \in Wiped(m_Data[i]) \cup {m_Data[i]}
      BY <2>5, RestSteps
    <3>2. Clear(m_Data[i]) = [Clear(m_Data[i]) EXCEPT !.Index = NoName]
      <4> DEFINE c == Clear(m_Data[i])
      <4>1. c \in CPlayerRecord /\ c.Index = NoName
        <5>1. m_Data[i] \in CPlayerRecord
          BY DEF TypeOK, CStatsType
        <5>2. Zeroed.Index = NoName
          BY DEF Zeroed
        <5> QED
          BY <5>1, <5>2, ClearType, ZeroedType DEF Clear, CPlayerRecord
      <4> HIDE DEF c
      <4>2. c = [c EXCEPT !.Index = NoName]
        BY <4>1 DEF CPlayerRecord
      <4> QED
        BY <4>2 DEF c
    <3>3. CASE m_Data'[i] = Clear(m_Data[i])
      BY <3>2, <3>3
    <3>4. CASE \E netname \in Names : m_Data'[i] = Join(m_Data[i], netname)
      BY <3>4 DEF Join
    <3> QED
      BY <3>1, <3>3, <3>4 DEF Wiped
  <2> QED
    BY <2>6, <2>7
<1> QED
  BY <1>1, TypeCorrect, PTL DEF Spec, FrozenWhileDisabled

-----------------------------------------------------------------------------
(* Slots whose player is gone. *)

\* The handlers of combat write to players and to those who are looked up.
LEMMA CombatUntouched ==
  ASSUME TypeOK, Combat, NEW p \in Slots \ pvPrivateData
  PROVE  m_Data'[p] = m_Data[p]
<1>1. /\ connected \subseteq Slots /\ connected \subseteq pvPrivateData
      /\ m_Data \in [Slots -> CPlayerRecord]
  BY ClientsAreSlots DEF TypeOK, CStatsType, ServerType
<1>2. ASSUME NEW q \in connected, NEW pay \in Payments, AddAccount(q, pay[1], pay[2])
      PROVE  m_Data'[p] = m_Data[p]
  BY <1>1, <1>2 DEF AddAccount
<1>3. ASSUME NEW v \in connected, NEW e \in Entities, NEW h \in HitGroups, NEW d \in Damages,
             NEW item \in Items, TakeDamage(v, e, h, d, item)
      PROVE  m_Data'[p] = m_Data[p]
  <2> DEFINE w == IsWeapon(item, TRUE)
  <2>1. p # v /\ p # e /\ p \in Slots /\ v \in Slots
    BY <1>1, <1>3 DEF TakeDamage, PlayerByIndexSafe
  <2>2. m_Data'[p] = AfterHit(m_Data[p], p, v, e, h, d, w)
    BY <1>3, <2>1, TakeDamageStep, ZenonT(60)
  <2> HIDE DEF w
  <2> QED
    BY <2>1, <2>2 DEF AfterHit
<1>4. ASSUME NEW v \in connected, NEW e \in Entities, NEW kill \in KillInputs, NEW item \in Items,
             NEW living, Killed(v, e, kill, item, living)
      PROVE  m_Data'[p] = m_Data[p]
  <2> DEFINE w == IsWeapon(item, TRUE)
             helpers == Assists(e, v)
  <2>1. p # v /\ p # e /\ p \notin helpers
    BY <1>1, <1>4 DEF Killed, PlayerByIndexSafe, Assists, OnTeam
  <2>2. m_Data'[p] = IF p = e THEN Scored(m_Data[p], w, kill)
                     ELSE IF p = v /\ p \in helpers THEN Assisted(Died(m_Data[p], w))
                     ELSE IF p = v THEN Died(m_Data[p], w)
                     ELSE IF p \in helpers THEN Assisted(m_Data[p])
                     ELSE m_Data[p]
    BY <1>1, <1>4, KilledStep
  <2> HIDE DEF w, helpers
  <2> QED
    BY <2>1, <2>2
<1>5. ASSUME NEW q \in connected, NEW item \in Items, SetAnimation(q, item)
      PROVE  m_Data'[p] = m_Data[p]
  BY <1>1, <1>5 DEF SetAnimation
<1> QED
  BY <1>2, <1>3, <1>4, <1>5 DEF Combat

\* Planter and defuser are looked up before their records are written
\* (Stats.cpp:226-299).
LEMMA BombUntouched ==
  ASSUME TypeOK, Bomb, NEW p \in Slots \ pvPrivateData
  PROVE  m_Data'[p] = m_Data[p]
<1>1. connected \subseteq pvPrivateData /\ m_Data \in [Slots -> CPlayerRecord]
  BY DEF TypeOK, CStatsType, ServerType
<1>2. \E q \in pvPrivateData : \E what : m_Data' = [m_Data EXCEPT ![q] = Bombed(m_Data[q], what)]
  BY <1>1 DEF Bomb, PlantBomb, DefuseBombStart, DefuseBombEnd, ExplodeBomb, PlayerByIndexSafe
<1> QED
  BY <1>1, <1>2

\* Whatever the tables of the round still say of a slot whose entity has lost its
\* private data, no handler writes to its record, in any order of the handlers
\* (Stats.cpp:169, 289, 331, 345, 360).
THEOREM NobodyIsUntouched == Spec => EmptySlotsUntouched
<1> DEFINE Untouched == \A p \in Slots \ pvPrivateData : m_Data'[p] = m_Data[p] \/ m_Data'[p] = Zeroed
<1>1. TypeOK /\ [Next]_vars => [Untouched]_vars
  <2> SUFFICES ASSUME TypeOK, [Next]_vars, NEW p \in Slots \ pvPrivateData
               PROVE  m_Data'[p] = m_Data[p] \/ m_Data'[p] = Zeroed
    OBVIOUS
  <2>1. CASE Combat \/ Bomb
    BY <2>1, CombatUntouched, BombUntouched
  <2>2. CASE Round
    BY <2>2 DEF Round, RoundFreezeEnd, RoundEnd, PlayerByIndexSafe
  <2>3. CASE Session
    <3>1. connected \subseteq pvPrivateData /\ m_Data \in [Slots -> CPlayerRecord]
      BY DEF TypeOK, CStatsType, ServerType
    <3> QED
      BY <2>3, <3>1
      DEF Session, ClientPutInServer, GetIntoGame, SV_DropClient, FreePrivateData, Disconnected,
          ChangeTeam, pluginVars
  <2>4. CASE Map
    BY <2>4 DEF Map, ServerActivate, ServerDeactivate, SetCvar, AllZeroed, pluginVars
  <2>5. CASE UNCHANGED vars
    BY <2>5 DEF vars
  <2> QED
    BY <2>1, <2>2, <2>3, <2>4, <2>5 DEF Next
<1> QED
  BY <1>1, TypeCorrect, PTL DEF Spec, EmptySlotsUntouched

=============================================================================
