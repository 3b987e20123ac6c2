------------------------- MODULE RoundHistoryProofs --------------------------
(***************************************************************************)
(* What the tables of the round mean, for every order of the handlers:     *)
(* the damage tables agree (RoundDamageBalanced); TablesWithinRecord is    *)
(* inductive together with the types, and AssistsEarned follows from it;   *)
(* the damage of a team covers what those who have kept it did together    *)
(* (TeamsCoverLoyal), which bounds each of them (DamageWithinTeam) and all *)
(* of them (SharesOfAWhole), and with the arithmetic of fractions bounds   *)
(* what a round adds to a share (ShareWithinRounds).                       *)
(***************************************************************************)
EXTENDS RecordProofs, RoundHistory

\* The steps of HNext are steps of Stats.
LEMMA HistoryOnlyWatches == [HNext]_hvars => [Next]_vars
BY DEF HNext, HZero, HRecord, HSession, HTeam, HMap, hvars, Next, Round, Session, Map

\* The history variables are sets of slots.
LEMMA HistoryType ==
  /\ HInit => HTypeOK
  /\ HTypeOK /\ [HNext]_hvars => HTypeOK'
<1>1. HInit => HTypeOK
  BY InitType DEF HInit, HTypeOK
<1>2. ASSUME HTypeOK, [HNext]_hvars
      PROVE  tenured' \subseteq Slots /\ moved' \subseteq Slots
  <2>1. CASE UNCHANGED historyVars
    BY <1>2, <2>1 DEF HTypeOK, historyVars
  <2>2. ASSUME NEW S, Clearing(S)
        PROVE  tenured' \subseteq Slots /\ moved' \subseteq Slots
    BY <1>2, <2>2 DEF HTypeOK, Clearing, Moving
  <2>3. CASE HZero
    BY <2>3 DEF HZero
  <2> QED
    BY <1>2, <2>1, <2>2, <2>3 DEF HNext, HRecord, HSession, HTeam, HMap, hvars
<1>3. HTypeOK /\ [HNext]_hvars => HTypeOK'
  BY <1>2, HistoryOnlyWatches, NextType DEF HTypeOK
<1> QED
  BY <1>1, <1>3

\* The variables of RoundHistory always have their types.
THEOREM HistoryTypeCorrect == HSpec => []HTypeOK
BY HistoryType, PTL DEF HSpec

-----------------------------------------------------------------------------
(* Records only grow until they are cleared. *)

\* What the tables of the round are compared with.
Grown(d, r) ==
  /\ r.Damage >= d.Damage
  /\ r.Frags >= d.Frags
  /\ r.BombStats["PLANTED"] >= d.BombStats["PLANTED"]
  /\ r.BombStats["DEFUSED"] >= d.BombStats["DEFUSED"]

\* Each operator of a handler takes nothing from these figures.
LEMMA GrownOperators ==
  ASSUME NEW d \in CPlayerRecord
  PROVE  /\ \A amount, type : Grown(d, Paid(d, amount, type))
         /\ \A w : Grown(d, Fired(d, w))
         /\ \A what \in BombGroup : Grown(d, Bombed(d, what))
         /\ \A h \in HitGroups, dmg \in Nat, w \in WeaponOrNone : Grown(d, Dealt(d, h, dmg, w))
         /\ \A dmg : Grown(d, Received(d, dmg))
         /\ \A w, kill : Grown(d, Scored(d, w, kill))
         /\ \A w : Grown(d, Died(d, w))
         /\ Grown(d, Assisted(d))
<1>1. /\ d.Damage \in Nat /\ d.Frags \in Nat /\ d.BombStats \in [BombGroup -> Nat]
      /\ {"PLANTED", "DEFUSED"} \subseteq BombGroup
  BY DEF CPlayerRecord, BombGroup
<1>2. \A amount, type : Grown(d, Paid(d, amount, type))
  BY <1>1, PaidFields DEF Grown
<1>3. \A w : Grown(d, Fired(d, w))
  BY <1>1, FiredFields DEF Grown
<1>4. ASSUME NEW what \in BombGroup
      PROVE  Grown(d, Bombed(d, what))
  <2>1. /\ Bombed(d, what).Damage = d.Damage /\ Bombed(d, what).Frags = d.Frags
        /\ Bombed(d, what).BombStats = Plus(d.BombStats, what, 1)
    BY BombedFields
  <2>2. \A x \in BombGroup : Plus(d.BombStats, what, 1)[x] >= d.BombStats[x]
    BY <1>1 DEF Plus
  <2> QED
    BY <1>1, <2>1, <2>2 DEF Grown
<1>5. ASSUME NEW h \in HitGroups, NEW dmg \in Nat, NEW w \in WeaponOrNone
      PROVE  Grown(d, Dealt(d, h, dmg, w))
  BY <1>1, DealtFields DEF Grown
<1>6. \A dmg : Grown(d, Received(d, dmg))
  BY <1>1, ReceivedFields DEF Grown
<1>7. \A w, kill : Grown(d, Scored(d, w, kill))
  BY <1>1, ScoredFields DEF Grown
<1>8. \A w : Grown(d, Died(d, w))
  BY <1>1, DiedFields DEF Grown
<1>9. Grown(d, Assisted(d))
  BY <1>1, AssistedFields DEF Grown
<1> QED
  BY <1>2, <1>3, <1>4, <1>5, <1>6, <1>7, <1>8, <1>9

\* Nothing is taken from figures that stay.
LEMMA GrownSame ==
  ASSUME NEW d \in CPlayerRecord, NEW r, r.Damage = d.Damage, r.Frags = d.Frags,
         r.BombStats = d.BombStats
  PROVE  Grown(d, r)
<1>1. /\ d.Damage \in Nat /\ d.Frags \in Nat /\ d.BombStats \in [BombGroup -> Nat]
      /\ {"PLANTED", "DEFUSED"} \subseteq BombGroup
  BY DEF CPlayerRecord, BombGroup
<1> QED
  BY <1>1 DEF Grown

\* Two handlers' work on one record adds up.
LEMMA GrownTwice ==
  ASSUME NEW d \in CPlayerRecord, NEW c \in CPlayerRecord, NEW r, Grown(d, c), Grown(c, r),
         r.Damage \in Nat, r.Frags \in Nat, r.BombStats \in [BombGroup -> Nat]
  PROVE  Grown(d, r)
BY DEF Grown, CPlayerRecord, BombGroup

\* No handler of a round takes anything from these figures.
LEMMA GrownHandled ==
  ASSUME NEW d \in CPlayerRecord, NEW r \in Handled(d) \cup Hurt(d) \cup Fought(d)
  PROVE  Grown(d, r)
<1>1. CASE r \in Handled(d)
  <2>1. ASSUME NEW amount \in Int, NEW type \in RewardType, r = Paid(d, amount, type)
        PROVE  Grown(d, r)
    BY <2>1, GrownOperators
  <2>2. ASSUME NEW what \in BombGroup, r = Bombed(d, what)
        PROVE  Grown(d, r)
    BY <2>2, GrownOperators
  <2>3. ASSUME NEW w \in WeaponIds, r = Fired(d, w)
        PROVE  Grown(d, r)
    BY <2>3, GrownOperators
  <2> QED
    BY <1>1, <2>1, <2>2, <2>3 DEF Handled
<1>2. CASE r \in Hurt(d)
  <2>1. ASSUME NEW h \in HitGroups, NEW dmg \in Nat, NEW w \in WeaponOrNone,
               r = Dealt(d, h, dmg, w)
        PROVE  Grown(d, r)
    BY <2>1, GrownOperators
  <2>2. ASSUME NEW dmg \in Nat, r = Received(d, dmg)
        PROVE  Grown(d, r)
    BY <2>2, GrownOperators
  <2>3. ASSUME NEW h \in HitGroups, NEW dmg \in Nat, NEW w \in WeaponOrNone,
               r = Received(Dealt(d, h, dmg, w), dmg)
        PROVE  Grown(d, r)
    <3>1. PICK c \in CPlayerRecord : c = Dealt(d, h, dmg, w)
      BY DealtType
    <3>2. r \in CPlayerRecord
      BY <2>3, <3>1, ReceivedType
    <3>3. Grown(d, c) /\ Grown(c, r)
      BY <2>3, <3>1, GrownOperators
    <3> QED
      BY <3>2, <3>3, GrownTwice DEF CPlayerRecord
  <2> QED
    BY <1>2, <2>1, <2>2, <2>3 DEF Hurt
<1>3. CASE r \in Fought(d)
  <2>1. ASSUME NEW w \in WeaponOrNone, NEW kill \in KillInput, r = Scored(d, w, kill)
        PROVE  Grown(d, r)
    BY <2>1, GrownOperators
  <2>2. ASSUME NEW w \in WeaponOrNone, r = Died(d, w)
        PROVE  Grown(d, r)
    BY <2>2, GrownOperators
  <2>3. ASSUME NEW w \in WeaponOrNone, r = Assisted(Died(d, w))
        PROVE  Grown(d, r)
    <3>1. PICK c \in CPlayerRecord : c = Died(d, w)
      BY DiedType
    <3>2. r \in CPlayerRecord
      BY <2>3, <3>1, AssistedType
    <3>3. Grown(d, c) /\ Grown(c, r)
      BY <2>3, <3>1, GrownOperators
    <3> QED
      BY <3>2, <3>3, GrownTwice DEF CPlayerRecord
  <2> QED
    BY <1>3, <2>1, <2>2, <2>3, GrownOperators DEF Fought
<1> QED
  BY <1>1, <1>2, <1>3

\* While the player plays on, nothing is taken from these figures.
LEMMA GrownStep ==
  ASSUME TypeOK, NEW i \in Slots, NEW r, PlayStep(i, m_Data[i], r)
  PROVE  Grown(m_Data[i], r)
<1>1. m_Data[i] \in CPlayerRecord
  BY DEF TypeOK, CStatsType
<1>2. CASE r = m_Data[i]
  BY <1>1, <1>2, GrownSame
<1>3. CASE r \in Handled(m_Data[i]) \cup Hurt(m_Data[i]) \cup Fought(m_Data[i])
  BY <1>1, <1>3, GrownHandled
<1>4. ASSUME NEW Winner, NEW event, r = AfterRound(i, Winner, event)
      PROVE  Grown(m_Data[i], r)
  <2>1. /\ r.Damage = m_Data[i].Damage /\ r.Frags = m_Data[i].Frags
        /\ r.BombStats = m_Data[i].BombStats
    BY <1>4, AfterRoundFields
  <2> QED
    BY <1>1, <2>1, GrownSame
<1> QED
  BY <1>2, <1>3, <1>4 DEF PlayStep, QuietStep

-----------------------------------------------------------------------------
(* The tables of the round are covered by the records. *)

\* TablesWithinRecord for one slot.
Within(p) ==
  /\ \A v \in Slots : m_RoundDamage[p][v] <= m_RoundDamageSelf[p]
  /\ m_RoundDamageSelf[p] <= m_Data[p].Damage
  /\ m_RoundFrags[p] <= m_Data[p].Frags
  /\ m_RoundBombPlanter = p => m_Data[p].BombStats["PLANTED"] > 0
  /\ m_RoundBombDefuser = p => m_Data[p].BombStats["DEFUSED"] > 0

\* The numbers compared are numbers.
LEMMA RecordNumbers ==
  ASSUME NEW d \in CPlayerRecord
  PROVE  /\ d.Damage \in Nat /\ d.Frags \in Nat
         /\ d.BombStats["PLANTED"] \in Nat /\ d.BombStats["DEFUSED"] \in Nat
<1>1. {"PLANTED", "DEFUSED"} \subseteq BombGroup
  BY DEF BombGroup
<1>2. d.BombStats \in [BombGroup -> Nat]
  BY DEF CPlayerRecord
<1> QED
  BY <1>1, <1>2 DEF CPlayerRecord

\* So are those of a slot of Stats.
LEMMA WithinTypes ==
  ASSUME TypeOK, NEW p \in Slots
  PROVE  /\ m_Data[p] \in CPlayerRecord
         /\ m_Data[p].Damage \in Nat /\ m_Data[p].Frags \in Nat
         /\ m_Data[p].BombStats["PLANTED"] \in Nat /\ m_Data[p].BombStats["DEFUSED"] \in Nat
         /\ m_RoundDamageSelf[p] \in Nat /\ m_RoundFrags[p] \in Nat
         /\ m_RoundDamage[p] \in [Slots -> Nat]
<1>1. m_Data[p] \in CPlayerRecord /\ m_RoundFrags[p] \in 0..MaxRoundFrags
  BY DEF TypeOK, CStatsType
<1> QED
  BY <1>1, RecordNumbers DEF TypeOK, CStatsType

\* A step that leaves the tables alone and takes nothing from the record.
LEMMA WithinKept ==
  ASSUME TypeOK, TypeOK', NEW p \in Slots, Within(p), Grown(m_Data[p], m_Data'[p]),
         UNCHANGED <<m_RoundDamage, m_RoundDamageSelf, m_RoundFrags, bombVars>>
  PROVE  Within(p)'
<1>1. m_Data'[p] \in CPlayerRecord
  BY DEF TypeOK, CStatsType
<1>2. /\ m_Data'[p].Damage \in Nat /\ m_Data'[p].Frags \in Nat
      /\ m_Data'[p].BombStats["PLANTED"] \in Nat /\ m_Data'[p].BombStats["DEFUSED"] \in Nat
  BY <1>1, RecordNumbers
<1> QED
  BY <1>2, WithinTypes DEF Within, Grown, bombVars

\* TakeDamage adds the same to the attacker's row, its total and its record
\* (Stats.cpp:56-70).
LEMMA WithinTakeDamage ==
  ASSUME TypeOK, NEW p \in Slots, Within(p), NEW v \in Slots, NEW e, NEW h \in HitGroups,
         NEW d \in Damages, NEW item \in Items, TakeDamage(v, e, h, d, item)
  PROVE  Within(p)'
<1>1. PICK w \in WeaponOrNone : w = IsWeapon(item, TRUE)
  BY IsWeaponType
<1>2. d \in Nat /\ e \in Slots
  BY InputsAssumption, ClientsAreSlots DEF TakeDamage, PlayerByIndexSafe
<1>3. m_Data'[p] = AfterHit(m_Data[p], p, v, e, h, d, w)
  BY <1>1, TakeDamageStep, ZenonT(60)
<1>4. /\ m_Data'[p].Damage = IF p = e THEN m_Data[p].Damage + d ELSE m_Data[p].Damage
      /\ m_Data'[p].Frags = m_Data[p].Frags
      /\ m_Data'[p].BombStats = m_Data[p].BombStats
  BY <1>2, <1>3, WithinTypes, DealtFields, DealtType, ReceivedFields DEF AfterHit
<1>5. /\ m_RoundDamageSelf'[p] = IF p = e THEN m_RoundDamageSelf[p] + d ELSE m_RoundDamageSelf[p]
      /\ \A u \in Slots : m_RoundDamage'[p][u] = IF p = e /\ u = v THEN m_RoundDamage[p][u] + d
                                                ELSE m_RoundDamage[p][u]
      /\ UNCHANGED <<m_RoundFrags, m_RoundBombPlanter, m_RoundBombDefuser>>
  BY <1>2 DEF TakeDamage, TypeOK, CStatsType, bombVars
<1> QED
  BY <1>2, <1>4, <1>5, WithinTypes DEF Within

\* Killed adds one to the killer's streak and to its record (Stats.cpp:110-112).
LEMMA WithinKilled ==
  ASSUME TypeOK, NEW p \in Slots, Within(p), NEW v \in Slots, NEW e, NEW kill \in KillInputs,
         NEW item \in Items, NEW living, Killed(v, e, kill, item, living)
  PROVE  Within(p)'
<1> DEFINE w == IsWeapon(item, TRUE)
           helpers == Assists(e, v)
<1>1. w \in WeaponOrNone
  BY IsWeaponType
<1>2. e \in Slots
  BY ClientsAreSlots DEF Killed, PlayerByIndexSafe
<1>3. m_Data'[p] = IF p = e THEN Scored(m_Data[p], w, kill)
                   ELSE IF p = v /\ p \in helpers THEN Assisted(Died(m_Data[p], w))
                   ELSE IF p = v THEN Died(m_Data[p], w)
                   ELSE IF p \in helpers THEN Assisted(m_Data[p])
                   ELSE m_Data[p]
  BY KilledStep
<1> HIDE DEF w, helpers
<1>4. /\ m_Data'[p].Frags = IF p = e THEN m_Data[p].Frags + 1 ELSE m_Data[p].Frags
      /\ m_Data'[p].Damage = m_Data[p].Damage
      /\ m_Data'[p].BombStats = m_Data[p].BombStats
  BY <1>1, <1>3, WithinTypes, ScoredFields, DiedFields, DiedType, AssistedFields
<1>5. /\ m_RoundFrags'[p] = IF p = e THEN m_RoundFrags[p] + 1 ELSE m_RoundFrags[p]
      /\ UNCHANGED <<m_RoundDamage, m_RoundDamageSelf, m_RoundBombPlanter, m_RoundBombDefuser>>
  BY <1>2 DEF Killed, TypeOK, CStatsType, bombVars
<1> QED
  BY <1>4, <1>5, WithinTypes DEF Within

\* The handlers of the bomb name a slot only with its record's count (Stats.cpp:236-247,
\* 271-277).
LEMMA WithinBomb ==
  ASSUME TypeOK, TypeOK', NEW p \in Slots, Within(p), Bomb
  PROVE  Within(p)'
<1>1. Grown(m_Data[p], m_Data'[p])
  BY PlaySteps, GrownStep
<1>2. UNCHANGED <<m_RoundDamage, m_RoundDamageSelf, m_RoundFrags>>
  BY DEF Bomb, PlantBomb, DefuseBombStart, DefuseBombEnd, ExplodeBomb, combatVars
<1>3. connected \subseteq Slots /\ m_Data \in [Slots -> CPlayerRecord]
  BY ClientsAreSlots DEF TypeOK, CStatsType, ServerType
<1>4. {"PLANTED", "DEFUSED"} \subseteq BombGroup
  BY DEF BombGroup
<1>5. m_Data'[p] \in CPlayerRecord
  BY DEF TypeOK, CStatsType
<1>6. ASSUME NEW q \in connected, NEW what \in {"PLANTED", "DEFUSED"}, q = p,
             m_Data' = [m_Data EXCEPT ![q] = Bombed(m_Data[q], what)]
      PROVE  m_Data'[p].BombStats[what] > 0
  <2>1. m_Data'[p].BombStats = Plus(m_Data[p].BombStats, what, 1)
    BY <1>3, <1>6, BombedFields
  <2>2. m_Data[p].BombStats \in [BombGroup -> Nat]
    BY <1>3 DEF CPlayerRecord
  <2> QED
    BY <1>4, <2>1, <2>2 DEF Plus
<1>7. m_RoundBombPlanter' = p => m_RoundBombPlanter = p \/ m_Data'[p].BombStats["PLANTED"] > 0
  BY <1>6 DEF Bomb, PlantBomb, DefuseBombStart, DefuseBombEnd, ExplodeBomb, bombVars, NoPlayer,
              Slots
<1>8. m_RoundBombDefuser' = p => m_RoundBombDefuser = p \/ m_Data'[p].BombStats["DEFUSED"] > 0
  BY <1>6 DEF Bomb, PlantBomb, DefuseBombStart, DefuseBombEnd, ExplodeBomb, bombVars
<1>9. m_Data'[p].BombStats["PLANTED"] \in Nat /\ m_Data'[p].BombStats["DEFUSED"] \in Nat
      /\ m_Data'[p].Damage \in Nat /\ m_Data'[p].Frags \in Nat
  BY <1>5, RecordNumbers
<1> QED
  BY <1>1, <1>2, <1>7, <1>8, <1>9, WithinTypes DEF Within, Grown

\* Combat keeps the tables of every slot covered.
LEMMA WithinCombat ==
  ASSUME TypeOK, TypeOK', NEW p \in Slots, Within(p), Combat
  PROVE  Within(p)'
<1>1. connected \subseteq Slots
  BY ClientsAreSlots DEF TypeOK, ServerType
<1>2. Grown(m_Data[p], m_Data'[p])
  BY PlaySteps, GrownStep
<1>3. ASSUME NEW q, NEW amount, NEW type, AddAccount(q, amount, type)
      PROVE  Within(p)'
  BY <1>2, <1>3, WithinKept DEF AddAccount, combatVars
<1>4. ASSUME NEW q, NEW item, SetAnimation(q, item)
      PROVE  Within(p)'
  BY <1>2, <1>4, WithinKept DEF SetAnimation, combatVars
<1>5. ASSUME NEW v \in connected, NEW e \in Entities, NEW h \in HitGroups, NEW d \in Damages,
             NEW item \in Items, TakeDamage(v, e, h, d, item)
      PROVE  Within(p)'
  BY <1>1, <1>5, WithinTakeDamage
<1>6. ASSUME NEW v \in connected, NEW e \in Entities, NEW kill \in KillInputs, NEW item \in Items,
             NEW living \in SUBSET (connected \ {v}), Killed(v, e, kill, item, living)
      PROVE  Within(p)'
  BY <1>1, <1>6, WithinKilled
<1> QED
  BY <1>3, <1>4, <1>5, <1>6 DEF Combat

\* A slot that is tenured after a step has its record from before it.
LEMMA TenuredGrown ==
  ASSUME HTypeOK, HSession \/ HTeam \/ HMap, NEW p \in tenured'
  PROVE  p \in tenured /\ p \in Slots /\ m_Data'[p] = m_Data[p]
<1>1. connected \subseteq Slots /\ m_Data \in [Slots -> CPlayerRecord]
  BY ClientsAreSlots DEF HTypeOK, TypeOK, CStatsType, ServerType
<1>2. CASE HSession
  BY <1>1, <1>2
  DEF HSession, HTypeOK, Clearing, ClientPutInServer, GetIntoGame, SV_DropClient, FreePrivateData, Disconnected,
      pluginVars
<1>3. CASE HTeam
  BY <1>3 DEF HTeam, HTypeOK, Clearing, ChangeTeam, pluginVars
<1>4. CASE HMap
  BY <1>4 DEF HMap, HTypeOK, Clearing
<1> QED
  BY <1>2, <1>3, <1>4

\* Nothing of a session or a map's life writes the tables.
LEMMA TablesKept ==
  HSession \/ HTeam \/ HMap => UNCHANGED <<combatVars, bombVars>>
BY DEF HSession, HTeam, HMap, ClientPutInServer, GetIntoGame, SV_DropClient, FreePrivateData, ChangeTeam,
       ServerActivate, ServerDeactivate, pluginVars

\* Every step keeps the tables of the tenured slots covered by their records.
LEMMA TablesWithinRecordStep ==
  HTypeOK /\ TablesWithinRecord /\ [HNext]_hvars => TablesWithinRecord'
<1> SUFFICES ASSUME HTypeOK, TablesWithinRecord, [HNext]_hvars, NEW p \in tenured'
             PROVE  Within(p)'
  BY DEF TablesWithinRecord, Within
<1>1. TypeOK /\ TypeOK' /\ p \in Slots
  BY HistoryType DEF HTypeOK
<1>2. \A q \in tenured : Within(q)
  BY DEF TablesWithinRecord, Within
<1>3. m_Data[p] \in CPlayerRecord
  BY <1>1, WithinTypes
<1>4. CASE UNCHANGED hvars
  BY <1>1, <1>2, <1>3, <1>4, GrownSame, WithinKept DEF hvars, historyVars, vars, combatVars
<1>5. CASE HZero
  <2>1. m_Data'[p] \in CPlayerRecord
    BY <1>1 DEF TypeOK, CStatsType
  <2>2. /\ m_Data'[p].Damage \in Nat /\ m_Data'[p].Frags \in Nat
    BY <2>1, RecordNumbers
  <2>3. NoPlayer # p
    BY <1>1 DEF NoPlayer, Slots
  <2> QED
    BY <1>1, <1>5, <2>2, <2>3
    DEF HZero, RoundFreezeEnd, ZeroDamage, ZeroKills, ZeroBomb, ZeroPerSlot, Within
<1>6. CASE HRecord
  <2>1. p \in tenured /\ Within(p)
    BY <1>2, <1>6 DEF HRecord, historyVars
  <2>2. ASSUME NEW result \in RoundResults, RoundEnd(result[1], result[2])
        PROVE  Within(p)'
    <3>1. Grown(m_Data[p], m_Data'[p])
      BY <1>1, <2>2, PlaySteps, GrownStep DEF Round
    <3> QED
      BY <1>1, <2>1, <2>2, <3>1, WithinKept DEF RoundEnd, combatVars
  <2>3. ASSUME NEW value \in CvarValues, SetCvar(value)
        PROVE  Within(p)'
    BY <1>1, <1>3, <2>1, <2>3, GrownSame, WithinKept DEF SetCvar, pluginVars, combatVars
  <2> QED
    BY <1>1, <1>6, <2>1, <2>2, <2>3, WithinCombat, WithinBomb DEF HRecord
<1>7. CASE HSession \/ HTeam \/ HMap
  <2>1. p \in tenured /\ m_Data'[p] = m_Data[p]
    BY <1>7, TenuredGrown
  <2>2. Grown(m_Data[p], m_Data'[p])
    BY <1>3, <2>1, GrownSame
  <2> QED
    BY <1>1, <1>2, <1>7, <2>1, <2>2, TablesKept, WithinKept DEF combatVars
<1> QED
  BY <1>4, <1>5, <1>6, <1>7 DEF HNext

\* Whatever the order of the handlers, a slot whose record was not cleared since the
\* tables were zeroed holds in its record what the tables credit it with
\* (Stats.cpp:56-70, 110-112, 238-240, 275-277 against 301-319).
THEOREM TablesStayWithinRecord == HSpec => []TablesWithinRecord
<1>1. HInit => TablesWithinRecord
  BY DEF HInit, Init, TablesWithinRecord, AllZeroed, Zeroed, ZeroPerSlot, NoPlayer, Slots
<1> QED
  BY <1>1, TablesWithinRecordStep, HistoryTypeCorrect, PTL DEF HSpec

-----------------------------------------------------------------------------
(* The damage tables agree. *)

\* The three tables gain d for the hit of e on v.
Credited(e, v, d) ==
  /\ m_RoundDamage' = [m_RoundDamage EXCEPT ![e][v] = @ + d]
  /\ m_RoundDamageSelf' = [m_RoundDamageSelf EXCEPT ![e] = @ + d]
  /\ m_RoundDamageTeam' = [m_RoundDamageTeam EXCEPT ![m_iTeam[e]] = @ + d]

DamageKept == UNCHANGED <<m_RoundDamage, m_RoundDamageSelf, m_RoundDamageTeam>>

\* TakeDamage and RoundFreezeEnd alone write the damage tables (Stats.cpp:68-72, 305-309).
LEMMA DamageSteps ==
  ASSUME TypeOK, [Next]_vars
  PROVE  \/ DamageKept
         \/ ZeroDamage
         \/ \E e \in Slots, v \in Slots, d \in Nat : Credited(e, v, d)
<1>1. connected \subseteq Slots
  BY ClientsAreSlots DEF TypeOK, ServerType
<1>2. CASE Combat
  <2>1. ASSUME NEW q, NEW amount, NEW type, AddAccount(q, amount, type)
        PROVE  DamageKept
    BY <2>1 DEF AddAccount, combatVars, DamageKept
  <2>2. ASSUME NEW q, NEW item, SetAnimation(q, item)
        PROVE  DamageKept
    BY <2>2 DEF SetAnimation, combatVars, DamageKept
  <2>3. ASSUME NEW v, NEW e, NEW kill, NEW item, NEW living, Killed(v, e, kill, item, living)
        PROVE  DamageKept
    BY <2>3 DEF Killed, DamageKept
  <2>4. ASSUME NEW v, NEW e, NEW h, NEW d \in Damages, NEW item, TakeDamage(v, e, h, d, item)
        PROVE  e \in Slots /\ d \in Nat /\ Credited(e, v, d)
    BY <2>4, InputsAssumption, ClientsAreSlots DEF TakeDamage, PlayerByIndexSafe, Credited
  <2> QED
    BY <1>1, <1>2, <2>1, <2>2, <2>3, <2>4 DEF Combat
<1>3. CASE Bomb
  BY <1>3
  DEF Bomb, PlantBomb, DefuseBombStart, DefuseBombEnd, ExplodeBomb, combatVars, DamageKept
<1>4. CASE Round
  BY <1>4 DEF Round, RoundFreezeEnd, RoundEnd, combatVars, DamageKept
<1>5. CASE Session
  BY <1>5
  DEF Session, ClientPutInServer, GetIntoGame, SV_DropClient, FreePrivateData, ChangeTeam, pluginVars,
      combatVars, DamageKept
<1>6. CASE Map
  BY <1>6 DEF Map, ServerActivate, ServerDeactivate, SetCvar, pluginVars, combatVars, DamageKept
<1>7. CASE UNCHANGED vars
  BY <1>7 DEF vars, combatVars, DamageKept
<1> QED
  BY <1>2, <1>3, <1>4, <1>5, <1>6, <1>7 DEF Next

\* A hit is added to the attacker's row, to the slot's total and to the team's
\* (Stats.cpp:68-72).
LEMMA CreditedBalanced ==
  ASSUME TypeOK, RoundDamageBalanced, NEW e \in Slots, NEW v \in Slots, NEW d \in Nat,
         Credited(e, v, d)
  PROVE  RoundDamageBalanced'
<1>1. /\ m_RoundDamage \in [Slots -> [Slots -> Nat]] /\ m_RoundDamageSelf \in [Slots -> Nat]
      /\ m_RoundDamageTeam \in [TeamName -> Nat] /\ m_iTeam[e] \in TeamName
  BY DEF TypeOK, CStatsType, ServerType
<1>2. /\ SumOf(m_RoundDamageSelf') = SumOf(m_RoundDamageSelf) + d
      /\ SumOf(m_RoundDamageTeam') = SumOf(m_RoundDamageTeam) + d
  <2>1. m_RoundDamageSelf' = [m_RoundDamageSelf EXCEPT ![e] = m_RoundDamageSelf[e] + d]
    BY DEF Credited
  <2>2. m_RoundDamageTeam' = [m_RoundDamageTeam EXCEPT ![m_iTeam[e]] = m_RoundDamageTeam[m_iTeam[e]] + d]
    BY DEF Credited
  <2>3. \A f \in [Slots -> Nat], x \in Slots : SumOf([f EXCEPT ![x] = f[x] + d]) = SumOf(f) + d
    BY FiniteArrays, SumOfGain, ZenonT(60)
  <2>4. \A f \in [TeamName -> Nat], x \in TeamName :
           SumOf([f EXCEPT ![x] = f[x] + d]) = SumOf(f) + d
    BY FiniteArrays, SumOfGain, ZenonT(60)
  <2> QED
    BY <1>1, <2>1, <2>2, <2>3, <2>4, Zenon
<1>3. ASSUME NEW i \in Slots
      PROVE  m_RoundDamageSelf'[i] = SumOf(m_RoundDamage'[i])
  <2>1. m_RoundDamageSelf[i] = SumOf(m_RoundDamage[i])
    BY DEF RoundDamageBalanced
  <2>2. CASE i = e
    <3>1. m_RoundDamage'[i] = [m_RoundDamage[i] EXCEPT ![v] = m_RoundDamage[i][v] + d]
      BY <1>1, <2>2 DEF Credited
    <3>2. SumOf(m_RoundDamage'[i]) = SumOf(m_RoundDamage[i]) + d
      BY <1>1, <3>1, FiniteArrays, SumOfGain
    <3>3. m_RoundDamageSelf'[i] = m_RoundDamageSelf[i] + d
      BY <1>1, <2>2 DEF Credited
    <3> QED
      BY <2>1, <3>2, <3>3
  <2>3. CASE i # e
    <3>1. m_RoundDamage'[i] = m_RoundDamage[i] /\ m_RoundDamageSelf'[i] = m_RoundDamageSelf[i]
      BY <1>1, <2>3 DEF Credited
    <3> QED
      BY <2>1, <3>1
  <2> QED
    BY <2>2, <2>3
<1> QED
  BY <1>2, <1>3 DEF RoundDamageBalanced

\* Tables of zeros agree.
LEMMA ZeroBalanced ==
  /\ SumOf(ZeroPerSlot) = 0
  /\ SumOf(ZeroPerTeam) = 0
BY FiniteArrays, SumOfZero DEF ZeroPerSlot, ZeroPerTeam

\* In every state the damage of a slot is the sum of its row, and the teams together
\* have done the damage the slots together have (Stats.cpp:68-72, 305-309).
THEOREM RoundDamageIsBalanced == Spec => []RoundDamageBalanced
<1>1. Init => RoundDamageBalanced
  BY ZeroBalanced DEF Init, RoundDamageBalanced, ZeroPerSlot
<1>2. ASSUME TypeOK, RoundDamageBalanced, [Next]_vars
      PROVE  RoundDamageBalanced'
  <2>1. CASE DamageKept
    BY <1>2, <2>1 DEF DamageKept, RoundDamageBalanced
  <2>2. CASE ZeroDamage
    BY <2>2, ZeroBalanced DEF ZeroDamage, RoundDamageBalanced, ZeroPerSlot
  <2>3. CASE \E e \in Slots, v \in Slots, d \in Nat : Credited(e, v, d)
    BY <1>2, <2>3, CreditedBalanced
  <2> QED
    BY <1>2, <2>1, <2>2, <2>3, DamageSteps
<1> QED
  BY <1>1, <1>2, TypeCorrect, PTL DEF Spec

-----------------------------------------------------------------------------
(* The damage of the slots and of their team. *)

\* The slots that have kept the team t since the tables were zeroed.
Loyal(t) == {i \in Slots \ moved : m_iTeam[i] = t}

\* The damage of a team covers that of all who have kept it.
TeamsCoverLoyal == \A t \in TeamName : SumIn(m_RoundDamageSelf, Loyal(t)) <= m_RoundDamageTeam[t]

\* Sets of slots are finite, and what their members did adds up to a natural.
LEMMA LoyalSums ==
  ASSUME TypeOK, NEW S, S \subseteq Slots
  PROVE  /\ IsFiniteSet(S)
         /\ \A i \in S : m_RoundDamageSelf[i] \in Nat
         /\ SumIn(m_RoundDamageSelf, S) \in Nat
<1>1. IsFiniteSet(S)
  BY FiniteArrays, FS_Subset
<1>2. \A i \in S : m_RoundDamageSelf[i] \in Nat
  BY DEF TypeOK, CStatsType
<1> QED
  BY <1>1, <1>2, SumNat

\* A hit raises the attacker's damage and that of the team he has then.
LEMMA CreditedCovered ==
  ASSUME TypeOK, NEW t \in TeamName, NEW e \in Slots, NEW v \in Slots, NEW d \in Nat,
         Credited(e, v, d), SumIn(m_RoundDamageSelf, Loyal(t)) <= m_RoundDamageTeam[t]
  PROVE  SumIn(m_RoundDamageSelf', Loyal(t)) <= m_RoundDamageTeam'[t]
<1>1. PICK S : S = Loyal(t)
  OBVIOUS
<1>2. S \subseteq Slots /\ \A i \in S : m_iTeam[i] = t
  BY <1>1 DEF Loyal
<1>3. /\ m_RoundDamageSelf \in [Slots -> Nat] /\ m_RoundDamageTeam \in [TeamName -> Nat]
      /\ m_iTeam[e] \in TeamName
  BY DEF TypeOK, CStatsType, ServerType
<1>4. /\ IsFiniteSet(S) /\ SumIn(m_RoundDamageSelf, S) \in Nat
      /\ \A i \in S : m_RoundDamageSelf[i] \in Nat
  BY <1>2, LoyalSums
<1>5. \A i \in Slots : m_RoundDamageSelf'[i] = IF i = e THEN m_RoundDamageSelf[i] + d
                                               ELSE m_RoundDamageSelf[i]
  BY <1>3 DEF Credited
<1>6. m_RoundDamageTeam'[t] = IF t = m_iTeam[e] THEN m_RoundDamageTeam[t] + d
                              ELSE m_RoundDamageTeam[t]
  BY <1>3 DEF Credited
<1>7. CASE e \in S
  <2>1. SumIn(m_RoundDamageSelf', S) = SumIn(m_RoundDamageSelf, S) + d
    <3>1. /\ \A i \in S \ {e} : m_RoundDamageSelf'[i] = m_RoundDamageSelf[i]
          /\ m_RoundDamageSelf'[e] = m_RoundDamageSelf[e] + d
      BY <1>2, <1>5
    <3> QED
      BY <1>4, <1>7, <3>1, SumGain
  <2> QED
    BY <1>1, <1>2, <1>3, <1>4, <1>6, <1>7, <2>1
<1>8. CASE e \notin S
  <2>1. SumIn(m_RoundDamageSelf', S) = SumIn(m_RoundDamageSelf, S)
    <3>1. \A i \in S : m_RoundDamageSelf'[i] = m_RoundDamageSelf[i]
      BY <1>2, <1>5, <1>8
    <3> QED
      BY <1>4, <3>1, SumAgree
  <2> QED
    BY <1>1, <1>3, <1>4, <1>6, <2>1
<1> QED
  BY <1>7, <1>8

\* Every step keeps the damage of those who stay in a team below the team's: a change
\* of team takes its slot out of all the sums.
LEMMA TeamsCoverLoyalStep ==
  HTypeOK /\ TeamsCoverLoyal /\ [HNext]_hvars => TeamsCoverLoyal'
<1> SUFFICES ASSUME HTypeOK, TeamsCoverLoyal, [HNext]_hvars, NEW t \in TeamName
             PROVE  SumIn(m_RoundDamageSelf', Loyal(t)') <= m_RoundDamageTeam'[t]
  BY DEF TeamsCoverLoyal
<1>1. /\ TypeOK
      /\ SumIn(m_RoundDamageSelf, Loyal(t)) <= m_RoundDamageTeam[t]
      /\ m_RoundDamageTeam[t] \in Nat
      /\ Loyal(t) \subseteq Slots
  BY DEF HTypeOK, TypeOK, CStatsType, TeamsCoverLoyal, Loyal
<1>2. CASE ZeroDamage
  <2>1. m_RoundDamageSelf' = ZeroPerSlot /\ m_RoundDamageTeam' = ZeroPerTeam
    BY <1>2 DEF ZeroDamage
  <2>2. PICK S : S = Loyal(t)' /\ S \subseteq Slots
    BY DEF Loyal
  <2>3. SumIn(ZeroPerSlot, S) = 0
    BY <2>2, FiniteArrays, FS_Subset, SumZero DEF ZeroPerSlot
  <2> QED
    BY <2>1, <2>2, <2>3 DEF ZeroPerTeam
<1>3. CASE HRecord \/ UNCHANGED hvars
  <2>1. UNCHANGED <<moved, m_iTeam>>
    <3>1. CASE UNCHANGED hvars
      BY <3>1 DEF hvars, historyVars, vars, serverVars
    <3>2. CASE HRecord
      <4>1. UNCHANGED moved
        BY <3>2 DEF HRecord, historyVars
      <4>2. CASE Combat
        <5>1. ASSUME NEW p, NEW amount, NEW type, AddAccount(p, amount, type)
              PROVE  UNCHANGED m_iTeam
          BY <5>1 DEF AddAccount, serverVars
        <5>2. ASSUME NEW v, NEW e, NEW h, NEW d, NEW item, TakeDamage(v, e, h, d, item)
              PROVE  UNCHANGED m_iTeam
          BY <5>2 DEF TakeDamage, serverVars
        <5>3. ASSUME NEW v, NEW e, NEW kill, NEW item, NEW living, Killed(v, e, kill, item, living)
              PROVE  UNCHANGED m_iTeam
          BY <5>3 DEF Killed, serverVars
        <5>4. ASSUME NEW p, NEW item, SetAnimation(p, item)
              PROVE  UNCHANGED m_iTeam
          BY <5>4 DEF SetAnimation, serverVars
        <5> QED
          BY <4>1, <4>2, <5>1, <5>2, <5>3, <5>4 DEF Combat
      <4>3. CASE Bomb
        BY <4>1, <4>3 DEF Bomb, PlantBomb, DefuseBombStart, DefuseBombEnd, ExplodeBomb, serverVars
      <4>4. CASE \E result \in RoundResults : RoundEnd(result[1], result[2])
        BY <4>1, <4>4 DEF RoundEnd, serverVars
      <4>5. CASE \E value \in CvarValues : SetCvar(value)
        BY <4>1, <4>5 DEF SetCvar, serverVars
      <4> QED
        BY <3>2, <4>2, <4>3, <4>4, <4>5 DEF HRecord
    <3> QED
      BY <1>3, <3>1, <3>2
  <2>2. Loyal(t)' = Loyal(t)
    BY <2>1 DEF Loyal
  <2>3. CASE DamageKept
    BY <1>1, <2>2, <2>3 DEF DamageKept
  <2>4. CASE \E e \in Slots, v \in Slots, d \in Nat : Credited(e, v, d)
    BY <1>1, <2>2, <2>4, CreditedCovered
  <2> QED
    BY <1>1, <1>2, <2>3, <2>4, HistoryOnlyWatches, DamageSteps
<1>4. CASE HSession \/ HTeam \/ HMap
  <2>1. \A i \in Slots \ moved' : i \notin moved /\ m_iTeam'[i] = m_iTeam[i]
    BY <1>4 DEF HSession, HTeam, HMap, Clearing, Moving
  <2>2. PICK S, R : S = Loyal(t) /\ R = Loyal(t)' /\ R \subseteq S /\ S \subseteq Slots
    BY <2>1 DEF Loyal
  <2>3. /\ SumIn(m_RoundDamageSelf, R) <= SumIn(m_RoundDamageSelf, S)
        /\ SumIn(m_RoundDamageSelf, R) \in Nat /\ SumIn(m_RoundDamageSelf, S) \in Nat
    BY <1>1, <2>2, LoyalSums, SumSubset
  <2>4. m_RoundDamageSelf' = m_RoundDamageSelf /\ m_RoundDamageTeam' = m_RoundDamageTeam
    BY <1>4, TablesKept DEF combatVars
  <2> QED
    BY <1>1, <2>2, <2>3, <2>4
<1>5. HZero => ZeroDamage
  BY DEF HZero, RoundFreezeEnd
<1> QED
  BY <1>2, <1>3, <1>4, <1>5 DEF HNext

\* The damage of a team always covers that of those who have kept it.
LEMMA TeamsAlwaysCover == HSpec => []TeamsCoverLoyal
<1>1. HInit => TeamsCoverLoyal
  <2> SUFFICES ASSUME HInit, NEW t \in TeamName
               PROVE  SumIn(m_RoundDamageSelf, Loyal(t)) <= m_RoundDamageTeam[t]
    BY DEF TeamsCoverLoyal
  <2>1. PICK S : S = Loyal(t) /\ S \subseteq Slots
    BY DEF Loyal
  <2>2. SumIn(ZeroPerSlot, S) = 0
    BY <2>1, FiniteArrays, FS_Subset, SumZero DEF ZeroPerSlot
  <2> QED
    BY <2>1, <2>2 DEF HInit, Init, ZeroPerTeam
<1> QED
  BY <1>1, TeamsCoverLoyalStep, HistoryTypeCorrect, PTL DEF HSpec

\* What a slot that has kept its team did in the round is part of what its team did:
\* the division of RoundEnd never has a zero divisor for it (Stats.cpp:384).
THEOREM DamageStaysWithinTeam == HSpec => []DamageWithinTeam
<1>1. ASSUME HTypeOK, TeamsCoverLoyal, NEW p \in Slots \ moved
      PROVE  m_RoundDamageSelf[p] <= m_RoundDamageTeam[m_iTeam[p]]
  <2>1. PICK t \in TeamName : t = m_iTeam[p]
    BY <1>1 DEF HTypeOK, TypeOK, ServerType
  <2>2. PICK S : S = Loyal(t) /\ p \in S /\ S \subseteq Slots
    BY <2>1 DEF Loyal
  <2>3. m_RoundDamageSelf[p] <= SumIn(m_RoundDamageSelf, S)
    BY <1>1, <2>2, LoyalSums, SumMember DEF HTypeOK
  <2>4. SumIn(m_RoundDamageSelf, S) <= m_RoundDamageTeam[t]
    BY <1>1, <2>2 DEF TeamsCoverLoyal
  <2>5. /\ m_RoundDamageSelf[p] \in Nat /\ SumIn(m_RoundDamageSelf, S) \in Nat
        /\ m_RoundDamageTeam[t] \in Nat
    BY <1>1, <2>2, LoyalSums DEF HTypeOK, TypeOK, CStatsType
  <2> QED
    BY <2>1, <2>3, <2>4, <2>5
<1>2. HTypeOK /\ TeamsCoverLoyal => DamageWithinTeam
  BY <1>1 DEF DamageWithinTeam
<1> QED
  BY <1>2, TeamsAlwaysCover, HistoryTypeCorrect, PTL

\* As long as nobody has changed his team since the tables were zeroed, the damage of
\* the players of a team adds up to at most the team's, so the shares RoundEnd pays
\* its winners are parts of a whole (Stats.cpp:382-393).
THEOREM SharesArePartsOfAWhole == HSpec => []SharesOfAWhole
<1>1. ASSUME HTypeOK, TeamsCoverLoyal, moved = {}, NEW t \in {"TERRORIST", "CT"}
      PROVE  SumIn(m_RoundDamageSelf, {i \in pvPrivateData : m_iTeam[i] = t}) <= m_RoundDamageTeam[t]
  <2>1. pvPrivateData \subseteq Slots /\ t \in TeamName
    BY <1>1, ClientsAreSlots DEF HTypeOK, TypeOK, ServerType, TeamName
  <2>2. PICK S, R : /\ S = Loyal(t) /\ R = {i \in pvPrivateData : m_iTeam[i] = t}
                    /\ R \subseteq S /\ S \subseteq Slots
    BY <1>1, <2>1 DEF Loyal
  <2>3. SumIn(m_RoundDamageSelf, R) <= SumIn(m_RoundDamageSelf, S)
    BY <1>1, <2>2, LoyalSums, SumSubset DEF HTypeOK
  <2>4. SumIn(m_RoundDamageSelf, S) <= m_RoundDamageTeam[t]
    BY <1>1, <2>1, <2>2 DEF TeamsCoverLoyal
  <2>5. /\ SumIn(m_RoundDamageSelf, R) \in Nat /\ SumIn(m_RoundDamageSelf, S) \in Nat
        /\ m_RoundDamageTeam[t] \in Nat
    BY <1>1, <2>1, <2>2, LoyalSums DEF HTypeOK, TypeOK, CStatsType
  <2> QED
    BY <2>2, <2>3, <2>4, <2>5
<1>2. HTypeOK /\ TeamsCoverLoyal => SharesOfAWhole
  BY <1>1 DEF SharesOfAWhole
<1> QED
  BY <1>2, TeamsAlwaysCover, HistoryTypeCorrect, PTL

-----------------------------------------------------------------------------
(* Assists. *)

\* A hit gives no assist.
LEMMA HurtAssists ==
  ASSUME NEW d \in CPlayerRecord, NEW r \in Hurt(d)
  PROVE  r.Assists = d.Assists
<1>1. ASSUME NEW h \in HitGroups, NEW dmg \in Nat, NEW w \in WeaponOrNone, r = Dealt(d, h, dmg, w)
      PROVE  r.Assists = d.Assists
  BY <1>1, DealtFields
<1>2. ASSUME NEW dmg \in Nat, r = Received(d, dmg)
      PROVE  r.Assists = d.Assists
  BY <1>2, ReceivedFields
<1>3. ASSUME NEW h \in HitGroups, NEW dmg \in Nat, NEW w \in WeaponOrNone,
             r = Received(Dealt(d, h, dmg, w), dmg)
      PROVE  r.Assists = d.Assists
  <2>1. PICK c \in CPlayerRecord : c = Dealt(d, h, dmg, w)
    BY DealtType
  <2>2. c.Assists = d.Assists
    BY <2>1, DealtFields
  <2>3. r.Assists = c.Assists
    BY <1>3, <2>1, ReceivedFields
  <2> QED
    BY <2>2, <2>3
<1> QED
  BY <1>1, <1>2, <1>3 DEF Hurt

\* Only a kill gives an assist, and only to a slot whose row of the table says so
\* (Stats.cpp:167-186).
LEMMA AssistGiven ==
  ASSUME TypeOK, [Next]_vars, NEW p \in Slots, m_Data'[p].Assists > m_Data[p].Assists
  PROVE  \E v \in Slots : m_RoundDamage[p][v] >= MANAGER_ASSISTANCE_DMG
<1>1. connected \subseteq Slots /\ m_Data \in [Slots -> CPlayerRecord]
  BY ClientsAreSlots DEF TypeOK, CStatsType, ServerType
<1>2. m_Data[p] \in CPlayerRecord /\ m_Data[p].Assists \in Nat
  BY <1>1 DEF CPlayerRecord
<1> SUFFICES ASSUME \A v \in Slots : ~(m_RoundDamage[p][v] >= MANAGER_ASSISTANCE_DMG)
             PROVE  m_Data'[p].Assists = m_Data[p].Assists \/ m_Data'[p].Assists = 0
  BY <1>2
<1>3. CASE m_Data'[p] \in Wiped(m_Data[p])
  BY <1>2, <1>3, WipedFields
<1>4. CASE m_Data'[p] \in Handled(m_Data[p])
  BY <1>2, <1>4, PaidFields, BombedFields, FiredFields DEF Handled
<1>5. CASE m_Data'[p] \in Hurt(m_Data[p])
  BY <1>2, <1>5, HurtAssists
<1>6. ASSUME NEW Winner, NEW event, m_Data'[p] = AfterRound(p, Winner, event)
      PROVE  m_Data'[p].Assists = m_Data[p].Assists
  BY <1>6, AfterRoundFields
<1>7. ASSUME NEW v \in connected, NEW e \in Entities, NEW kill \in KillInputs, NEW item \in Items,
             NEW living \in SUBSET (connected \ {v}), Killed(v, e, kill, item, living)
      PROVE  m_Data'[p].Assists = m_Data[p].Assists
  <2> DEFINE w == IsWeapon(item, TRUE)
             helpers == Assists(e, v)
  <2>1. p \notin helpers
    BY <1>1 DEF Assists
  <2>2. m_Data'[p] = IF p = e THEN Scored(m_Data[p], w, kill)
                     ELSE IF p = v /\ p \in helpers THEN Assisted(Died(m_Data[p], w))
                     ELSE IF p = v THEN Died(m_Data[p], w)
                     ELSE IF p \in helpers THEN Assisted(m_Data[p])
                     ELSE m_Data[p]
    BY <1>1, <1>7, KilledStep
  <2> HIDE DEF w, helpers
  <2> QED
    BY <1>2, <2>1, <2>2, ScoredFields, DiedFields
<1>8. CASE ~AnyKilled
  <2>1. \/ QuietStep(p, m_Data[p], m_Data'[p])
        \/ m_Data'[p] \in Wiped(m_Data[p])
        \/ m_Data'[p] = m_Data[p]
    BY <1>8, QuietSteps, RestSteps DEF Next
  <2> QED
    BY <1>3, <1>4, <1>5, <1>6, <2>1 DEF QuietStep
<1> QED
  BY <1>7, <1>8 DEF AnyKilled

\* Wherever an assist goes during a round, the helper's record shows the damage, unless
\* the record was cleared in that round (Stats.cpp:175-181).
THEOREM AssistsAreEarned == HSpec => AssistsEarned
<1>1. HInit => TablesWithinRecord
  BY DEF HInit, Init, TablesWithinRecord, AllZeroed, Zeroed, ZeroPerSlot, NoPlayer, Slots
<1> DEFINE Earned == \A p \in tenured : m_Data'[p].Assists > m_Data[p].Assists
                       => m_Data[p].Damage >= MANAGER_ASSISTANCE_DMG
<1>2. HTypeOK /\ TablesWithinRecord /\ [HNext]_hvars => [Earned]_hvars
  <2> SUFFICES ASSUME HTypeOK, TablesWithinRecord, [HNext]_hvars, NEW p \in tenured,
                      m_Data'[p].Assists > m_Data[p].Assists
               PROVE  m_Data[p].Damage >= MANAGER_ASSISTANCE_DMG
    OBVIOUS
  <2>1. TypeOK /\ [Next]_vars /\ p \in Slots
    BY HistoryOnlyWatches DEF HTypeOK
  <2>2. PICK v \in Slots : m_RoundDamage[p][v] >= MANAGER_ASSISTANCE_DMG
    BY <2>1, AssistGiven
  <2>3. m_RoundDamage[p][v] <= m_RoundDamageSelf[p] /\ m_RoundDamageSelf[p] <= m_Data[p].Damage
    BY DEF TablesWithinRecord
  <2> QED
    BY <2>1, <2>2, <2>3, WithinTypes DEF MANAGER_ASSISTANCE_DMG
<1> QED
  BY <1>1, <1>2, TablesWithinRecordStep, HistoryTypeCorrect, PTL DEF HSpec, AssistsEarned

-----------------------------------------------------------------------------
(* Shares. *)

\* The fraction x is at most n tenths.
AtMostTenths(x, n) == x.den # 0 /\ 10 * x.num <= n * x.den

LEMMA Scale == ASSUME NEW a \in Nat, NEW b \in Nat, NEW c \in Nat, a <= b
               PROVE  a * c <= b * c /\ a * c \in Nat /\ b * c \in Nat
<1>1. PICK k \in Nat : b = a + k
  <2>1. b - a \in Nat /\ b = a + (b - a)
    OBVIOUS
  <2> QED
    BY <2>1
<1>2. b * c = a * c + k * c /\ a * c \in Nat /\ k * c \in Nat
  BY <1>1
<1> QED
  BY <1>2

\* Adding fractions adds their bounds.
LEMMA TenthsAdd ==
  ASSUME NEW x \in Fraction, NEW y \in Fraction, NEW n \in Nat, NEW m \in Nat,
         AtMostTenths(x, n), AtMostTenths(y, m)
  PROVE  AtMostTenths(FracAdd(x, y), n + m) /\ FracAdd(x, y) \in Fraction
<1> DEFINE a == x.num
           b == x.den
           c == y.num
           d == y.den
<1>1. /\ a \in Nat /\ b \in Nat \ {0} /\ c \in Nat /\ d \in Nat \ {0}
      /\ 10 * a <= n * b /\ 10 * c <= m * d
  BY DEF Fraction, AtMostTenths
<1>2. n * b \in Nat /\ m * d \in Nat /\ m * b \in Nat
  BY <1>1
<1>3. CASE y = Frac(0, 1)
  <2>1. FracAdd(x, y) = x
    BY <1>3 DEF FracAdd
  <2>2. (n + m) * b = n * b + m * b
    BY <1>1
  <2>3. 10 * a <= (n + m) * b
    BY <1>1, <1>2, <2>2
  <2> QED
    BY <1>1, <2>1, <2>3 DEF AtMostTenths
<1>4. CASE y # Frac(0, 1) /\ b = d
  <2>1. FracAdd(x, y) = Frac(a + c, b)
    BY <1>1, <1>4 DEF FracAdd
  <2>2. (n + m) * b = n * b + m * b
    BY <1>1
  <2>3. 10 * (a + c) <= (n + m) * b
    BY <1>1, <1>2, <1>4, <2>2
  <2> QED
    BY <1>1, <2>1, <2>3 DEF AtMostTenths, Frac, Fraction
<1>5. CASE y # Frac(0, 1) /\ b # d
  <2>1. FracAdd(x, y) = Frac(a * d + c * b, b * d)
    BY <1>1, <1>5 DEF FracAdd
  <2>2. (10 * a) * d <= (n * b) * d
    BY <1>1, <1>2, Scale
  <2>3. (10 * c) * b <= (m * d) * b
    BY <1>1, <1>2, Scale
  <2>4. /\ (10 * a) * d = 10 * (a * d) /\ (10 * c) * b = 10 * (c * b)
        /\ (n * b) * d = n * (b * d) /\ (m * d) * b = m * (b * d)
        /\ (n + m) * (b * d) = n * (b * d) + m * (b * d)
        /\ a * d \in Nat /\ c * b \in Nat /\ b * d \in Nat
    BY <1>1
  <2>5. n * (b * d) \in Nat /\ m * (b * d) \in Nat
    BY <2>4
  <2>6. 10 * (a * d + c * b) <= (n + m) * (b * d)
    <3> HIDE DEF a, b, c, d
    <3> DEFINE p == a * d
               q == c * b
               r == n * (b * d)
               s == m * (b * d)
    <3>1. /\ p \in Nat /\ q \in Nat /\ r \in Nat /\ s \in Nat
          /\ 10 * p <= r /\ 10 * q <= s
          /\ (n + m) * (b * d) = r + s
      BY <2>2, <2>3, <2>4, <2>5
    <3> HIDE DEF p, q, r, s
    <3>2. 10 * (p + q) <= r + s
      BY <3>1
    <3> QED
      BY <3>1, <3>2 DEF p, q
  <2>7. b * d # 0
    BY <1>1
  <2> QED
    BY <2>1, <2>4, <2>6, <2>7 DEF AtMostTenths, Frac, Fraction
<1> QED
  BY <1>3, <1>4, <1>5

\* What the end of a round adds to the share of a slot that has kept its team.
LEMMA RoundShares ==
  ASSUME HTypeOK, DamageWithinTeam, NEW i \in Slots, i \notin moved,
         NEW Winner \in Winners, NEW event
  PROVE  LET bomb == BombShare(i, event)
             damage == DamageShare(i, Winner, event)
         IN  /\ bomb \in Fraction /\ damage \in Fraction
             /\ \/ AtMostTenths(bomb, 3) /\ AtMostTenths(damage, 7)
                \/ bomb = Frac(0, 1) /\ AtMostTenths(damage, 10)
<1> DEFINE bomb == BombShare(i, event)
           damage == DamageShare(i, Winner, event)
           did == m_RoundDamageSelf[i]
           team == m_RoundDamageTeam[Winner]
           objective == event \in {"ROUND_BOMB_DEFUSED", "ROUND_TARGET_BOMB"}
<1>1. did \in Nat /\ team \in Nat
  BY DEF HTypeOK, TypeOK, CStatsType, TeamName, Winners
<1>2. m_iTeam[i] = Winner => did <= team
  BY DEF DamageWithinTeam
<1>3. /\ bomb \in {Frac(0, 1), Frac(3, 10)}
      /\ ~objective => bomb = Frac(0, 1)
  BY DEF BombShare, MANAGER_RWS_C4_DEFUSED, MANAGER_RWS_C4_EXPLODE
<1>4. \/ damage = Frac(0, 1)
      \/ /\ m_iTeam[i] = Winner /\ did # 0
         /\ damage = IF objective THEN Frac(7 * did, 10 * team) ELSE Frac(did, team)
  BY DEF DamageShare, MapTarget, Frac
<1> HIDE DEF bomb, damage, did, team, objective
<1>5. /\ AtMostTenths(Frac(0, 1), 7) /\ AtMostTenths(Frac(0, 1), 10)
      /\ AtMostTenths(Frac(0, 1), 3) /\ AtMostTenths(Frac(3, 10), 3)
      /\ Frac(0, 1) \in Fraction /\ Frac(3, 10) \in Fraction
  BY DEF AtMostTenths, Frac, Fraction
<1>6. CASE damage = Frac(0, 1)
  BY <1>3, <1>5, <1>6 DEF bomb, damage
<1>7. CASE damage = Frac(7 * did, 10 * team) /\ did <= team /\ did # 0
  <2>1. damage \in Fraction /\ AtMostTenths(damage, 7)
    BY <1>1, <1>7 DEF AtMostTenths, Frac, Fraction
  <2> QED
    BY <1>3, <1>5, <2>1 DEF bomb, damage
<1>8. CASE damage = Frac(did, team) /\ did <= team /\ did # 0 /\ ~objective
  <2>1. damage \in Fraction /\ AtMostTenths(damage, 10)
    BY <1>1, <1>8 DEF AtMostTenths, Frac, Fraction
  <2> QED
    BY <1>3, <1>5, <1>8, <2>1 DEF bomb, damage
<1> QED
  BY <1>2, <1>4, <1>6, <1>7, <1>8

\* A round adds at most a whole to the share of a slot that has kept its team, the
\* bomb's three tenths included (Stats.cpp:325-393).
THEOREM SharesStayWithinRounds == HSpec => ShareWithinRounds
<1> DEFINE ShareBounded == \A p \in Slots \ moved :
                             FracAtMost(m_Data[p].RoundWinShare, m_Data[p].Rounds.PLAY)
                               => FracAtMost(m_Data'[p].RoundWinShare, m_Data'[p].Rounds.PLAY)
<1>1. HTypeOK /\ DamageWithinTeam /\ [HNext]_hvars => [ShareBounded]_hvars
  <2> SUFFICES ASSUME HTypeOK, DamageWithinTeam, [HNext]_hvars, NEW p \in Slots, p \notin moved,
                      FracAtMost(m_Data[p].RoundWinShare, m_Data[p].Rounds.PLAY)
               PROVE  FracAtMost(m_Data'[p].RoundWinShare, m_Data'[p].Rounds.PLAY)
    OBVIOUS
  <2> DEFINE d == m_Data[p]
             r == m_Data'[p]
  <2>1. TypeOK /\ [Next]_vars /\ d \in CPlayerRecord
    BY HistoryOnlyWatches DEF HTypeOK, TypeOK, CStatsType
  <2>2. RecordStep(p, d, r)
    BY <2>1, RecordSteps
  <2>3. ASSUME NEW Winner \in Winners, NEW event, r = AfterRound(p, Winner, event)
        PROVE  FracAtMost(r.RoundWinShare, r.Rounds.PLAY)
    <3> DEFINE x == d.RoundWinShare
               n == d.Rounds.PLAY
               bomb == BombShare(p, event)
               damage == DamageShare(p, Winner, event)
    <3>1. x \in Fraction /\ n \in Nat /\ FracAtMost(x, n)
      BY <2>1 DEF CPlayerRecord, RoundGroup
    <3>2. /\ r.RoundWinShare = FracAdd(FracAdd(x, bomb), damage)
          /\ r.Rounds = RoundCounted(d.Rounds, m_iTeam[p], Winner)
      BY <2>1, <2>3, AfterRoundFields
    <3>3. r.Rounds.PLAY = n + 1
      BY <3>2 DEF RoundCounted
    <3>4. /\ bomb \in Fraction /\ damage \in Fraction
          /\ \/ AtMostTenths(bomb, 3) /\ AtMostTenths(damage, 7)
             \/ bomb = Frac(0, 1) /\ AtMostTenths(damage, 10)
      BY RoundShares
    <3> HIDE DEF x, n, bomb, damage, d, r
    <3>5. AtMostTenths(x, 10 * n) /\ 10 * n \in Nat /\ 10 * n + 3 \in Nat
      BY <3>1 DEF AtMostTenths, FracAtMost, Fraction
    <3>6. CASE AtMostTenths(bomb, 3) /\ AtMostTenths(damage, 7)
      <4>1. AtMostTenths(FracAdd(x, bomb), 10 * n + 3) /\ FracAdd(x, bomb) \in Fraction
        BY <3>1, <3>4, <3>5, <3>6, TenthsAdd
      <4>2. /\ AtMostTenths(FracAdd(FracAdd(x, bomb), damage), (10 * n + 3) + 7)
            /\ FracAdd(FracAdd(x, bomb), damage) \in Fraction
        BY <3>4, <3>5, <3>6, <4>1, TenthsAdd
      <4>3. (10 * n + 3) + 7 = 10 * (n + 1)
        BY <3>1
      <4> QED
        BY <3>1, <3>2, <3>3, <4>2, <4>3 DEF AtMostTenths, FracAtMost, Fraction
    <3>7. CASE bomb = Frac(0, 1) /\ AtMostTenths(damage, 10)
      <4>1. FracAdd(x, bomb) = x
        BY <3>7 DEF FracAdd
      <4>2. /\ AtMostTenths(FracAdd(x, damage), 10 * n + 10)
            /\ FracAdd(x, damage) \in Fraction
        BY <3>1, <3>4, <3>5, <3>7, TenthsAdd
      <4>3. 10 * n + 10 = 10 * (n + 1)
        BY <3>1
      <4> QED
        BY <3>1, <3>2, <3>3, <4>1, <4>2, <4>3 DEF AtMostTenths, FracAtMost, Fraction
    <3> QED
      BY <3>4, <3>6, <3>7
  <2> SUFFICES \/ r.RoundWinShare = d.RoundWinShare /\ r.Rounds = d.Rounds
               \/ r.RoundWinShare = Frac(0, 1) /\ r.Rounds.PLAY = 0
               \/ FracAtMost(r.RoundWinShare, r.Rounds.PLAY)
    BY DEF FracAtMost, Frac
  <2> HIDE DEF d, r
  <2>4. CASE r \in Wiped(d)
    BY <2>1, <2>4, WipedFields
  <2>5. CASE r \in Handled(d)
    BY <2>1, <2>5, PaidFields, BombedFields, FiredFields DEF Handled
  <2>6. CASE r \in Hurt(d)
    BY <2>1, <2>6, DealtFields, DealtType, ReceivedFields DEF Hurt
  <2>7. CASE r \in Fought(d)
    BY <2>1, <2>7, ScoredFields, DiedFields, DiedType, AssistedFields DEF Fought
  <2> QED
    BY <2>2, <2>3, <2>4, <2>5, <2>6, <2>7 DEF RecordStep, PlayStep, QuietStep
<1> QED
  BY <1>1, DamageStaysWithinTeam, HistoryTypeCorrect, PTL DEF HSpec, ShareWithinRounds

\* A share whose parts are finite is finite.
LEMMA FiniteShare ==
  ASSUME NEW x \in Fraction, NEW y \in Fraction, x.den # 0, y.den # 0
  PROVE  FracAdd(x, y) \in Fraction /\ FracAdd(x, y).den # 0
<1> DEFINE a == x.num
           b == x.den
           c == y.num
           d == y.den
<1>1. a \in Nat /\ b \in Nat \ {0} /\ c \in Nat /\ d \in Nat \ {0}
  BY DEF Fraction
<1>2. FracAdd(x, y) \in {x, Frac(a + c, b), Frac(a * d + c * b, b * d)}
  BY <1>1 DEF FracAdd
<1>3. a * d + c * b \in Nat /\ b * d \in Nat /\ b * d # 0 /\ a + c \in Nat
  BY <1>1
<1> HIDE DEF a, b, c, d
<1> QED
  BY <1>1, <1>2, <1>3 DEF Frac, Fraction, b

\* The division of RoundEnd has a zero divisor only for a slot that has changed team in
\* the round (Stats.cpp:384): nobody else's share becomes infinite.
THEOREM InfinityTakesAMove == HSpec => InfinityNeedsMove
<1> DEFINE Finite == \A p \in Slots :
                       m_Data[p].RoundWinShare.den # 0 /\ m_Data'[p].RoundWinShare.den = 0 => p \in moved
<1>1. HTypeOK /\ DamageWithinTeam /\ [HNext]_hvars => [Finite]_hvars
  <2> SUFFICES ASSUME HTypeOK, DamageWithinTeam, [HNext]_hvars, NEW p \in Slots, p \notin moved,
                      m_Data[p].RoundWinShare.den # 0
               PROVE  m_Data'[p].RoundWinShare.den # 0
    OBVIOUS
  <2> DEFINE d == m_Data[p]
             r == m_Data'[p]
  <2>1. TypeOK /\ [Next]_vars /\ d \in CPlayerRecord
    BY HistoryOnlyWatches DEF HTypeOK, TypeOK, CStatsType
  <2>2. RecordStep(p, d, r)
    BY <2>1, RecordSteps
  <2>3. ASSUME NEW Winner \in Winners, NEW event, r = AfterRound(p, Winner, event)
        PROVE  r.RoundWinShare.den # 0
    <3> DEFINE x == d.RoundWinShare
               bomb == BombShare(p, event)
               damage == DamageShare(p, Winner, event)
    <3>1. x \in Fraction /\ x.den # 0
      BY <2>1 DEF CPlayerRecord
    <3>2. r.RoundWinShare = FracAdd(FracAdd(x, bomb), damage)
      BY <2>1, <2>3, AfterRoundFields
    <3>3. bomb \in Fraction /\ bomb.den # 0 /\ damage \in Fraction /\ damage.den # 0
      BY RoundShares DEF AtMostTenths, Frac
    <3> HIDE DEF x, bomb, damage, r
    <3>4. FracAdd(x, bomb) \in Fraction /\ FracAdd(x, bomb).den # 0
      BY <3>1, <3>3, FiniteShare
    <3> QED
      BY <3>2, <3>3, <3>4, FiniteShare
  <2> SUFFICES \/ r.RoundWinShare = d.RoundWinShare
               \/ r.RoundWinShare = Frac(0, 1)
               \/ r.RoundWinShare.den # 0
    BY DEF Frac
  <2> HIDE DEF d, r
  <2>4. CASE r \in Wiped(d)
    BY <2>1, <2>4, WipedFields
  <2>5. CASE r \in Handled(d)
    BY <2>1, <2>5, PaidFields, BombedFields, FiredFields DEF Handled
  <2>6. CASE r \in Hurt(d)
    BY <2>1, <2>6, DealtFields, DealtType, ReceivedFields DEF Hurt
  <2>7. CASE r \in Fought(d)
    BY <2>1, <2>7, ScoredFields, DiedFields, DiedType, AssistedFields DEF Fought
  <2> QED
    BY <2>2, <2>3, <2>4, <2>5, <2>6, <2>7 DEF RecordStep, PlayStep, QuietStep
<1> QED
  BY <1>1, DamageStaysWithinTeam, HistoryTypeCorrect, PTL DEF HSpec, InfinityNeedsMove

=============================================================================
