-------------------------- MODULE ScoreboardProofs ---------------------------
(***************************************************************************)
(* Stats implements Scoreboard: every handler is a step of the score board *)
(* or leaves it as it is.                                                  *)
(***************************************************************************)
EXTENDS RecordProofs

\* What the score board shows of two records is the same.
SameBoard(d, r) ==
  /\ r.Frags = d.Frags /\ r.Deaths = d.Deaths /\ r.Assists = d.Assists
  /\ r.Damage = d.Damage /\ r.DamageReceive = d.DamageReceive
  /\ r.Rounds = d.Rounds

\* The score board is the records' fields.
LEMMA BoardStutter ==
  ASSUME \A i \in Clients : SameBoard(m_Data[i], m_Data'[i])
  PROVE  UNCHANGED Board!board
BY DEF Board!board, SameBoard

\* Money, shots and the bomb are not on the board.
LEMMA HandledSame ==
  ASSUME NEW d \in CPlayerRecord, NEW r \in {d} \cup Handled(d)
  PROVE  SameBoard(d, r)
BY PaidFields, BombedFields, FiredFields DEF Handled, SameBoard

\* TakeDamage is a hit (Stats.cpp:42-86).
LEMMA TakeDamageIsHit ==
  ASSUME TypeOK, NEW v \in Clients, NEW e, NEW h \in HitGroups, NEW d \in Damages,
         NEW item \in Items, TakeDamage(v, e, h, d, item)
  PROVE  Board!Hit(e, v, d) /\ e \in Clients
<1> DEFINE w == IsWeapon(item, TRUE)
<1>1. e \in Clients /\ d \in Nat /\ v \in Slots /\ Clients \subseteq Slots /\ w \in WeaponOrNone
  BY ClientsAreSlots, InputsAssumption, IsWeaponType DEF TakeDamage, PlayerByIndexSafe
<1>2. ASSUME NEW i \in Clients
      PROVE  /\ m_Data'[i].Damage = IF i = e THEN m_Data[i].Damage + d ELSE m_Data[i].Damage
             /\ m_Data'[i].DamageReceive =
                  IF i = v THEN m_Data[i].DamageReceive + d ELSE m_Data[i].DamageReceive
             /\ m_Data'[i].Frags = m_Data[i].Frags
             /\ m_Data'[i].Deaths = m_Data[i].Deaths
             /\ m_Data'[i].Assists = m_Data[i].Assists
             /\ m_Data'[i].Rounds = m_Data[i].Rounds
  <2>1. i \in Slots /\ m_Data[i] \in CPlayerRecord
    BY <1>1 DEF TypeOK, CStatsType
  <2>2. m_Data'[i] = AfterHit(m_Data[i], i, v, e, h, d, w)
    BY <1>1, <2>1, TakeDamageStep, ZenonT(60)
  <2> HIDE DEF w
  <2>3. Dealt(m_Data[i], h, d, w) \in CPlayerRecord
    BY <1>1, <2>1, DealtType
  <2> QED
    BY <2>1, <2>2, <2>3, DealtFields, ReceivedFields DEF AfterHit
<1> QED
  BY <1>1, <1>2 DEF Board!Hit

\* Killed is a kill, with the assists of everyone but the killer who has done the
\* damage (Stats.cpp:88-201).
LEMMA KilledIsKill ==
  ASSUME TypeOK, NEW v \in Clients, NEW e, NEW kill \in KillInputs, NEW item \in Items,
         NEW living, Killed(v, e, kill, item, living)
  PROVE  e \in Clients /\ \E helpers \in SUBSET Clients : Board!Kill(e, v, helpers)
<1> DEFINE w == IsWeapon(item, TRUE)
<1>1. /\ e \in Clients /\ v # e /\ v \in Slots /\ Clients \subseteq Slots
      /\ e \notin Assists(e, v) /\ Assists(e, v) \subseteq Clients
      /\ w \in WeaponOrNone /\ kill \in KillInput
  BY ClientsAreSlots, InputsAssumption, IsWeaponType
  DEF Killed, PlayerByIndexSafe, Assists, OnTeam, TypeOK, ServerType
<1>2. ASSUME NEW i \in Clients
      PROVE  /\ m_Data'[i].Frags = IF i \in {e} THEN m_Data[i].Frags + 1 ELSE m_Data[i].Frags
             /\ m_Data'[i].Deaths = IF i \in {v} THEN m_Data[i].Deaths + 1 ELSE m_Data[i].Deaths
             /\ m_Data'[i].Assists =
                  IF i \in Assists(e, v) THEN m_Data[i].Assists + 1 ELSE m_Data[i].Assists
             /\ m_Data'[i].Damage = m_Data[i].Damage
             /\ m_Data'[i].DamageReceive = m_Data[i].DamageReceive
             /\ m_Data'[i].Rounds = m_Data[i].Rounds
  <2>1. i \in Slots /\ m_Data[i] \in CPlayerRecord
    BY <1>1 DEF TypeOK, CStatsType
  <2>2. m_Data'[i] = IF i = e THEN Scored(m_Data[i], w, kill)
                     ELSE IF i = v /\ i \in Assists(e, v) THEN Assisted(Died(m_Data[i], w))
                     ELSE IF i = v THEN Died(m_Data[i], w)
                     ELSE IF i \in Assists(e, v) THEN Assisted(m_Data[i])
                     ELSE m_Data[i]
    BY <1>1, <2>1, KilledStep
  <2> HIDE DEF w
  <2>3. Died(m_Data[i], w) \in CPlayerRecord
    BY <1>1, <2>1, DiedType
  <2> QED
    BY <1>1, <2>1, <2>2, <2>3, ScoredFields, DiedFields, AssistedFields
<1>3. PICK helpers \in SUBSET Clients : helpers = Assists(e, v)
  BY <1>1
<1>4. Board!Kill(e, v, helpers)
  BY <1>1, <1>2, <1>3 DEF Board!Kill, Board!Credit
<1> QED
  BY <1>1, <1>4

\* RoundEnd is a round played by who has private data and won by the winning team
\* (Stats.cpp:321-402).
LEMMA RoundEndIsEndRound ==
  ASSUME TypeOK, NEW winStatus, NEW event, RoundEnd(winStatus, event)
  PROVE  \E present \in SUBSET Clients : \E winners \in SUBSET present :
           Board!EndRound(present, winners)
<1> DEFINE Winner == IF winStatus = "WINSTATUS_TERRORISTS" THEN "TERRORIST" ELSE "CT"
           winners == {i \in pvPrivateData : m_iTeam[i] = Winner}
<1>1. pvPrivateData \subseteq Clients /\ Clients \subseteq Slots
  BY ClientsAreSlots DEF TypeOK, ServerType
<1>2. \A i \in Slots : m_Data'[i] = IF PlayerByIndexSafe(i) THEN AfterRound(i, Winner, event)
                                    ELSE m_Data[i]
  BY DEF RoundEnd
<1>3. Winner \in {"TERRORIST", "CT"}
  OBVIOUS
<1> HIDE DEF Winner
<1>4. ASSUME NEW i \in Clients
      PROVE  /\ m_Data'[i].Rounds.PLAY = IF i \in pvPrivateData THEN m_Data[i].Rounds.PLAY + 1
                                         ELSE m_Data[i].Rounds.PLAY
             /\ m_Data'[i].Rounds.WIN_TR + m_Data'[i].Rounds.WIN_CT =
                  IF i \in winners THEN m_Data[i].Rounds.WIN_TR + m_Data[i].Rounds.WIN_CT + 1
                  ELSE m_Data[i].Rounds.WIN_TR + m_Data[i].Rounds.WIN_CT
             /\ m_Data'[i].Frags = m_Data[i].Frags
             /\ m_Data'[i].Deaths = m_Data[i].Deaths
             /\ m_Data'[i].Assists = m_Data[i].Assists
             /\ m_Data'[i].Damage = m_Data[i].Damage
             /\ m_Data'[i].DamageReceive = m_Data[i].DamageReceive
  <2>1. i \in Slots /\ m_Data[i].Rounds \in RoundGroup
    BY <1>1 DEF TypeOK, CStatsType, CPlayerRecord
  <2>2. CASE i \notin pvPrivateData
    BY <1>2, <2>1, <2>2 DEF PlayerByIndexSafe
  <2>3. CASE i \in pvPrivateData
    <3>1. m_Data'[i] = AfterRound(i, Winner, event)
      BY <1>2, <2>1, <2>3 DEF PlayerByIndexSafe
    <3>2. m_Data'[i].Rounds = RoundCounted(m_Data[i].Rounds, m_iTeam[i], Winner)
      BY <2>1, <3>1, AfterRoundFields
    <3> QED
      BY <2>1, <2>3, <3>1, <3>2, <1>3, AfterRoundFields DEF RoundCounted, Bit, RoundGroup
  <2> QED
    BY <2>2, <2>3
<1>5. PICK present \in SUBSET Clients : \E some \in SUBSET present :
                                           present = pvPrivateData /\ some = winners
  BY <1>1
<1>6. PICK some \in SUBSET present : present = pvPrivateData /\ some = winners
  BY <1>5
<1> HIDE DEF winners
<1>7. Board!EndRound(present, some)
  BY <1>4, <1>6 DEF Board!EndRound, Board!Credit
<1> QED
  BY <1>7

\* Clearing the records of S wipes their entries of the board.
LEMMA ClearIsWipe ==
  ASSUME TypeOK, NEW S \in SUBSET Clients,
         \A i \in Clients : IF i \in S THEN m_Data'[i] \in Wiped(m_Data[i])
                            ELSE m_Data'[i] = m_Data[i]
  PROVE  Board!Wipe(S)
<1>1. ASSUME NEW i \in Clients
      PROVE  LET d == m_Data[i]
                 r == m_Data'[i]
             IN  /\ r.Frags = IF i \in S THEN 0 ELSE d.Frags
                 /\ r.Deaths = IF i \in S THEN 0 ELSE d.Deaths
                 /\ r.Assists = IF i \in S THEN 0 ELSE d.Assists
                 /\ r.Damage = IF i \in S THEN 0 ELSE d.Damage
                 /\ r.DamageReceive = IF i \in S THEN 0 ELSE d.DamageReceive
                 /\ r.Rounds.PLAY = IF i \in S THEN 0 ELSE d.Rounds.PLAY
                 /\ r.Rounds.WIN_TR + r.Rounds.WIN_CT =
                      IF i \in S THEN 0 ELSE d.Rounds.WIN_TR + d.Rounds.WIN_CT
  <2>1. m_Data[i] \in CPlayerRecord
    BY ClientsAreSlots DEF TypeOK, CStatsType
  <2>2. CASE i \in S
    <3>1. m_Data'[i] \in Wiped(m_Data[i])
      BY <2>2
    <3>2. /\ m_Data'[i].Frags = 0 /\ m_Data'[i].Deaths = 0 /\ m_Data'[i].Assists = 0
          /\ m_Data'[i].Damage = 0 /\ m_Data'[i].DamageReceive = 0
          /\ m_Data'[i].Rounds = [PLAY |-> 0, WIN_TR |-> 0, LOSE_TR |-> 0,
                                  WIN_CT |-> 0, LOSE_CT |-> 0]
      BY <2>1, <3>1, WipedFields
    <3> QED
      BY <2>2, <3>2
  <2>3. CASE i \notin S
    BY <2>3
  <2> QED
    BY <2>2, <2>3
<1> QED
  BY <1>1 DEF Board!Wipe, Board!Reset

-----------------------------------------------------------------------------
\* Nothing is on the board when the plugin is loaded.
LEMMA InitImplements == Init => Board!Init
BY ClientsAreSlots, SMTT(30) DEF Init, Board!Init, Board!Blank, AllZeroed, Zeroed

\* Every step of Stats is a step of the board or leaves it as it is.
LEMMA StepImplements == TypeOK /\ [Next]_vars => [Board!Next]_(Board!board)
<1> SUFFICES ASSUME TypeOK, [Next]_vars
             PROVE  [Board!Next]_(Board!board)
  OBVIOUS
<1>1. connected \subseteq Clients /\ Clients \subseteq Slots
  BY ClientsAreSlots DEF TypeOK, ServerType
<1>2. m_Data \in [Slots -> CPlayerRecord]
  BY DEF TypeOK, CStatsType
<1>3. ASSUME \A i \in Clients : m_Data'[i] \in {m_Data[i]} \cup Handled(m_Data[i])
      PROVE  UNCHANGED Board!board
  BY <1>1, <1>2, <1>3, HandledSame, BoardStutter
<1>4. CASE UNCHANGED m_Data
  BY <1>3, <1>4
<1>5. CASE UNCHANGED vars
  BY <1>4, <1>5 DEF vars
<1>6. CASE Combat
  <2>1. ASSUME NEW p \in connected, NEW pay \in Payments, AddAccount(p, pay[1], pay[2])
        PROVE  UNCHANGED Board!board
    <3>1. \A i \in Clients : m_Data'[i] \in {m_Data[i], Paid(m_Data[i], pay[1], pay[2])}
      BY <1>1, <1>2, <2>1 DEF AddAccount
    <3>2. pay[1] \in Int /\ pay[2] \in RewardType
      BY <2>1, InputsAssumption DEF AddAccount
    <3> QED
      BY <1>3, <3>1, <3>2 DEF Handled
  <2>2. ASSUME NEW v \in connected, NEW e \in Entities, NEW h \in HitGroups, NEW d \in Damages,
               NEW item \in Items, TakeDamage(v, e, h, d, item)
        PROVE  Board!Next
    BY <1>1, <2>2, TakeDamageIsHit DEF Board!Next
  <2>3. ASSUME NEW v \in connected, NEW e \in Entities, NEW kill \in KillInputs,
               NEW item \in Items, NEW living, Killed(v, e, kill, item, living)
        PROVE  Board!Next
    <3>1. e \in Clients /\ v \in Clients /\ \E helpers \in SUBSET Clients : Board!Kill(e, v, helpers)
      BY <1>1, <2>3, KilledIsKill
    <3>2. \E k, x \in Clients : \E helpers \in SUBSET Clients : Board!Kill(k, x, helpers)
      BY <3>1
    <3> QED
      BY <3>2 DEF Board!Next
  <2>4. ASSUME NEW p \in connected, NEW item \in Items, SetAnimation(p, item)
        PROVE  UNCHANGED Board!board
    <3> DEFINE w == IsWeapon(item, FALSE)
    <3>1. w \in WeaponIds
      BY <2>4, IsWeaponType DEF SetAnimation, WeaponOrNone
    <3>2. m_Data' = [m_Data EXCEPT ![p] = Fired(m_Data[p], w)]
      BY <2>4 DEF SetAnimation
    <3> HIDE DEF w
    <3>3. \A i \in Clients : m_Data'[i] \in {m_Data[i], Fired(m_Data[i], w)}
      BY <1>1, <1>2, <3>2
    <3> QED
      BY <1>3, <3>1, <3>3 DEF Handled
  <2> QED
    BY <1>6, <2>1, <2>2, <2>3, <2>4 DEF Combat
<1>7. CASE Bomb
  <2>1. BombGroup = {"PLANTING", "PLANTED", "EXPLODED", "DEFUSING", "DEFUSED"}
    BY DEF BombGroup
  <2>2. PICK p \in Clients, what \in BombGroup : m_Data' = [m_Data EXCEPT ![p] = Bombed(m_Data[p], what)]
    BY <1>1, <1>7, <2>1
    DEF Bomb, PlantBomb, DefuseBombStart, DefuseBombEnd, ExplodeBomb, PlayerByIndexSafe
  <2>3. \A i \in Clients : m_Data'[i] \in {m_Data[i], Bombed(m_Data[i], what)}
    BY <1>1, <1>2, <2>2
  <2> QED
    BY <1>3, <2>3 DEF Handled
<1>8. CASE Round
  <2>1. CASE RoundFreezeEnd
    BY <1>4, <2>1 DEF RoundFreezeEnd
  <2>2. ASSUME NEW result \in RoundResults, RoundEnd(result[1], result[2])
        PROVE  Board!Next
    BY <2>2, RoundEndIsEndRound DEF Board!Next
  <2> QED
    BY <1>8, <2>1, <2>2 DEF Round
<1>9. ASSUME NEW p \in Clients, NEW r \in Wiped(m_Data[p]), m_Data' = [m_Data EXCEPT ![p] = r]
      PROVE  Board!Next
  <2>1. \A i \in Clients : IF i \in {p} THEN m_Data'[i] \in Wiped(m_Data[i])
                           ELSE m_Data'[i] = m_Data[i]
    BY <1>1, <1>2, <1>9
  <2>2. Board!Wipe({p})
    BY <2>1, ClearIsWipe
  <2> QED
    BY <2>2 DEF Board!Next
<1>10. CASE Session
  <2>1. ASSUME NEW p \in Clients, ClientPutInServer(p)
        PROVE  UNCHANGED m_Data
    BY <2>1 DEF ClientPutInServer, pluginVars
  <2>2. ASSUME NEW p \in connected, NEW netname \in Names, GetIntoGame(p, netname)
        PROVE  Board!Next
    BY <1>1, <1>9, <2>2 DEF GetIntoGame, Wiped
  <2>3. ASSUME NEW p \in connected, SV_DropClient(p)
        PROVE  Board!Next
    BY <1>1, <1>9, <2>3 DEF SV_DropClient, Disconnected, Wiped
  <2>4. ASSUME NEW p, NEW team, ChangeTeam(p, team)
        PROVE  UNCHANGED m_Data
    BY <2>4 DEF ChangeTeam, pluginVars
  <2>5. ASSUME NEW p, FreePrivateData(p)
        PROVE  UNCHANGED m_Data
    BY <2>5 DEF FreePrivateData, pluginVars
  <2> QED
    BY <1>4, <1>10, <2>1, <2>2, <2>3, <2>4, <2>5 DEF Session
<1>11. CASE Map
  <2>1. CASE m_Data' = AllZeroed
    <3>1. \A i \in Clients : IF i \in Clients THEN m_Data'[i] \in Wiped(m_Data[i])
                             ELSE m_Data'[i] = m_Data[i]
      BY <1>1, <2>1 DEF AllZeroed, Wiped
    <3>2. Board!Wipe(Clients)
      BY <3>1, ClearIsWipe
    <3> QED
      BY <3>2 DEF Board!Next
  <2>2. ASSUME NEW value, SetCvar(value)
        PROVE  UNCHANGED m_Data
    BY <2>2 DEF SetCvar, pluginVars
  <2> QED
    BY <1>4, <1>11, <2>1, <2>2 DEF Map, ServerActivate, ServerDeactivate
<1> QED
  BY <1>5, <1>6, <1>7, <1>8, <1>10, <1>11 DEF Next

\* The statistics are a score board (Scoreboard): a kill is one frag, one death and
\* assists for others than the killer, damage is dealt once and taken once, a round is
\* won by some of those who played it, and a record goes back to zero as a whole.
THEOREM StatsImplementsScoreboard == Spec => ImplementsScoreboard
BY InitImplements, StepImplements, TypeCorrect, PTL DEF Spec, ImplementsScoreboard, Board!Spec

=============================================================================
