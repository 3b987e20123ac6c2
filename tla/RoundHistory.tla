---------------------------- MODULE RoundHistory -----------------------------
(***************************************************************************)
(* Stats with two history variables, to say what the tables of the round   *)
(* (the m_Round arrays) mean.  RoundFreezeEnd alone sets them back, the    *)
(* records m_Data by four other handlers, and neither by a change of team: *)
(* so a table speaks of the record and of the team it is read with only    *)
(* while nothing of this has come in between.                              *)
(*                                                                         *)
(*   tenured  the slots whose record has not been cleared since the tables *)
(*            were last zeroed;                                            *)
(*   moved    the slots whose m_iTeam has changed since then.              *)
(*                                                                         *)
(* The history variables only watch: HNext takes the steps of Next.        *)
(***************************************************************************)
EXTENDS Stats

VARIABLES tenured, moved

historyVars == <<tenured, moved>>
hvars == <<vars, historyVars>>

HInit == Init /\ tenured = Slots /\ moved = {}

\* The slots whose team this step changes.
Moving == {i \in Slots : m_iTeam'[i] # m_iTeam[i]}

\* A step that clears the records of S.
Clearing(S) == tenured' = tenured \ S /\ moved' = moved \cup Moving

HZero == RoundFreezeEnd /\ tenured' = Slots /\ moved' = {}

HRecord == /\ \/ Combat
              \/ Bomb
              \/ \E result \in RoundResults : RoundEnd(result[1], result[2])
              \/ \E value \in CvarValues : SetCvar(value)
           /\ UNCHANGED historyVars

HSession ==
  \/ \E p \in Clients : ClientPutInServer(p) /\ Clearing({})
  \/ \E p \in connected, netname \in Names : GetIntoGame(p, netname) /\ Clearing({p})
  \/ \E p \in connected : SV_DropClient(p) /\ Clearing({p})
  \/ \E p \in Clients : FreePrivateData(p) /\ Clearing({})

HTeam == \E p \in connected, team \in Teams : ChangeTeam(p, team) /\ Clearing({})

HMap == (ServerActivate \/ ServerDeactivate) /\ Clearing(Slots)

HNext == HZero \/ HRecord \/ HSession \/ HTeam \/ HMap

HSpec == HInit /\ [][HNext]_hvars

-----------------------------------------------------------------------------
\* The variables, those of Stats included, have their types.
HTypeOK == TypeOK /\ tenured \subseteq Slots /\ moved \subseteq Slots

\* What the tables credit a tenured slot with, its record holds as well
\* (Stats.cpp:56-70, 110-112, 238-240, 275-277 against 301-319): an assist, a
\* streak or the share of a round is never handed to a record that did not earn it,
\* as long as the record was not cleared during the round.
TablesWithinRecord ==
  \A p \in tenured :
    /\ \A v \in Slots : m_RoundDamage[p][v] <= m_RoundDamageSelf[p]
    /\ m_RoundDamageSelf[p] <= m_Data[p].Damage
    /\ m_RoundFrags[p] <= m_Data[p].Frags
    /\ m_RoundBombPlanter = p => m_Data[p].BombStats.PLANTED > 0
    /\ m_RoundBombDefuser = p => m_Data[p].BombStats.DEFUSED > 0

\* The damage of a slot that has kept its team is part of its team's damage, so the
\* division of RoundEnd (Stats.cpp:384) has a divisor that is not zero and a
\* quotient of at most one.
DamageWithinTeam ==
  \A p \in Slots \ moved : m_RoundDamageSelf[p] <= m_RoundDamageTeam[m_iTeam[p]]

\* Without a change of team the shares of the winners of a round are parts of a
\* whole: together they are at most one.
SharesOfAWhole ==
  moved = {} =>
    \A t \in {"TERRORIST", "CT"} :
      SumIn(m_RoundDamageSelf, {i \in pvPrivateData : m_iTeam[i] = t}) <= m_RoundDamageTeam[t]

\* A round's end adds at most one to the share of a slot that has kept its team,
\* the bomb's 3/10 included (0.3 + 0.7 * share): a share that was at most the number
\* of rounds played still is (Stats.cpp:325-393).
ShareWithinRounds ==
  [][\A p \in Slots \ moved :
       FracAtMost(m_Data[p].RoundWinShare, m_Data[p].Rounds.PLAY)
         => FracAtMost(m_Data'[p].RoundWinShare, m_Data'[p].Rounds.PLAY)]_hvars

\* A share becomes infinite, and stays so, only at the end of a round in which the slot
\* has changed team (Stats.cpp:384): for everybody else the damage it is divided by is
\* not zero, whoever left, joined or changed team besides him.
InfinityNeedsMove ==
  [][\A p \in Slots :
       m_Data[p].RoundWinShare.den # 0 /\ m_Data'[p].RoundWinShare.den = 0 => p \in moved]_hvars

\* A tenured slot that gains an assist has dealt the damage an assist takes.
AssistsEarned ==
  [][\A p \in tenured : m_Data'[p].Assists > m_Data[p].Assists
       => m_Data[p].Damage >= MANAGER_ASSISTANCE_DMG]_hvars

=============================================================================
