--------------------------- MODULE MCRoundHistory ----------------------------
(***************************************************************************)
(* Instances of RoundHistory for TLC, starting in a match that is on.      *)
(***************************************************************************)
EXTENDS MCStats, RoundHistory

HMatchInit == MatchInit /\ tenured = Slots /\ moved = {}

\* The first player acts, anyone may be hurt, leave or come, maps start and end;
\* nobody changes team but by leaving.  Of the bomb's handlers only those that set
\* planter and defuser count, and the explosion.
HTenureNext ==
  \/ HZero
  \/ /\ \/ \E v \in connected, h \in HitGroups, d \in Damages, item \in Items :
             TakeDamage(v, 1, h, d, item)
        \/ \E v \in connected, e \in Clients, kill \in KillInputs, item \in Items :
             Killed(v, e, kill, item, connected \ {v})
        \/ 1 \in connected /\ PlantBomb(1, TRUE)
        \/ 1 \in connected /\ DefuseBombEnd(1)
        \/ ExplodeBomb
     /\ UNCHANGED historyVars
  \/ HSession
  \/ HMap

HTenureSpec == HMatchInit /\ [][HTenureNext]_hvars

\* The players stay and change teams; of the bomb only its planting matters.
HTeamsNext ==
  \/ HZero
  \/ /\ \/ \E v \in connected, e \in Clients, h \in HitGroups, d \in Damages, item \in Items :
             TakeDamage(v, e, h, d, item)
        \/ \E p \in connected : PlantBomb(p, TRUE)
        \/ \E result \in RoundResults : RoundEnd(result[1], result[2])
     /\ UNCHANGED historyVars
  \/ HTeam

HTeamsSpec == HMatchInit /\ [][HTeamsNext]_hvars

=============================================================================
