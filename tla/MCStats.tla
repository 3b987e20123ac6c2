------------------------------- MODULE MCStats -------------------------------
(***************************************************************************)
(* Instances of Stats for TLC: the inputs the cfg files choose from, and   *)
(* the specifications they check.  Spec starts when the plugin is loaded;  *)
(* the others start in a match that is on, a state Spec reaches, and leave *)
(* out the actions their question is not about.                            *)
(***************************************************************************)
EXTENDS Stats

CONSTANT StartTeams   \* the teams the clients are on when the match starts

Gun(w)   == [weapon |-> TRUE, slot |-> "PRIMARY_WEAPON_SLOT", id |-> w]
Knife    == [weapon |-> TRUE, slot |-> "KNIFE_SLOT", id |-> "WEAPON_KNIFE"]

NoInput == {}
OnlyAK == {Gun("WEAPON_AK47")}
SniperAndKnife == {Gun("WEAPON_AWP"), Knife}

PlainKill == [byBomb |-> FALSE, isPlayer |-> TRUE, head |-> FALSE,
              oneHit |-> FALSE, defaultFov |-> FALSE, blind |-> FALSE]
WildKill == [PlainKill EXCEPT !.head = TRUE, !.oneHit = TRUE, !.defaultFov = TRUE, !.blind = TRUE]
PlainKills == {PlainKill}
KillKinds == {PlainKill, WildKill, [PlainKill EXCEPT !.byBomb = TRUE],
              [PlainKill EXCEPT !.isPlayer = FALSE]}

Salaries == {<<1, 0>>, <<1, 15>>}

GunResults == {<<"WINSTATUS_TERRORISTS", "ROUND_TERRORISTS_WIN">>,
               <<"WINSTATUS_CTS", "ROUND_CTS_WIN">>, <<"WINSTATUS_DRAW", "ROUND_END_DRAW">>}
BombResults == {<<"WINSTATUS_TERRORISTS", "ROUND_TARGET_BOMB">>,
                <<"WINSTATUS_CTS", "ROUND_BOMB_DEFUSED">>,
                <<"WINSTATUS_CTS", "ROUND_CTS_WIN">>}

OneEach == <<"TERRORIST", "CT">>
TwoAndOne == <<"TERRORIST", "TERRORIST", "CT">>
BothTerrorists == <<"TERRORIST", "TERRORIST">>
PlayingTeams == {"TERRORIST", "CT"}

\* A match: the cvar is on, everyone has joined a team and come into the game.
MatchInit ==
  /\ m_Data = [i \in Slots |-> IF i \in Clients THEN Join(Zeroed, CHOOSE n \in Names : TRUE)
                               ELSE Zeroed]
  /\ m_RoundDamage = [i \in Slots |-> ZeroPerSlot]
  /\ m_RoundDamageSelf = ZeroPerSlot
  /\ m_RoundDamageTeam = ZeroPerTeam
  /\ m_RoundFrags = ZeroPerSlot
  /\ m_RoundVersus = ZeroPerSlot
  /\ m_RoundBombPlanter = NoPlayer
  /\ m_RoundBombDefuser = NoPlayer
  /\ m_Enabled = TRUE
  /\ stats_enabled = 1
  /\ sv_active = TRUE
  /\ connected = Clients
  /\ pvPrivateData = Clients
  /\ m_iTeam = [i \in Slots |-> IF i \in Clients THEN StartTeams[i] ELSE "UNASSIGNED"]

\* A player of S comes into the game again, from the spectators.
Respawn(S) == \E p \in S, netname \in Names : GetIntoGame(p, netname)

\* What a kill of RecordSpec is made with: the knife, or the other item when it is
\* a headshot.
HeldFor(kill) == IF kill.head THEN Items \ {Knife} ELSE {Knife}

\* The second player kills the first, who is hit by both, and may himself come into
\* the game again; he shoots, and rounds begin and end.
RecordSpec ==
  MatchInit /\ [][\/ Round
                  \/ Respawn({2})
                  \/ \E item \in Items : SetAnimation(2, item)
                  \/ \E e \in Entities, h \in HitGroups, d \in Damages, item \in Items :
                       TakeDamage(1, e, h, d, item)
                  \/ \E kill \in KillInputs, living \in SUBSET {2} :
                       \E item \in HeldFor(kill) : Killed(1, 2, kill, item, living)]_vars

BombRoundsSpec == MatchInit /\ [][Combat \/ Bomb \/ Round]_vars

\* Players leave, come and change teams; the map stays.
MatchSpec == MatchInit /\ [][Combat \/ Bomb \/ Round \/ Session]_vars

\* The players leave, come and change teams, and only terrorists plant.
PlantsSpec == MatchInit /\ [][\/ Round \/ Session
                              \/ \E p \in connected, planted \in BOOLEAN :
                                   m_iTeam[p] = "TERRORIST" /\ PlantBomb(p, planted)]_vars

=============================================================================
