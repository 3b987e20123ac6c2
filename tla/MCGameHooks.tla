----------------------------- MODULE MCGameHooks -----------------------------
(***************************************************************************)
(* Instances of GameHooks for TLC.  What may be called within what is what *)
(* the game of ReGameDLL can do as far as the hooks tell: a hit kills, a   *)
(* death pays and ends the round, an explosion hits, and the end of a      *)
(* defusal or of an explosion pays and ends the round.                     *)
(***************************************************************************)
EXTENDS GameHooks, MCStats

NestingOf ==
  [h \in Hooks |->
     CASE h = "TakeDamage" -> {"Killed", "SetAnimation"}
       [] h = "Killed" -> {"AddAccount", "RoundEnd", "SetAnimation"}
       [] h = "ExplodeBomb" -> {"TakeDamage", "RoundEnd"}
       [] h = "DefuseBombEnd" -> {"AddAccount", "RoundEnd"}
       [] h \in {"GetIntoGame", "RoundEnd"} -> {"AddAccount"}
       [] h = "PlantBomb" -> {"AddAccount", "SetAnimation"}
       [] OTHER -> {}]

PlanterSecond == <<"CT", "TERRORIST">>
OneSalary == {<<1, 1>>}
DefusalOnly == {<<"WINSTATUS_CTS", "ROUND_BOMB_DEFUSED">>}

\* The hooks in a match that is on.
HookMatchInit ==
  /\ MatchInit
  /\ stack = <<>>
  /\ calls = 0
  /\ m_lastDamageAmount = [p \in Clients |-> 0]
  /\ accepted = ZeroPerSlot

\* Within a match: the second player plants, shoots and hits the first, who comes,
\* goes and defuses; the world hits too.  Money and animations come with other calls.
MatchCalls ==
  \/ \E p \in {1} \cap connected, h \in {"GetIntoGame", "DefuseBombStart"} :
       Call(Framed(h, p, NoEntity, NoPay, NoResult, FALSE))
  \/ \E p \in {1} \cap connected, Defused \in BOOLEAN :
       Call(Framed("DefuseBombEnd", p, NoEntity, NoPay, NoResult, Defused))
  \/ \E p \in {1} \cap connected, e \in {0, 2}, h \in {"TakeDamage", "Killed"} :
       Call(Framed(h, p, e, NoPay, NoResult, FALSE))
  \/ /\ stack # <<>>
     /\ \/ \E pay \in Payments : Call(Framed("AddAccount", 2, NoEntity, pay, NoResult, FALSE))
        \/ Call(Framed("SetAnimation", 2, NoEntity, NoPay, NoResult, FALSE))
  \/ CallPlantBomb(2)
  \/ \E h \in {"ExplodeBomb", "RoundFreezeEnd"} :
       Call(Framed(h, NoPlayer, NoEntity, NoPay, NoResult, FALSE))
  \/ \E result \in RoundResults :
       Call(Framed("RoundEnd", NoPlayer, NoEntity, NoPay, result, FALSE))

MatchBetween ==
  /\ stack = <<>>
  /\ \/ Client(1)
     \/ /\ \/ ReAPI_SV_DropClient(1)
           \/ FreePrivateData(1)
           \/ \E value \in CvarValues : SetCvar(value)
        /\ UNCHANGED m_lastDamageAmount
  /\ UNCHANGED <<stack, calls, accepted>>

HookMatchSpec ==
  /\ HookMatchInit
  /\ [][MatchCalls \/ (\E d \in Damages \ {0} : Accept(d)) \/ Return \/ MatchBetween]_hookvars
  /\ EveryCallReturns

=============================================================================
