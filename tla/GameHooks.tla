------------------------------ MODULE GameHooks ------------------------------
(***************************************************************************)
(* The hooks of ReGameDLL.cpp and ReAPI.cpp, as they nest.                 *)
(*                                                                         *)
(* A hook of the game runs chain->callNext, the game's own function, and   *)
(* then the handler of CStats.  What callNext does is the game's: it may   *)
(* call other hooked functions, so that the handler of the inner function  *)
(* has run before the handler of the outer one.  The variable stack holds  *)
(* the hooks that have been called and have not returned; Stats, where a   *)
(* handler is called at any time, says nothing of that order.              *)
(*                                                                         *)
(* The hook of SV_DropClient is the other way round: the handler, then the *)
(* engine.  It calls nothing that the plugin hooks before its handler is   *)
(* done, so it is the action of Stats, taken when no hook is running.      *)
(*                                                                         *)
(* Two variables are the game's and the history's:                         *)
(*   m_lastDamageAmount  the damage of the last hit a player has taken;    *)
(*   accepted            the damage an attacker has done in the round, as  *)
(*                       the game counts it, whatever the handlers did.    *)
(***************************************************************************)
EXTENDS Stats, SequencesExt

CONSTANTS
  Inside,     \* Inside[h]: the hooked functions the game may call within h
  MaxCalls    \* bound: how many hooked functions are called

Hooks == {"GetIntoGame", "AddAccount", "PlantBomb", "DefuseBombStart", "DefuseBombEnd",
          "ExplodeBomb", "RoundFreezeEnd", "RoundEnd", "TakeDamage", "Killed", "SetAnimation"}

\* A player comes into the game from the server's frame or from his own command, and
\* never while the game is doing something else.
ASSUME InsideAssumption ==
  /\ Inside \in [Hooks -> SUBSET Hooks]
  /\ \A h \in Hooks : "GetIntoGame" \notin Inside[h]

\* A hit that was refused leaves what was there, at first nothing.
ASSUME DamagesAssumption == 0 \in Damages

VARIABLES stack, calls, m_lastDamageAmount, accepted

hookvars == <<vars, stack, calls, m_lastDamageAmount, accepted>>

\* A hook that is running, with its arguments: the player, the attacker's entity,
\* the money, how the round ended, and a flag (Defused of DefuseBombEnd; of
\* TakeDamage, whether the game has accepted the hit).
NoEntity == 0
NoPay == <<0, 0>>
NoResult == <<"", "">>

Frame == [hook : Hooks, p : Clients \cup {NoPlayer}, e : Entities,
          pay : Payments \cup {NoPay}, result : RoundResults \cup {NoResult}, flag : BOOLEAN]

Framed(h, p, e, pay, result, flag) ==
  [hook |-> h, p |-> p, e |-> e, pay |-> pay, result |-> result, flag |-> flag]

Running(h) == \E i \in DOMAIN stack : stack[i].hook = h

-----------------------------------------------------------------------------
(* The game calls a hooked function. *)

\* Where the call may come from: the server's frame or the function that is running.
\* That none of them is called within itself is an assumption about the game.
MayCall(h) ==
  /\ sv_active
  /\ calls < MaxCalls
  /\ ~Running(h)
  /\ stack # <<>> => h \in Inside[Last(stack).hook]

\* A call that is handed to callNext at once.
Call(f) ==
  /\ MayCall(f.hook)
  /\ stack' = Append(stack, f)
  /\ calls' = calls + 1
  /\ UNCHANGED <<vars, m_lastDamageAmount, accepted>>

\* A handler, or nothing when its own tests refuse the call.
Unless(refused, handler) == IF refused THEN UNCHANGED vars ELSE handler

NoOwner(p) == ~IsEnabled \/ ~PlayerByIndexSafe(p)

\* PlantBombStarts if the handler were told that the bomb is planted already.
PlantBombEndsFirst(p) == Unless(NoOwner(p), PlantBomb(p, TRUE))

PlantBombStarts(p) == Unless(NoOwner(p), PlantBomb(p, FALSE))

\* ReGameDLL_PlantBomb calls the handler before callNext, and again after it.
CallPlantBomb(p) ==
  /\ MayCall("PlantBomb")
  /\ stack' = Append(stack, Framed("PlantBomb", p, NoEntity, NoPay, NoResult, FALSE))
  /\ calls' = calls + 1
  /\ PlantBombStarts(p)
  /\ UNCHANGED <<m_lastDamageAmount, accepted>>

GameCalls ==
  \/ \E p \in connected, h \in {"GetIntoGame", "DefuseBombStart", "SetAnimation"} :
       Call(Framed(h, p, NoEntity, NoPay, NoResult, FALSE))
  \/ \E p \in connected, pay \in Payments :
       Call(Framed("AddAccount", p, NoEntity, pay, NoResult, FALSE))
  \/ \E p \in connected, e \in Entities, h \in {"TakeDamage", "Killed"} :
       Call(Framed(h, p, e, NoPay, NoResult, FALSE))
  \/ \E p \in connected, Defused \in BOOLEAN :
       Call(Framed("DefuseBombEnd", p, NoEntity, NoPay, NoResult, Defused))
  \/ \E h \in {"ExplodeBomb", "RoundFreezeEnd"} :
       Call(Framed(h, NoPlayer, NoEntity, NoPay, NoResult, FALSE))
  \/ \E result \in RoundResults :
       Call(Framed("RoundEnd", NoPlayer, NoEntity, NoPay, result, FALSE))
  \/ \E p \in connected : CallPlantBomb(p)

\* The game accepts the hit it was called with, for d.
Accept(d) ==
  /\ stack # <<>>
  /\ LET f == Last(stack)
     IN  /\ f.hook = "TakeDamage"
         /\ ~f.flag
         /\ stack' = Append(Front(stack), [f EXCEPT !.flag = TRUE])
         /\ m_lastDamageAmount' = [m_lastDamageAmount EXCEPT ![f.p] = d]
         /\ accepted' = IF IsEnabled /\ PlayerByIndexSafe(f.e)
                        THEN [accepted EXCEPT ![f.e] = @ + d] ELSE accepted
  /\ UNCHANGED <<vars, calls>>

-----------------------------------------------------------------------------
(* callNext has returned: what the hook does then. *)

Returns(h) ==
  /\ stack # <<>>
  /\ Last(stack).hook = h
  /\ stack' = Front(stack)
  /\ UNCHANGED <<calls, m_lastDamageAmount>>

ReturnGetIntoGame ==
  /\ Returns("GetIntoGame")
  /\ \E netname \in Names : GetIntoGame(Last(stack).p, netname)
  /\ UNCHANGED accepted

ReturnAddAccount ==
  /\ Returns("AddAccount")
  /\ LET f == Last(stack) IN Unless(~IsEnabled, AddAccount(f.p, f.pay[1], f.pay[2]))
  /\ UNCHANGED accepted

\* PlantBombEnds if the handler were not told that the bomb is planted now.
PlantBombStartsLast(p) == Unless(NoOwner(p), PlantBomb(p, FALSE))

PlantBombEnds(p) == Unless(NoOwner(p), PlantBomb(p, TRUE))

ReturnPlantBomb ==
  /\ Returns("PlantBomb")
  /\ PlantBombEnds(Last(stack).p)
  /\ UNCHANGED accepted

ReturnDefuseBombStart ==
  /\ Returns("DefuseBombStart")
  /\ Unless(~IsEnabled, DefuseBombStart(Last(stack).p))
  /\ UNCHANGED accepted

ReturnDefuseBombEnd ==
  /\ Returns("DefuseBombEnd")
  /\ Unless(~IsEnabled \/ ~Last(stack).flag, DefuseBombEnd(Last(stack).p))
  /\ UNCHANGED accepted

ReturnExplodeBomb ==
  /\ Returns("ExplodeBomb")
  /\ Unless(NoOwner(m_RoundBombPlanter), ExplodeBomb)
  /\ UNCHANGED accepted

ReturnRoundFreezeEnd ==
  /\ Returns("RoundFreezeEnd")
  /\ Unless(~IsEnabled, RoundFreezeEnd)
  /\ accepted' = IF IsEnabled THEN ZeroPerSlot ELSE accepted

ReturnRoundEnd ==
  /\ Returns("RoundEnd")
  /\ LET f == Last(stack)
     IN  Unless(~IsEnabled \/ f.result[1] = "WINSTATUS_DRAW",
                RoundEnd(f.result[1], f.result[2]))
  /\ UNCHANGED accepted

\* The damage TakeDamage counts if it were read from the wrong player.
AmountOfAttacker(f) == m_lastDamageAmount[f.e]

\* The damage TakeDamage counts, read when the game is done with the hit.
Amount(f) == m_lastDamageAmount[f.p]

ReturnTakeDamage ==
  /\ Returns("TakeDamage")
  /\ LET f == Last(stack)
     IN  Unless(NoOwner(f.e), \E h \in HitGroups, item \in Items :
                                TakeDamage(f.p, f.e, h, Amount(f), item))
  /\ UNCHANGED accepted

ReturnKilled ==
  /\ Returns("Killed")
  /\ LET f == Last(stack)
     IN  \E kill \in KillInputs, item \in Items, living \in SUBSET (connected \ {f.p}) :
           Unless(NoOwner(f.e) \/ kill.byBomb \/ ~kill.isPlayer \/ f.p = f.e,
                  Killed(f.p, f.e, kill, item, living))
  /\ UNCHANGED accepted

\* Of the animations, the handler counts the two of an attack.
ReturnSetAnimation ==
  /\ Returns("SetAnimation")
  /\ \E item \in Items, attack \in BOOLEAN :
       Unless(~IsEnabled \/ ~attack \/ IsWeapon(item, FALSE) = WEAPON_NONE,
              SetAnimation(Last(stack).p, item))
  /\ UNCHANGED accepted

Return ==
  \/ ReturnGetIntoGame \/ ReturnAddAccount
  \/ ReturnPlantBomb \/ ReturnDefuseBombStart \/ ReturnDefuseBombEnd \/ ReturnExplodeBomb
  \/ ReturnRoundFreezeEnd \/ ReturnRoundEnd
  \/ ReturnTakeDamage \/ ReturnKilled \/ ReturnSetAnimation

-----------------------------------------------------------------------------
(* Between two calls of the server: clients, maps and the console. *)

\* The entity of a client that comes is made anew.
Client(p) == /\ ClientPutInServer(p)
             /\ m_lastDamageAmount' = [m_lastDamageAmount EXCEPT ![p] = 0]

\* ReAPI_SV_DropClient if it did not call the handler.
DropUnseen(p) ==
  /\ p \in connected
  /\ connected' = connected \ {p}
  /\ UNCHANGED <<pluginVars, managerVars, sv_active, pvPrivateData, m_iTeam>>

\* The handler is called for a client whose entity has a player, before callNext
\* drops the client.
ReAPI_SV_DropClient(p) ==
  /\ p \in connected
  /\ IF PlayerByIndexSafe(p) THEN Disconnected(p) ELSE UNCHANGED m_Data
  /\ connected' = connected \ {p}
  /\ UNCHANGED <<combatVars, bombVars, managerVars, sv_active, pvPrivateData, m_iTeam>>

Engine ==
  \/ \E p \in connected : ReAPI_SV_DropClient(p)
  \/ \E p \in Clients : FreePrivateData(p)
  \/ Map

Between ==
  /\ stack = <<>>
  /\ \/ \E p \in Clients : Client(p)
     \/ Engine /\ UNCHANGED m_lastDamageAmount
  /\ UNCHANGED <<stack, calls, accepted>>

\* The game moves a player, whatever it is doing.
Move ==
  /\ \E p \in connected, team \in Teams : ChangeTeam(p, team)
  /\ UNCHANGED <<stack, calls, m_lastDamageAmount, accepted>>

HookInit ==
  /\ Init
  /\ stack = <<>>
  /\ calls = 0
  /\ m_lastDamageAmount = [p \in Clients |-> 0]
  /\ accepted = ZeroPerSlot

HookNext == GameCalls \/ (\E d \in Damages : Accept(d)) \/ Return \/ Between \/ Move

HookSpec == HookInit /\ [][HookNext]_hookvars

\* Every function of the game returns to whoever called it; the stack is never deeper
\* than the number of calls.
EveryCallReturns ==
  \A depth \in 1..MaxCalls : SF_hookvars(Return /\ Len(stack) = depth)

-----------------------------------------------------------------------------
(* Properties. *)

\* Who is planting, as the handlers count it.
Planting(p) == IsEnabled /\ \E i \in DOMAIN stack : stack[i].hook = "PlantBomb" /\ stack[i].p = p

\* However the hooks nest, the handlers are called as Stats says: for players who
\* are in the game, with the teams and the entities they have at that time
\* (ReGameDLL.cpp:154-239, ReAPI.cpp:104-124).
StepsAsStats == [][Next]_vars

\* The two calls of the handler of PlantBomb (ReGameDLL.cpp:170-179) come in pairs
\* that nothing separates, neither a record that is cleared nor the cvar: a slot has
\* begun to plant as often as it has planted, one more while it plants, and while
\* it does the round has no planter.
PlantsPaired ==
  \A p \in Clients :
    /\ m_Data[p].BombStats.PLANTING =
         m_Data[p].BombStats.PLANTED + Bit(Planting(p))
    /\ Planting(p) => m_RoundBombPlanter = NoPlayer

\* The damage of a hit on the stack that the game has accepted and the handler will count.
Pending(e) ==
  IF IsEnabled /\ PlayerByIndexSafe(e)
     /\ \E i \in DOMAIN stack : stack[i].hook = "TakeDamage" /\ stack[i].e = e /\ stack[i].flag
  THEN LET i == CHOOSE i \in DOMAIN stack : stack[i].hook = "TakeDamage"
       IN  m_lastDamageAmount[stack[i].p]
  ELSE 0

\* No hit of the round is lost (ReGameDLL.cpp:218-225, Stats.cpp:42-86): an attacker
\* is credited with all the damage the game has accepted from him, but for the hit
\* whose hook has not returned; and with more, since a refused hit counts again the
\* amount that the victim's last one has left.
NoHitLost == \A e \in Clients : accepted[e] <= m_RoundDamageSelf[e] + Pending(e)

\* Who plants becomes the planter of the round when the game is done with the plant
\* (ReGameDLL.cpp:170-179), whatever is called in the meantime.
PlantRecorded ==
  \A p \in Clients : Planting(p) ~> ~Planting(p) /\ m_RoundBombPlanter = p

\* "Extra amount added to player from winner team that defused the bomb" (Stats.h:6):
\* a round that a defusal ends, from within the defusal, pays the defuser.
DefuserPaid ==
  [][\A i \in DOMAIN stack :
       /\ ReturnRoundEnd
       /\ IsEnabled
       /\ Last(stack).result = <<"WINSTATUS_CTS", "ROUND_BOMB_DEFUSED">>
       /\ stack[i].hook = "DefuseBombEnd" /\ stack[i].flag
       /\ m_iTeam[stack[i].p] = "CT"
       => m_Data'[stack[i].p].RoundWinShare # m_Data[stack[i].p].RoundWinShare]_hookvars

=============================================================================
