--------------------------- MODULE GameHooksProofs ---------------------------
(***************************************************************************)
(* Theorems about GameHooks, for every value of its constants: however the *)
(* hooks nest they are steps of Stats, and no plant is cut in two and no   *)
(* hit is lost.                                                            *)
(***************************************************************************)
EXTENDS GameHooks, RecordProofs, SequenceTheorems

\* The hooks that are called with a player.
PlayerHooks == Hooks \ {"ExplodeBomb", "RoundFreezeEnd", "RoundEnd"}

FrameOK(f) ==
  /\ f.hook \in PlayerHooks => f.p \in connected
  /\ f.hook = "AddAccount" => f.pay \in Payments
  /\ f.hook = "RoundEnd" => f.result \in RoundResults

\* The hooks that are running have arguments that are still what they were.
StackOK ==
  /\ stack \in Seq(Frame)
  /\ \A i \in 1..Len(stack) : FrameOK(stack[i])

NoneWithinItself ==
  \A i, j \in 1..Len(stack) : stack[i].hook = stack[j].hook => i = j

HookTypeOK ==
  /\ TypeOK
  /\ StackOK
  /\ NoneWithinItself
  /\ calls \in Nat
  /\ m_lastDamageAmount \in [Clients -> Damages]
  /\ accepted \in [Slots -> Nat]

-----------------------------------------------------------------------------
(* The stack. *)

\* What a call leaves on the stack.
LEMMA Pushed ==
  ASSUME stack \in Seq(Frame), NEW f \in Frame
  PROVE  /\ Append(stack, f) \in Seq(Frame)
         /\ Len(Append(stack, f)) = Len(stack) + 1
         /\ \A i \in 1..Len(stack) : Append(stack, f)[i] = stack[i]
         /\ Append(stack, f)[Len(stack) + 1] = f
         /\ Len(stack) \in Nat
BY AppendProperties, LenProperties

\* What a return leaves on the stack.
LEMMA Popped ==
  ASSUME stack \in Seq(Frame), stack # <<>>
  PROVE  /\ Front(stack) \in Seq(Frame)
         /\ Len(stack) \in Nat \ {0}
         /\ Len(Front(stack)) = Len(stack) - 1
         /\ \A i \in 1..(Len(stack) - 1) : Front(stack)[i] = stack[i]
         /\ Last(stack) = stack[Len(stack)]
         /\ Last(stack) \in Frame
<1>1. Len(stack) \in Nat /\ Len(stack) # 0
  BY EmptySeq, LenProperties
<1>2. \A i \in 1..Len(stack) : stack[i] \in Frame
  BY ElementOfSeq
<1>3. \A i \in 1..(Len(stack) - 1) : stack[i] \in Frame
  BY <1>1, <1>2
<1>4. Len(stack) - 1 \in Int
  BY <1>1
<1>5. /\ SubSeq(stack, 1, Len(stack) - 1) \in Seq(Frame)
      /\ Len(SubSeq(stack, 1, Len(stack) - 1)) =
           IF 1 <= Len(stack) - 1 THEN (Len(stack) - 1) - 1 + 1 ELSE 0
      /\ \A i \in 1..((Len(stack) - 1) - 1 + 1) :
           SubSeq(stack, 1, Len(stack) - 1)[i] = stack[1 + i - 1]
  BY <1>3, <1>4, SubSeqProperties
<1> DEFINE n == Len(stack)
<1>6. n \in Nat \ {0} /\ n \in 1..n
  BY <1>1
<1>7. Last(stack) = stack[n] /\ Last(stack) \in Frame
  BY <1>2, <1>6 DEF Last
<1>8. Front(stack) = SubSeq(stack, 1, n - 1)
  BY DEF Front
<1> HIDE DEF n
<1>9. (IF 1 <= n - 1 THEN (n - 1) - 1 + 1 ELSE 0) = n - 1
  BY <1>6
<1>10. 1..((n - 1) - 1 + 1) = 1..(n - 1) /\ \A i \in 1..(n - 1) : 1 + i - 1 = i
  BY <1>6
<1>11. n = Len(stack)
  BY DEF n
<1> QED
  BY <1>5, <1>6, <1>7, <1>8, <1>9, <1>10, <1>11

\* The hook that returns has arguments that are still what they were.
LEMMA TopOK == ASSUME StackOK, stack # <<>>
               PROVE  Last(stack) \in Frame /\ FrameOK(Last(stack))
BY Popped DEF StackOK

-----------------------------------------------------------------------------
(* Steps of Stats. *)

\* A call is a step of Stats: the first call of PlantBomb's handler, or none.
LEMMA CallStep == ASSUME GameCalls PROVE [Next]_vars
<1>1. ASSUME NEW f, Call(f) PROVE UNCHANGED vars
  BY <1>1 DEF Call
<1>2. ASSUME NEW p \in connected, CallPlantBomb(p) PROVE [Next]_vars
  <2>1. UNCHANGED vars \/ PlantBomb(p, FALSE)
    BY <1>2 DEF CallPlantBomb, PlantBombStarts, Unless
  <2> QED
    BY <2>1 DEF Next, Bomb
<1> QED
  BY <1>1, <1>2 DEF GameCalls

\* The handlers for kills, hits, money and shots, after callNext.
LEMMA ReturnCombatStep ==
  ASSUME StackOK, m_lastDamageAmount \in [Clients -> Damages],
         connected \subseteq Clients,
         ReturnAddAccount \/ ReturnTakeDamage \/ ReturnKilled \/ ReturnSetAnimation
  PROVE  UNCHANGED vars \/ Combat
<1> DEFINE f == Last(stack)
<1>1. CASE ReturnAddAccount
  <2>1. f.p \in connected /\ f.pay \in Payments
    BY <1>1, TopOK DEF ReturnAddAccount, Returns, FrameOK, PlayerHooks, Hooks
  <2>2. UNCHANGED vars \/ AddAccount(f.p, f.pay[1], f.pay[2])
    BY <1>1 DEF ReturnAddAccount, Unless
  <2> QED
    BY <2>1, <2>2 DEF Combat
<1>2. CASE ReturnTakeDamage
  <2>1. f.p \in connected /\ f.e \in Entities
    BY <1>2, TopOK DEF ReturnTakeDamage, Returns, FrameOK, PlayerHooks, Hooks, Frame
  <2>2. Amount(f) \in Damages
    BY <2>1 DEF Amount
  <2>3. UNCHANGED vars \/ \E h \in HitGroups, item \in Items :
                            TakeDamage(f.p, f.e, h, Amount(f), item)
    BY <1>2 DEF ReturnTakeDamage, Unless
  <2> QED
    BY <2>1, <2>2, <2>3 DEF Combat
<1>3. CASE ReturnKilled
  <2>1. f.p \in connected /\ f.e \in Entities
    BY <1>3, TopOK DEF ReturnKilled, Returns, FrameOK, PlayerHooks, Hooks, Frame
  <2>2. PICK kill \in KillInputs, item \in Items, living \in SUBSET (connected \ {f.p}) :
          Unless(NoOwner(f.e) \/ kill.byBomb \/ ~kill.isPlayer \/ f.p = f.e,
                 Killed(f.p, f.e, kill, item, living))
    BY <1>3 DEF ReturnKilled
  <2>3. UNCHANGED vars \/ Killed(f.p, f.e, kill, item, living)
    BY <2>2 DEF Unless
  <2> QED
    BY <2>1, <2>3 DEF Combat
<1>4. CASE ReturnSetAnimation
  <2>1. f.p \in connected
    BY <1>4, TopOK DEF ReturnSetAnimation, Returns, FrameOK, PlayerHooks, Hooks
  <2>2. PICK item \in Items, attack \in BOOLEAN :
          Unless(~IsEnabled \/ ~attack \/ IsWeapon(item, FALSE) = WEAPON_NONE,
                 SetAnimation(f.p, item))
    BY <1>4 DEF ReturnSetAnimation
  <2>3. UNCHANGED vars \/ SetAnimation(f.p, item)
    BY <2>2 DEF Unless
  <2> QED
    BY <2>1, <2>3 DEF Combat
<1> QED
  BY <1>1, <1>2, <1>3, <1>4

\* The handlers for the bomb, the round and players, after callNext.
LEMMA ReturnRoundStep ==
  ASSUME StackOK,
         \/ ReturnGetIntoGame
         \/ ReturnPlantBomb \/ ReturnDefuseBombStart \/ ReturnDefuseBombEnd \/ ReturnExplodeBomb
         \/ ReturnRoundFreezeEnd \/ ReturnRoundEnd
  PROVE  [Next]_vars
<1> DEFINE f == Last(stack)
<1>1. CASE ReturnGetIntoGame
  <2>1. f.p \in connected
    BY <1>1, TopOK DEF ReturnGetIntoGame, Returns, FrameOK, PlayerHooks, Hooks
  <2> QED
    BY <1>1, <2>1 DEF ReturnGetIntoGame, Next, Session
<1>2. CASE ReturnPlantBomb
  <2>1. f.p \in connected
    BY <1>2, TopOK DEF ReturnPlantBomb, Returns, FrameOK, PlayerHooks, Hooks
  <2>2. UNCHANGED vars \/ PlantBomb(f.p, TRUE)
    BY <1>2 DEF ReturnPlantBomb, PlantBombEnds, Unless
  <2> QED
    BY <2>1, <2>2 DEF Next, Bomb
<1>3. CASE ReturnDefuseBombStart
  <2>1. f.p \in connected
    BY <1>3, TopOK DEF ReturnDefuseBombStart, Returns, FrameOK, PlayerHooks, Hooks
  <2>2. UNCHANGED vars \/ DefuseBombStart(f.p)
    BY <1>3 DEF ReturnDefuseBombStart, Unless
  <2> QED
    BY <2>1, <2>2 DEF Next, Bomb
<1>4. CASE ReturnDefuseBombEnd
  <2>1. f.p \in connected
    BY <1>4, TopOK DEF ReturnDefuseBombEnd, Returns, FrameOK, PlayerHooks, Hooks
  <2>2. UNCHANGED vars \/ DefuseBombEnd(f.p)
    BY <1>4 DEF ReturnDefuseBombEnd, Unless
  <2> QED
    BY <2>1, <2>2 DEF Next, Bomb
<1>5. CASE ReturnExplodeBomb
  <2>1. UNCHANGED vars \/ ExplodeBomb
    BY <1>5 DEF ReturnExplodeBomb, Unless
  <2> QED
    BY <2>1 DEF Next, Bomb
<1>6. CASE ReturnRoundFreezeEnd
  <2>1. UNCHANGED vars \/ RoundFreezeEnd
    BY <1>6 DEF ReturnRoundFreezeEnd, Unless
  <2> QED
    BY <2>1 DEF Next, Round
<1>7. CASE ReturnRoundEnd
  <2>1. f.result \in RoundResults
    BY <1>7, TopOK DEF ReturnRoundEnd, Returns, FrameOK, PlayerHooks, Hooks
  <2>2. UNCHANGED vars \/ RoundEnd(f.result[1], f.result[2])
    BY <1>7 DEF ReturnRoundEnd, Unless
  <2> QED
    BY <2>1, <2>2 DEF Next, Round
<1> QED
  BY <1>1, <1>2, <1>3, <1>4, <1>5, <1>6, <1>7

\* What happens between two calls of the server is a step of Stats; every client in
\* the game has a player, so that none is dropped unseen.
LEMMA BetweenStep == ASSUME TypeOK, Between PROVE [Next]_vars
<1>1. ASSUME NEW p \in Clients, Client(p) PROVE Next
  BY <1>1 DEF Client, Next, Session
<1>2. ASSUME NEW p \in connected, ReAPI_SV_DropClient(p) PROVE Next
  <2>1. PlayerByIndexSafe(p)
    BY <1>2 DEF PlayerByIndexSafe, TypeOK, ServerType
  <2>2. SV_DropClient(p)
    BY <1>2, <2>1 DEF ReAPI_SV_DropClient, SV_DropClient
  <2> QED
    BY <2>2 DEF Next, Session
<1>3. ASSUME NEW p \in Clients, FreePrivateData(p) PROVE Next
  BY <1>3 DEF Next, Session
<1> QED
  BY <1>1, <1>2, <1>3 DEF Between, Engine, Next

\* Every step of the hooks is a step of Stats or leaves it as it is.
LEMMA HookStep == ASSUME HookTypeOK, [HookNext]_hookvars PROVE [Next]_vars
<1>1. connected \subseteq Clients
  BY DEF HookTypeOK, TypeOK, ServerType
<1>2. CASE GameCalls
  BY <1>2, CallStep
<1>3. ASSUME NEW d \in Damages, Accept(d) PROVE UNCHANGED vars
  BY <1>3 DEF Accept
<1>4. CASE Return
  BY <1>1, <1>4, ReturnCombatStep, ReturnRoundStep DEF Return, HookTypeOK, Next
<1>5. CASE Between
  BY <1>5, BetweenStep DEF HookTypeOK
<1>6. CASE Move
  BY <1>6 DEF Move, Next, Session
<1>7. CASE UNCHANGED hookvars
  BY <1>7 DEF hookvars
<1> QED
  BY <1>2, <1>3, <1>4, <1>5, <1>6, <1>7 DEF HookNext

-----------------------------------------------------------------------------
(* Types, and what is on the stack. *)

OnStack == {stack[i] : i \in 1..Len(stack)}

\* A call puts a hook with good arguments on the stack, and changes nothing else but
\* what the handler of PlantBomb does.
LEMMA CallPushes ==
  ASSUME HookTypeOK, GameCalls
  PROVE  /\ \E f \in Frame : /\ FrameOK(f)
                             /\ f.hook = "TakeDamage" => ~f.flag
                             /\ MayCall(f.hook)
                             /\ stack' = Append(stack, f)
                             /\ \/ f.hook # "PlantBomb" /\ UNCHANGED vars
                                \/ f.hook = "PlantBomb" /\ PlantBombStarts(f.p)
         /\ calls' = calls + 1
         /\ UNCHANGED <<m_lastDamageAmount, accepted, managerVars, serverVars>>
<1>1. connected \subseteq Clients
  BY DEF HookTypeOK, TypeOK, ServerType
<1>2. ASSUME NEW f \in Frame, FrameOK(f), f.hook = "TakeDamage" => ~f.flag,
             f.hook # "PlantBomb", Call(f)
      PROVE  /\ FrameOK(f) /\ MayCall(f.hook) /\ stack' = Append(stack, f)
             /\ f.hook = "TakeDamage" => ~f.flag
             /\ f.hook # "PlantBomb" /\ UNCHANGED vars
             /\ calls' = calls + 1
             /\ UNCHANGED <<m_lastDamageAmount, accepted, managerVars, serverVars>>
  BY <1>2 DEF Call, vars
<1> DEFINE Good(f) == /\ f \in Frame /\ FrameOK(f)
                      /\ f.hook = "TakeDamage" => ~f.flag
                      /\ f.hook # "PlantBomb"
<1>3. NoEntity \in Entities /\ NoPlayer \in Clients \cup {NoPlayer}
  BY ClientsAssumption, SlotsAssumption DEF NoEntity, Entities
<1>4. ASSUME NEW p \in connected, NEW h \in {"GetIntoGame", "DefuseBombStart", "SetAnimation"}
      PROVE  Good(Framed(h, p, NoEntity, NoPay, NoResult, FALSE))
  BY <1>1, <1>3 DEF Framed, Frame, FrameOK, Hooks, PlayerHooks
<1>5. ASSUME NEW p \in connected, NEW pay \in Payments
      PROVE  Good(Framed("AddAccount", p, NoEntity, pay, NoResult, FALSE))
  BY <1>1, <1>3 DEF Framed, Frame, FrameOK, Hooks, PlayerHooks
<1>6. ASSUME NEW p \in connected, NEW e \in Entities, NEW h \in {"TakeDamage", "Killed"}
      PROVE  Good(Framed(h, p, e, NoPay, NoResult, FALSE))
  BY <1>1, <1>3 DEF Framed, Frame, FrameOK, Hooks, PlayerHooks
<1>7. ASSUME NEW p \in connected, NEW Defused \in BOOLEAN
      PROVE  Good(Framed("DefuseBombEnd", p, NoEntity, NoPay, NoResult, Defused))
  BY <1>1, <1>3 DEF Framed, Frame, FrameOK, Hooks, PlayerHooks
<1>8. ASSUME NEW h \in {"ExplodeBomb", "RoundFreezeEnd"}
      PROVE  Good(Framed(h, NoPlayer, NoEntity, NoPay, NoResult, FALSE))
  BY <1>1, <1>3 DEF Framed, Frame, FrameOK, Hooks, PlayerHooks
<1>9. ASSUME NEW result \in RoundResults
      PROVE  Good(Framed("RoundEnd", NoPlayer, NoEntity, NoPay, result, FALSE))
  BY <1>1, <1>3 DEF Framed, Frame, FrameOK, Hooks, PlayerHooks
<1>10. CASE \E p \in connected : CallPlantBomb(p)
  <2> PICK p \in connected : CallPlantBomb(p)
    BY <1>10
  <2> DEFINE f == Framed("PlantBomb", p, NoEntity, NoPay, NoResult, FALSE)
  <2>1. f \in Frame /\ FrameOK(f) /\ f.hook = "PlantBomb" /\ f.p = p
    BY <1>1, <1>3 DEF Framed, Frame, FrameOK, Hooks, PlayerHooks
  <2>2. /\ MayCall("PlantBomb") /\ stack' = Append(stack, f) /\ calls' = calls + 1
        /\ PlantBombStarts(p) /\ UNCHANGED <<m_lastDamageAmount, accepted>>
    BY DEF CallPlantBomb
  <2>3. UNCHANGED <<managerVars, serverVars>>
    BY <2>2 DEF PlantBombStarts, Unless, PlantBomb, vars
  <2> HIDE DEF f
  <2> QED
    BY <2>1, <2>2, <2>3
<1>11. CASE \E f : Good(f) /\ Call(f)
  BY <1>2, <1>11
<1> QED
  <2> HIDE DEF Good
  <2> QED
    BY <1>4, <1>5, <1>6, <1>7, <1>8, <1>9, <1>10, <1>11 DEF GameCalls

\* What a return does to the stack and to what is the game's.
LEMMA ReturnPops ==
  ASSUME HookTypeOK, Return
  PROVE  /\ stack # <<>>
         /\ stack' = Front(stack)
         /\ UNCHANGED <<calls, m_lastDamageAmount, managerVars, serverVars>>
<1>1. stack # <<>> /\ stack' = Front(stack) /\ UNCHANGED <<calls, m_lastDamageAmount>>
  BY DEF Return, Returns, ReturnGetIntoGame, ReturnAddAccount, ReturnPlantBomb,
         ReturnDefuseBombStart, ReturnDefuseBombEnd, ReturnExplodeBomb, ReturnRoundFreezeEnd,
         ReturnRoundEnd, ReturnTakeDamage, ReturnKilled, ReturnSetAnimation
<1>2. CASE UNCHANGED vars
  BY <1>1, <1>2 DEF vars
<1>3. ReturnGetIntoGame => UNCHANGED <<managerVars, serverVars>>
  BY DEF ReturnGetIntoGame, GetIntoGame
<1>4. ReturnAddAccount => UNCHANGED <<managerVars, serverVars>>
  BY <1>2 DEF ReturnAddAccount, Unless, AddAccount, vars
<1>5. ReturnPlantBomb => UNCHANGED <<managerVars, serverVars>>
  BY <1>2 DEF ReturnPlantBomb, PlantBombEnds, Unless, PlantBomb, vars
<1>6. ReturnDefuseBombStart => UNCHANGED <<managerVars, serverVars>>
  BY <1>2 DEF ReturnDefuseBombStart, Unless, DefuseBombStart, vars
<1>7. ReturnDefuseBombEnd => UNCHANGED <<managerVars, serverVars>>
  BY <1>2 DEF ReturnDefuseBombEnd, Unless, DefuseBombEnd, vars
<1>8. ReturnExplodeBomb => UNCHANGED <<managerVars, serverVars>>
  BY <1>2 DEF ReturnExplodeBomb, Unless, ExplodeBomb, vars
<1>9. ReturnRoundFreezeEnd => UNCHANGED <<managerVars, serverVars>>
  BY <1>2 DEF ReturnRoundFreezeEnd, Unless, RoundFreezeEnd, vars
<1>10. ReturnRoundEnd => UNCHANGED <<managerVars, serverVars>>
  BY <1>2 DEF ReturnRoundEnd, Unless, RoundEnd, vars
<1>11. ReturnTakeDamage => UNCHANGED <<managerVars, serverVars>>
  BY <1>2 DEF ReturnTakeDamage, Unless, TakeDamage, vars
<1>12. ReturnKilled => UNCHANGED <<managerVars, serverVars>>
  BY <1>2 DEF ReturnKilled, Unless, Killed, vars
<1>13. ReturnSetAnimation => UNCHANGED <<managerVars, serverVars>>
  BY <1>2 DEF ReturnSetAnimation, Unless, SetAnimation, vars
<1> QED
  BY <1>1, <1>3, <1>4, <1>5, <1>6, <1>7, <1>8, <1>9, <1>10, <1>11, <1>12, <1>13 DEF Return

\* The set of running hooks after a call.
LEMMA CallSets ==
  ASSUME HookTypeOK, NEW f \in Frame, MayCall(f.hook), stack' = Append(stack, f),
         FrameOK(f), UNCHANGED connected
  PROVE  /\ StackOK' /\ NoneWithinItself'
         /\ OnStack' = OnStack \cup {f}
         /\ \A g \in OnStack : g.hook # f.hook
<1> DEFINE n == Len(stack)
<1>1. stack \in Seq(Frame) /\ n \in Nat
  BY Pushed DEF HookTypeOK, StackOK
<1>2. /\ stack' \in Seq(Frame) /\ Len(stack') = n + 1
      /\ \A i \in 1..n : stack'[i] = stack[i]
      /\ stack'[n + 1] = f
  BY <1>1, Pushed
<1>3. 1..(n + 1) = (1..n) \cup {n + 1} /\ n + 1 \notin 1..n
  BY <1>1
<1>4. \A i \in 1..n : FrameOK(stack[i]) /\ stack[i].hook # f.hook
  BY <1>1 DEF HookTypeOK, StackOK, MayCall, Running
<1>5. \A g : FrameOK(g) => FrameOK(g)'
  BY DEF FrameOK
<1> HIDE DEF n
<1>6. StackOK'
  BY <1>2, <1>3, <1>4, <1>5 DEF StackOK
<1>7. NoneWithinItself'
  BY <1>2, <1>3, <1>4 DEF NoneWithinItself, HookTypeOK, n
<1>8. OnStack' = OnStack \cup {f}
  BY <1>2, <1>3 DEF OnStack, n
<1> QED
  BY <1>4, <1>6, <1>7, <1>8 DEF OnStack, n

\* The set of running hooks after a return.
LEMMA ReturnSets ==
  ASSUME HookTypeOK, stack # <<>>, stack' = Front(stack), UNCHANGED connected
  PROVE  /\ StackOK' /\ NoneWithinItself'
         /\ Last(stack) \in OnStack
         /\ OnStack' = OnStack \ {Last(stack)}
         /\ \A g \in OnStack' : g.hook # Last(stack).hook
<1> DEFINE n == Len(stack)
           f == Last(stack)
<1>1. /\ stack' \in Seq(Frame) /\ n \in Nat \ {0} /\ Len(stack') = n - 1
      /\ \A i \in 1..(n - 1) : stack'[i] = stack[i]
      /\ f = stack[n]
  BY Popped DEF HookTypeOK, StackOK
<1>2. 1..n = (1..(n - 1)) \cup {n} /\ n \notin 1..(n - 1)
  BY <1>1
<1>3. \A i \in 1..(n - 1) : stack[i].hook # f.hook
  BY <1>1, <1>2 DEF HookTypeOK, NoneWithinItself
<1>4. \A g : FrameOK(g) => FrameOK(g)'
  BY DEF FrameOK
<1>5. \A i \in 1..n : FrameOK(stack[i])
  BY DEF HookTypeOK, StackOK
<1>6. \A i, j \in 1..n : stack[i].hook = stack[j].hook => i = j
  BY DEF HookTypeOK, NoneWithinItself
<1>7. OnStack = {stack[i] : i \in 1..n}
  BY DEF OnStack
<1> HIDE DEF n, f
<1>8. StackOK'
  BY <1>1, <1>2, <1>4, <1>5 DEF StackOK
<1>9. NoneWithinItself'
  BY <1>1, <1>2, <1>6 DEF NoneWithinItself
<1>10. OnStack' = {stack[i] : i \in 1..(n - 1)}
  BY <1>1 DEF OnStack
<1>11. f \in OnStack
  BY <1>1, <1>2, <1>7
<1>12. OnStack' = OnStack \ {f}
  BY <1>1, <1>2, <1>3, <1>7, <1>10
<1>13. \A g \in OnStack' : g.hook # f.hook
  BY <1>3, <1>10
<1> QED
  BY <1>8, <1>9, <1>11, <1>12, <1>13 DEF f

\* The set of running hooks after the game has accepted a hit.
LEMMA AcceptSets ==
  ASSUME HookTypeOK, NEW d \in Damages, Accept(d)
  PROVE  LET f == Last(stack)
             g == [f EXCEPT !.flag = TRUE]
         IN  /\ StackOK' /\ NoneWithinItself'
             /\ f \in Frame /\ f \in OnStack /\ f.p \in Clients
             /\ f.hook = "TakeDamage" /\ ~f.flag
             /\ OnStack' = (OnStack \ {f}) \cup {g}
             /\ \A h \in OnStack \ {f} : h.hook # "TakeDamage"
             /\ Len(stack') = Len(stack)
             /\ \A i \in 1..Len(stack) : stack'[i].hook = stack[i].hook
<1> DEFINE n == Len(stack)
           f == Last(stack)
           g == [f EXCEPT !.flag = TRUE]
<1>1. /\ stack # <<>> /\ f.hook = "TakeDamage" /\ ~f.flag
      /\ stack' = Append(Front(stack), g) /\ UNCHANGED connected
  BY DEF Accept, vars, serverVars
<1>2. /\ Front(stack) \in Seq(Frame) /\ n \in Nat \ {0} /\ Len(Front(stack)) = n - 1
      /\ \A i \in 1..(n - 1) : Front(stack)[i] = stack[i]
      /\ f = stack[n] /\ f \in Frame
  BY <1>1, Popped DEF HookTypeOK, StackOK
<1>3. FrameOK(f)
  BY <1>1, TopOK DEF HookTypeOK
<1>4. /\ g \in Frame /\ g.hook = "TakeDamage" /\ g.p = f.p /\ g.e = f.e /\ g.flag
      /\ f.p \in Clients
  <2>1. f.p \in connected
    BY <1>1, <1>3 DEF FrameOK, PlayerHooks, Hooks
  <2> QED
    BY <1>1, <1>2, <2>1 DEF Frame, HookTypeOK, TypeOK, ServerType
<1>5. \A x : FrameOK(x) => FrameOK(x)'
  BY <1>1 DEF FrameOK
<1>6. FrameOK(g)
  BY <1>1, <1>3, <1>4 DEF FrameOK
<1>7. /\ stack' \in Seq(Frame) /\ Len(stack') = n
      /\ \A i \in 1..(n - 1) : stack'[i] = stack[i]
      /\ stack'[n] = g
  <2> DEFINE s == Front(stack)
  <2>1. s \in Seq(Frame) /\ Len(s) = n - 1 /\ stack' = Append(s, g)
    BY <1>1, <1>2
  <2>2. /\ Append(s, g) \in Seq(Frame) /\ Len(Append(s, g)) = Len(s) + 1
        /\ \A i \in 1..Len(s) : Append(s, g)[i] = s[i]
        /\ Append(s, g)[Len(s) + 1] = g
    BY <1>4, <2>1, AppendProperties
  <2>3. (n - 1) + 1 = n
    BY <1>2
  <2> HIDE DEF s, n, g, f
  <2>4. \A i \in 1..(n - 1) : s[i] = stack[i]
    BY <1>2 DEF s
  <2> QED
    BY <2>1, <2>2, <2>3, <2>4
<1>8. 1..n = (1..(n - 1)) \cup {n} /\ n \notin 1..(n - 1)
  BY <1>2
<1>9. \A i, j \in 1..n : stack[i].hook = stack[j].hook => i = j
  BY DEF HookTypeOK, NoneWithinItself
<1>10. \A i \in 1..n : FrameOK(stack[i])
  BY DEF HookTypeOK, StackOK
<1>11. OnStack = {stack[i] : i \in 1..n}
  BY DEF OnStack
<1> HIDE DEF n, f, g
<1>12. \A i \in 1..(n - 1) : stack[i].hook # "TakeDamage"
  BY <1>1, <1>2, <1>8, <1>9
<1>13. StackOK'
  BY <1>5, <1>6, <1>7, <1>8, <1>10 DEF StackOK
<1>14. NoneWithinItself'
  BY <1>1, <1>2, <1>4, <1>7, <1>8, <1>9 DEF NoneWithinItself
<1>15. OnStack' = {stack'[i] : i \in 1..n}
  BY <1>7 DEF OnStack
<1>16. OnStack = {stack[i] : i \in 1..(n - 1)} \cup {f}
  BY <1>2, <1>8, <1>11
<1>17. OnStack' = {stack[i] : i \in 1..(n - 1)} \cup {g}
  BY <1>7, <1>8, <1>15
<1>18. OnStack \ {f} = {stack[i] : i \in 1..(n - 1)}
  BY <1>1, <1>12, <1>16
<1>19. \A i \in 1..n : stack'[i].hook = stack[i].hook
  BY <1>1, <1>2, <1>4, <1>7, <1>8
<1>20. n = Len(stack)
  BY DEF n
<1> QED
  BY <1>1, <1>2, <1>4, <1>7, <1>12, <1>13, <1>14, <1>16, <1>17, <1>18, <1>19, <1>20 DEF f, g

\* Between two calls of the server nothing is on the stack.
LEMMA BetweenSets ==
  ASSUME HookTypeOK, Between
  PROVE  /\ StackOK' /\ NoneWithinItself'
         /\ OnStack = {} /\ OnStack' = {}
         /\ UNCHANGED accepted
         /\ m_lastDamageAmount' \in [Clients -> Damages]
<1>1. stack = <<>> /\ stack' = <<>> /\ UNCHANGED <<calls, accepted>>
  BY DEF Between
<1>2. Len(stack) = 0 /\ 1..0 = {} /\ Len(stack') = 0 /\ stack' \in Seq(Frame)
  BY <1>1
<1>3. m_lastDamageAmount' \in [Clients -> Damages]
  BY DamagesAssumption DEF Between, Client, HookTypeOK
<1> QED
  BY <1>1, <1>2, <1>3 DEF StackOK, NoneWithinItself, OnStack

\* The initial state has the types.
LEMMA HookInitType == HookInit => HookTypeOK
<1> SUFFICES ASSUME HookInit
             PROVE  HookTypeOK
  OBVIOUS
<1>1. TypeOK
  BY InitType DEF HookInit
<1>2. stack \in Seq(Frame) /\ Len(stack) = 0 /\ 1..0 = {}
  BY DEF HookInit
<1>3. m_lastDamageAmount \in [Clients -> Damages] /\ accepted \in [Slots -> Nat]
  BY DamagesAssumption DEF HookInit, ZeroPerSlot
<1> QED
  BY <1>1, <1>2, <1>3 DEF HookTypeOK, StackOK, NoneWithinItself, HookInit

\* Every step keeps the types.
LEMMA HookNextType == HookTypeOK /\ [HookNext]_hookvars => HookTypeOK'
<1> SUFFICES ASSUME HookTypeOK, [HookNext]_hookvars
             PROVE  HookTypeOK'
  OBVIOUS
<1>1. TypeOK'
  BY HookStep, NextType DEF HookTypeOK
<1>2. CASE GameCalls
  <2>1. PICK f \in Frame : /\ FrameOK(f) /\ MayCall(f.hook) /\ stack' = Append(stack, f)
    BY <1>2, CallPushes
  <2>2. UNCHANGED <<m_lastDamageAmount, accepted, connected>> /\ calls' = calls + 1
    BY <1>2, CallPushes DEF serverVars
  <2>3. StackOK' /\ NoneWithinItself'
    BY <2>1, <2>2, CallSets
  <2> QED
    BY <1>1, <2>2, <2>3 DEF HookTypeOK
<1>3. ASSUME NEW d \in Damages, Accept(d)
      PROVE  HookTypeOK'
  <2>1. StackOK' /\ NoneWithinItself'
    BY <1>3, AcceptSets
  <2>2. m_lastDamageAmount' \in [Clients -> Damages] /\ UNCHANGED calls
    BY <1>3 DEF Accept, HookTypeOK
  <2>3. d \in Nat /\ Clients \subseteq Slots
    BY InputsAssumption, ClientsAreSlots
  <2>4. accepted' \in [Slots -> Nat]
    BY <1>3, <2>3 DEF Accept, HookTypeOK, PlayerByIndexSafe
  <2> QED
    BY <1>1, <2>1, <2>2, <2>4 DEF HookTypeOK
<1>4. CASE Return
  <2>1. /\ stack # <<>> /\ stack' = Front(stack)
        /\ UNCHANGED <<calls, m_lastDamageAmount, connected>>
    BY <1>4, ReturnPops DEF serverVars
  <2>2. StackOK' /\ NoneWithinItself'
    BY <2>1, ReturnSets
  <2>3. accepted' \in {accepted, ZeroPerSlot}
    BY <1>4 DEF Return, ReturnGetIntoGame, ReturnAddAccount, ReturnPlantBomb,
         ReturnDefuseBombStart, ReturnDefuseBombEnd, ReturnExplodeBomb, ReturnRoundFreezeEnd,
         ReturnRoundEnd, ReturnTakeDamage, ReturnKilled, ReturnSetAnimation
  <2>4. ZeroPerSlot \in [Slots -> Nat]
    BY DEF ZeroPerSlot
  <2> QED
    BY <1>1, <2>1, <2>2, <2>3, <2>4 DEF HookTypeOK
<1>5. CASE Between
  BY <1>1, <1>5, BetweenSets DEF HookTypeOK, Between
<1>6. CASE Move
  <2>1. UNCHANGED <<stack, calls, m_lastDamageAmount, accepted, connected>>
    BY <1>6 DEF Move, ChangeTeam
  <2> QED
    BY <1>1, <2>1 DEF HookTypeOK, StackOK, NoneWithinItself, FrameOK
<1>7. CASE UNCHANGED hookvars
  BY <1>1, <1>7 DEF hookvars, vars, serverVars, HookTypeOK, StackOK, NoneWithinItself, FrameOK
<1> QED
  BY <1>2, <1>3, <1>4, <1>5, <1>6, <1>7 DEF HookNext

\* However the hooks nest, every one of their steps is a step of Stats
\* (ReGameDLL.cpp:154-239, ReAPI.cpp:104-124): whatever is proved of Stats, the
\* plugin keeps behind its hooks.
THEOREM HooksImplementStats == HookSpec => Init /\ StepsAsStats
<1>1. HookInit => Init
  BY DEF HookInit
<1>2. HookTypeOK /\ [HookNext]_hookvars => [Next]_vars
  BY HookStep
<1> QED
  BY <1>1, <1>2, HookInitType, HookNextType, PTL DEF HookSpec, StepsAsStats

\* What each record promises, behind nested hooks as well: the rounds are partitioned,
\* the break-downs are covered by the totals, no streak is counted beyond the rounds
\* played, and a disabled plugin records nothing (ReGameDLL.cpp:154-239).
THEOREM HooksKeepRecords ==
  HookSpec => /\ []RoundsPartitioned /\ []HeadshotsAreKills
              /\ []BreakdownsCovered /\ []OneStreakPerRound
              /\ VersusOnlyFromOverrun /\ FrozenWhileDisabled /\ EmptySlotsUntouched
<1>1. HookSpec => Spec
  BY HooksImplementStats DEF StepsAsStats, Spec
<1> QED
  BY <1>1, RoundsArePartitioned, HeadshotsAreAlwaysKills, BreakdownsAreCovered,
     StreaksStayWithinRounds, ClutchesAreNeverCounted, DisabledMeansFrozen, NobodyIsUntouched

-----------------------------------------------------------------------------
(* What is on the stack, as the properties read it. *)

PlantingFacts ==
  \A p \in Clients : Planting(p) <=> /\ IsEnabled
                                     /\ \E f \in OnStack : f.hook = "PlantBomb" /\ f.p = p

\* The hit of f will be counted for e.
Counts(f, e) == IsEnabled /\ PlayerByIndexSafe(e) /\ f.e = e /\ f.flag

PendingFacts ==
  \A e \in Clients :
    /\ (\A f \in OnStack : f.hook # "TakeDamage") => Pending(e) = 0
    /\ \A f \in OnStack : f.hook = "TakeDamage" =>
         Pending(e) = IF Counts(f, e) THEN m_lastDamageAmount[f.p] ELSE 0

LEMMA StackFacts == HookTypeOK => PlantingFacts /\ PendingFacts
<1> SUFFICES ASSUME HookTypeOK
             PROVE  PlantingFacts /\ PendingFacts
  OBVIOUS
<1> DEFINE n == Len(stack)
<1>1. DOMAIN stack = 1..n
  BY LenProperties DEF HookTypeOK, StackOK
<1>2. OnStack = {stack[i] : i \in 1..n}
  BY DEF OnStack
<1>3. \A i, j \in 1..n : stack[i].hook = stack[j].hook => i = j
  BY DEF HookTypeOK, NoneWithinItself
<1> HIDE DEF n
<1>4. PlantingFacts
  BY <1>1, <1>2 DEF PlantingFacts, Planting
<1>5. ASSUME NEW e \in Clients, \A f \in OnStack : f.hook # "TakeDamage"
      PROVE  Pending(e) = 0
  BY <1>1, <1>2, <1>5 DEF Pending
<1>6. ASSUME NEW e \in Clients, NEW f \in OnStack, f.hook = "TakeDamage"
      PROVE  Pending(e) = IF Counts(f, e) THEN m_lastDamageAmount[f.p] ELSE 0
  <2>1. PICK k \in 1..n : f = stack[k]
    BY <1>2
  <2>2. \A i \in 1..n : stack[i].hook = "TakeDamage" => i = k
    BY <1>3, <1>6, <2>1
  <2>3. (CHOOSE i \in 1..n : stack[i].hook = "TakeDamage") = k
    BY <1>6, <2>1, <2>2
  <2> QED
    BY <1>1, <1>6, <2>1, <2>2, <2>3 DEF Pending, Counts
<1> QED
  BY <1>4, <1>5, <1>6 DEF PendingFacts

-----------------------------------------------------------------------------
(* No hit is lost. *)

\* The other handlers leave what the attackers have dealt as it is.
LEMMA OtherReturns ==
  ASSUME Return, ~ReturnTakeDamage, ~ReturnRoundFreezeEnd
  PROVE  UNCHANGED <<m_RoundDamageSelf, accepted>>
<1>1. UNCHANGED vars => UNCHANGED m_RoundDamageSelf
  BY DEF vars, combatVars
<1>2. ReturnGetIntoGame => UNCHANGED <<m_RoundDamageSelf, accepted>>
  BY DEF ReturnGetIntoGame, GetIntoGame, combatVars
<1>3. ReturnAddAccount => UNCHANGED <<m_RoundDamageSelf, accepted>>
  BY <1>1 DEF ReturnAddAccount, Unless, AddAccount, combatVars
<1>4. ReturnPlantBomb => UNCHANGED <<m_RoundDamageSelf, accepted>>
  BY <1>1 DEF ReturnPlantBomb, PlantBombEnds, Unless, PlantBomb, combatVars
<1>5. ReturnDefuseBombStart => UNCHANGED <<m_RoundDamageSelf, accepted>>
  BY <1>1 DEF ReturnDefuseBombStart, Unless, DefuseBombStart, combatVars
<1>6. ReturnDefuseBombEnd => UNCHANGED <<m_RoundDamageSelf, accepted>>
  BY <1>1 DEF ReturnDefuseBombEnd, Unless, DefuseBombEnd, combatVars
<1>7. ReturnExplodeBomb => UNCHANGED <<m_RoundDamageSelf, accepted>>
  BY <1>1 DEF ReturnExplodeBomb, Unless, ExplodeBomb, combatVars
<1>8. ReturnRoundEnd => UNCHANGED <<m_RoundDamageSelf, accepted>>
  BY <1>1 DEF ReturnRoundEnd, Unless, RoundEnd, combatVars
<1>9. ReturnKilled => UNCHANGED <<m_RoundDamageSelf, accepted>>
  BY <1>1 DEF ReturnKilled, Unless, Killed, combatVars
<1>10. ReturnSetAnimation => UNCHANGED <<m_RoundDamageSelf, accepted>>
  BY <1>1 DEF ReturnSetAnimation, Unless, SetAnimation, combatVars
<1> QED
  BY <1>2, <1>3, <1>4, <1>5, <1>6, <1>7, <1>8, <1>9, <1>10 DEF Return

\* A step that leaves the tables, what is counted and the hits on the stack alone
\* keeps the property.
LEMMA SameHits ==
  ASSUME HookTypeOK, PendingFacts, PendingFacts', NoHitLost,
         UNCHANGED <<m_RoundDamageSelf, accepted, m_lastDamageAmount, managerVars, pvPrivateData>>,
         \A f \in OnStack' : f.hook = "TakeDamage" /\ f \notin OnStack => ~f.flag,
         \A f \in OnStack : f.hook = "TakeDamage" => f \in OnStack'
  PROVE  NoHitLost'
<1> SUFFICES ASSUME NEW e \in Clients
             PROVE  Pending(e)' = Pending(e)
  BY DEF NoHitLost
<1>1. \A f : Counts(f, e)' <=> Counts(f, e)
  BY DEF Counts, IsEnabled, PlayerByIndexSafe, managerVars
<1>2. CASE \E f \in OnStack : f.hook = "TakeDamage"
  BY <1>1, <1>2 DEF PendingFacts
<1>3. CASE \A f \in OnStack : f.hook # "TakeDamage"
  BY <1>1, <1>3 DEF PendingFacts, Counts
<1> QED
  BY <1>2, <1>3

\* A call and its return.
LEMMA CallKeepsHits ==
  ASSUME HookTypeOK, PendingFacts, PendingFacts', NoHitLost, GameCalls
  PROVE  NoHitLost'
<1>1. PICK f \in Frame : /\ FrameOK(f)
                         /\ f.hook = "TakeDamage" => ~f.flag
                         /\ MayCall(f.hook)
                         /\ stack' = Append(stack, f)
                         /\ UNCHANGED vars \/ PlantBombStarts(f.p)
  BY CallPushes
<1>2. UNCHANGED <<m_lastDamageAmount, accepted, managerVars, connected, pvPrivateData>>
  BY CallPushes DEF serverVars
<1>3. UNCHANGED m_RoundDamageSelf
  BY <1>1 DEF PlantBombStarts, Unless, PlantBomb, vars, combatVars
<1>4. OnStack' = OnStack \cup {f}
  BY <1>1, <1>2, CallSets
<1> QED
  BY <1>1, <1>2, <1>3, <1>4, SameHits

LEMMA AcceptKeepsHits ==
  ASSUME HookTypeOK, PendingFacts, PendingFacts', NoHitLost, NEW d \in Damages, Accept(d)
  PROVE  NoHitLost'
<1>a. PICK f : f = Last(stack)
  OBVIOUS
<1>b. PICK g : g = [f EXCEPT !.flag = TRUE]
  OBVIOUS
<1>1. /\ f \in Frame /\ f \in OnStack /\ f.p \in Clients
      /\ f.hook = "TakeDamage" /\ ~f.flag
      /\ g \in OnStack'
  BY <1>a, <1>b, AcceptSets
<1>2. g.hook = "TakeDamage" /\ g.p = f.p /\ g.e = f.e /\ g.flag
  BY <1>1, <1>b DEF Frame
<1>3. /\ m_lastDamageAmount' = [m_lastDamageAmount EXCEPT ![f.p] = d]
      /\ accepted' = IF IsEnabled /\ PlayerByIndexSafe(f.e)
                     THEN [accepted EXCEPT ![f.e] = @ + d] ELSE accepted
      /\ UNCHANGED vars
  BY <1>a DEF Accept
<1>4. d \in Nat /\ Clients \subseteq Slots
  BY InputsAssumption, ClientsAreSlots
<1>5. UNCHANGED <<m_RoundDamageSelf, managerVars, pvPrivateData>>
  BY <1>3 DEF vars, combatVars, serverVars
<1>6. SUFFICES ASSUME NEW e \in Clients
               PROVE  (accepted[e] <= m_RoundDamageSelf[e] + Pending(e))'
  BY DEF NoHitLost
<1>7. Pending(e) = 0 /\ accepted[e] <= m_RoundDamageSelf[e] + Pending(e)
  BY <1>1 DEF PendingFacts, Counts, NoHitLost
<1>8. Counts(g, e)' <=> IsEnabled /\ PlayerByIndexSafe(e) /\ f.e = e
  BY <1>2, <1>5 DEF Counts, IsEnabled, PlayerByIndexSafe, managerVars
<1>9. Pending(e)' = IF Counts(g, e)' THEN d ELSE 0
  BY <1>1, <1>2, <1>3 DEF PendingFacts, HookTypeOK
<1>10. accepted[e] \in Nat /\ m_RoundDamageSelf[e] \in Nat
  BY <1>4 DEF HookTypeOK, TypeOK, CStatsType
<1>11. accepted'[e] = IF IsEnabled /\ PlayerByIndexSafe(e) /\ f.e = e
                      THEN accepted[e] + d ELSE accepted[e]
  BY <1>3, <1>4 DEF HookTypeOK, PlayerByIndexSafe
<1> QED
  BY <1>4, <1>5, <1>7, <1>8, <1>9, <1>10, <1>11

LEMMA TakeDamageKeepsHits ==
  ASSUME HookTypeOK, PendingFacts, PendingFacts', NoHitLost, ReturnTakeDamage
  PROVE  NoHitLost'
<1> DEFINE f == Last(stack)
<1>1. Return
  BY DEF Return
<1>2. /\ stack # <<>> /\ stack' = Front(stack)
      /\ UNCHANGED <<m_lastDamageAmount, managerVars, connected, pvPrivateData>>
  BY <1>1, ReturnPops DEF serverVars
<1>3. /\ f \in OnStack /\ f.hook = "TakeDamage"
      /\ \A g \in OnStack' : g.hook # "TakeDamage"
  BY <1>2, ReturnSets DEF ReturnTakeDamage, Returns
<1>4. f \in Frame /\ f.p \in Clients
  <2>1. f \in Frame /\ FrameOK(f)
    BY <1>2, TopOK DEF HookTypeOK
  <2> QED
    BY <1>3, <2>1 DEF FrameOK, PlayerHooks, Hooks, HookTypeOK, TypeOK, ServerType
<1>5. UNCHANGED accepted
  BY DEF ReturnTakeDamage
<1>6. IF NoOwner(f.e) THEN UNCHANGED m_RoundDamageSelf
      ELSE m_RoundDamageSelf' = [m_RoundDamageSelf EXCEPT ![f.e] = @ + m_lastDamageAmount[f.p]]
  BY DEF ReturnTakeDamage, Unless, TakeDamage, Amount, vars, combatVars
<1> HIDE DEF f
<1> SUFFICES ASSUME NEW e \in Clients
             PROVE  (accepted[e] <= m_RoundDamageSelf[e] + Pending(e))'
  BY DEF NoHitLost
<1>7. Pending(e)' = 0
  BY <1>3 DEF PendingFacts
<1>8. /\ Pending(e) = IF Counts(f, e) THEN m_lastDamageAmount[f.p] ELSE 0
      /\ accepted[e] <= m_RoundDamageSelf[e] + Pending(e)
  BY <1>3 DEF PendingFacts, NoHitLost
<1>9. /\ m_lastDamageAmount[f.p] \in Nat /\ accepted[e] \in Nat
      /\ e \in Slots /\ m_RoundDamageSelf \in [Slots -> Nat]
  BY <1>4, InputsAssumption, ClientsAreSlots DEF HookTypeOK, TypeOK, CStatsType
<1>10. CASE NoOwner(f.e)
  BY <1>5, <1>6, <1>7, <1>8, <1>9, <1>10 DEF Counts, NoOwner
<1>11. CASE ~NoOwner(f.e) /\ f.e = e
  <2>1. m_RoundDamageSelf'[e] = m_RoundDamageSelf[e] + m_lastDamageAmount[f.p]
    BY <1>6, <1>9, <1>11
  <2> QED
    BY <1>5, <1>7, <1>8, <1>9, <2>1
<1>12. CASE ~NoOwner(f.e) /\ f.e # e
  <2>1. m_RoundDamageSelf'[e] = m_RoundDamageSelf[e] /\ ~Counts(f, e)
    BY <1>6, <1>9, <1>12 DEF Counts
  <2> QED
    BY <1>5, <1>7, <1>8, <1>9, <2>1
<1> QED
  BY <1>10, <1>11, <1>12

LEMMA FreezeEndKeepsHits ==
  ASSUME HookTypeOK, PendingFacts, PendingFacts', NoHitLost, ReturnRoundFreezeEnd
  PROVE  NoHitLost'
<1> DEFINE f == Last(stack)
<1>1. Return
  BY DEF Return
<1>2. /\ stack # <<>> /\ stack' = Front(stack)
      /\ UNCHANGED <<m_lastDamageAmount, managerVars, connected, pvPrivateData>>
  BY <1>1, ReturnPops DEF serverVars
<1>3. f.hook = "RoundFreezeEnd" /\ OnStack' = OnStack \ {f}
  BY <1>2, ReturnSets DEF ReturnRoundFreezeEnd, Returns
<1>4. CASE ~IsEnabled
  <2>1. UNCHANGED <<m_RoundDamageSelf, accepted>>
    BY <1>4 DEF ReturnRoundFreezeEnd, Unless, vars, combatVars
  <2> QED
    BY <1>2, <1>3, <2>1, SameHits
<1>5. CASE IsEnabled
  <2>1. m_RoundDamageSelf' = ZeroPerSlot /\ accepted' = ZeroPerSlot
    BY <1>5 DEF ReturnRoundFreezeEnd, Unless, RoundFreezeEnd, ZeroDamage
  <2>2. ASSUME NEW e \in Clients PROVE Pending(e)' \in Nat
    <3>1. \A g \in OnStack : g.hook = "TakeDamage" => g.p \in Clients
      BY TopOK DEF OnStack, HookTypeOK, StackOK, FrameOK, PlayerHooks, Hooks, TypeOK, ServerType
    <3>2. \A p \in Clients : m_lastDamageAmount'[p] \in Nat
      BY <1>2, InputsAssumption DEF HookTypeOK
    <3> QED
      BY <1>3, <3>1, <3>2 DEF PendingFacts
  <2>3. \A e \in Clients : e \in Slots
    BY ClientsAreSlots
  <2> QED
    BY <2>1, <2>2, <2>3 DEF NoHitLost, ZeroPerSlot
<1> QED
  BY <1>4, <1>5

\* Every step keeps what is credited.
LEMMA HitsNext == HookTypeOK /\ NoHitLost /\ [HookNext]_hookvars => NoHitLost'
<1> SUFFICES ASSUME HookTypeOK, NoHitLost, [HookNext]_hookvars
             PROVE  NoHitLost'
  OBVIOUS
<1>1. PendingFacts /\ PendingFacts'
  <2>1. HookTypeOK'
    BY HookNextType
  <2>2. HookTypeOK' => PendingFacts'
    BY StackFacts, PTL
  <2> QED
    BY <2>1, <2>2, StackFacts
<1>2. CASE GameCalls
  BY <1>1, <1>2, CallKeepsHits
<1>3. ASSUME NEW d \in Damages, Accept(d)
      PROVE  NoHitLost'
  BY <1>1, <1>3, AcceptKeepsHits
<1>4. CASE Return
  <2>1. CASE ReturnTakeDamage
    BY <1>1, <2>1, TakeDamageKeepsHits
  <2>2. CASE ReturnRoundFreezeEnd
    BY <1>1, <2>2, FreezeEndKeepsHits
  <2>3. CASE ~ReturnTakeDamage /\ ~ReturnRoundFreezeEnd
    <3>1. UNCHANGED <<m_RoundDamageSelf, accepted>>
      BY <1>4, <2>3, OtherReturns
    <3>2. /\ stack # <<>> /\ stack' = Front(stack)
          /\ UNCHANGED <<m_lastDamageAmount, managerVars, connected, pvPrivateData>>
      BY <1>4, ReturnPops DEF serverVars
    <3>3. OnStack' = OnStack \ {Last(stack)}
      BY <3>2, ReturnSets
    <3>4. Last(stack).hook # "TakeDamage"
      BY <1>4, <2>3 DEF Return, Returns, ReturnGetIntoGame, ReturnAddAccount, ReturnPlantBomb,
         ReturnDefuseBombStart, ReturnDefuseBombEnd, ReturnExplodeBomb, ReturnRoundEnd,
         ReturnKilled, ReturnSetAnimation
    <3> QED
      BY <1>1, <3>1, <3>2, <3>3, <3>4, SameHits
  <2> QED
    BY <2>1, <2>2, <2>3
<1>5. CASE Between
  <2>1. OnStack = {} /\ OnStack' = {} /\ UNCHANGED accepted
    BY <1>5, BetweenSets
  <2>2. UNCHANGED m_RoundDamageSelf
    BY <1>5 DEF Between, Client, Engine, Map, ClientPutInServer, ReAPI_SV_DropClient, FreePrivateData,
       ServerActivate, ServerDeactivate, SetCvar, pluginVars, combatVars
  <2>3. \A e \in Clients : Pending(e) = 0 /\ Pending(e)' = 0
    BY <1>1, <2>1 DEF PendingFacts
  <2> QED
    BY <2>1, <2>2, <2>3 DEF NoHitLost
<1>6. CASE Move
  <2>1. UNCHANGED <<m_RoundDamageSelf, accepted, stack, m_lastDamageAmount, managerVars, pvPrivateData>>
    BY <1>6 DEF Move, ChangeTeam, pluginVars, combatVars
  <2>2. OnStack' = OnStack
    BY <2>1 DEF OnStack
  <2> QED
    BY <1>1, <2>1, <2>2, SameHits
<1>7. CASE UNCHANGED hookvars
  <2>1. UNCHANGED <<m_RoundDamageSelf, accepted, stack, m_lastDamageAmount, managerVars, pvPrivateData>>
    BY <1>7 DEF hookvars, vars, combatVars, serverVars
  <2>2. OnStack' = OnStack
    BY <2>1 DEF OnStack
  <2> QED
    BY <1>1, <2>1, <2>2, SameHits
<1> QED
  BY <1>2, <1>3, <1>4, <1>5, <1>6, <1>7 DEF HookNext

\* An attacker is credited with every hit of the round the game has accepted, at the
\* latest when the hook of the hit returns (ReGameDLL.cpp:218-225).
THEOREM NoHitIsLost == HookSpec => []NoHitLost
<1>1. HookInit => NoHitLost
  <2> SUFFICES ASSUME HookInit
               PROVE  NoHitLost
    OBVIOUS
  <2>1. HookTypeOK /\ OnStack = {}
    BY HookInitType DEF HookInit, OnStack
  <2>2. \A e \in Clients : Pending(e) = 0 /\ e \in Slots
    BY <2>1, StackFacts, ClientsAreSlots DEF PendingFacts
  <2> QED
    BY <2>2 DEF HookInit, Init, NoHitLost, ZeroPerSlot
<1> QED
  BY <1>1, HookInitType, HookNextType, HitsNext, PTL DEF HookSpec

-----------------------------------------------------------------------------
(* Plants are paired. *)

\* A player comes into the game when nothing else is running.
JoinsFirst == \A i \in 1..Len(stack) : stack[i].hook = "GetIntoGame" => i = 1

\* Whatever d counts of plants is begun as often as done.
Plants(d) == <<d.BombStats.PLANTING, d.BombStats.PLANTED>>

SamePlants == \A i \in Slots : Plants(m_Data[i])' = Plants(m_Data[i])

PlantNumbers == \A i \in Slots : /\ m_Data[i].BombStats.PLANTING \in Nat
                                 /\ m_Data[i].BombStats.PLANTED \in Nat

LEMMA PlantsAreNumbers == TypeOK => PlantNumbers
BY DEF TypeOK, CStatsType, CPlayerRecord, BombGroup, PlantNumbers

\* Money, damage, kills and shots leave the bomb alone.
LEMMA CombatKeepsPlants ==
  ASSUME TypeOK, Combat
  PROVE  SamePlants /\ UNCHANGED bombVars
<1>1. connected \subseteq Slots /\ m_Data \in [Slots -> CPlayerRecord]
  BY ClientsAreSlots DEF TypeOK, ServerType, CStatsType
<1> SUFFICES ASSUME NEW i \in Slots
             PROVE  m_Data'[i].BombStats = m_Data[i].BombStats /\ UNCHANGED bombVars
  BY ClientsAreSlots DEF SamePlants, Plants
<1>2. m_Data[i] \in CPlayerRecord
  BY <1>1
<1>3. ASSUME NEW p \in connected, NEW pay \in Payments, AddAccount(p, pay[1], pay[2])
      PROVE  m_Data'[i].BombStats = m_Data[i].BombStats /\ UNCHANGED bombVars
  BY <1>1, <1>2, <1>3, PaidFields DEF AddAccount
<1>4. ASSUME NEW v \in connected, NEW e \in Entities, NEW h \in HitGroups, NEW d \in Damages,
             NEW item \in Items, TakeDamage(v, e, h, d, item)
      PROVE  m_Data'[i].BombStats = m_Data[i].BombStats /\ UNCHANGED bombVars
  <2> DEFINE w == IsWeapon(item, TRUE)
  <2>1. w \in WeaponOrNone /\ d \in Nat
    BY IsWeaponType, InputsAssumption
  <2>2. m_Data'[i] = AfterHit(m_Data[i], i, v, e, h, d, w)
    BY <1>1, <1>4, TakeDamageStep, ZenonT(60)
  <2> HIDE DEF w
  <2>3. Dealt(m_Data[i], h, d, w) \in CPlayerRecord
    BY <1>2, <2>1, DealtType
  <2>4. AfterHit(m_Data[i], i, v, e, h, d, w).BombStats = m_Data[i].BombStats
    BY <1>2, <2>3, DealtFields, ReceivedFields DEF AfterHit
  <2> QED
    BY <1>4, <2>2, <2>4 DEF TakeDamage
<1>5. ASSUME NEW v \in connected, NEW e \in Entities, NEW kill \in KillInputs,
             NEW item \in Items, NEW living, Killed(v, e, kill, item, living)
      PROVE  m_Data'[i].BombStats = m_Data[i].BombStats /\ UNCHANGED bombVars
  <2> DEFINE w == IsWeapon(item, TRUE)
  <2>1. w \in WeaponOrNone
    BY IsWeaponType
  <2>2. m_Data'[i] = IF i = e THEN Scored(m_Data[i], w, kill)
                     ELSE IF i = v /\ i \in Assists(e, v) THEN Assisted(Died(m_Data[i], w))
                     ELSE IF i = v THEN Died(m_Data[i], w)
                     ELSE IF i \in Assists(e, v) THEN Assisted(m_Data[i])
                     ELSE m_Data[i]
    BY <1>1, <1>5, KilledStep
  <2> HIDE DEF w
  <2>3. Died(m_Data[i], w) \in CPlayerRecord
    BY <1>2, <2>1, DiedType
  <2>4. m_Data'[i].BombStats = m_Data[i].BombStats
    BY <1>2, <2>2, <2>3, ScoredFields, DiedFields, AssistedFields
  <2> QED
    BY <1>5, <2>4 DEF Killed
<1>6. ASSUME NEW p \in connected, NEW item \in Items, SetAnimation(p, item)
      PROVE  m_Data'[i].BombStats = m_Data[i].BombStats /\ UNCHANGED bombVars
  <2> DEFINE w == IsWeapon(item, FALSE)
  <2>1. m_Data'[i] = IF i = p THEN Fired(m_Data[i], w) ELSE m_Data[i]
    BY <1>1, <1>6 DEF SetAnimation
  <2>2. UNCHANGED bombVars
    BY <1>6 DEF SetAnimation
  <2> HIDE DEF w
  <2>3. Fired(m_Data[i], w).BombStats = m_Data[i].BombStats
    BY <1>2, FiredFields
  <2> QED
    BY <2>1, <2>2, <2>3
<1> QED
  BY <1>3, <1>4, <1>5, <1>6 DEF Combat

\* What one call of PlantBomb's handler counts.
LEMMA PlantBombCounts ==
  ASSUME TypeOK, NEW p \in Slots, NEW planted \in BOOLEAN, PlantBomb(p, planted), NEW i \in Slots
  PROVE  Plants(m_Data[i])' = << m_Data[i].BombStats.PLANTING + Bit(i = p /\ ~planted),
                                 m_Data[i].BombStats.PLANTED + Bit(i = p /\ planted) >>
<1> DEFINE what == IF planted THEN "PLANTED" ELSE "PLANTING"
<1>1. m_Data \in [Slots -> CPlayerRecord] /\ m_Data[i] \in CPlayerRecord
  BY DEF TypeOK, CStatsType
<1>2. m_Data'[i] = IF i = p THEN Bombed(m_Data[i], what) ELSE m_Data[i]
  BY <1>1 DEF PlantBomb
<1>3. what \in BombGroup
  BY DEF BombGroup
<1>4. Bombed(m_Data[i], what).BombStats = Plus(m_Data[i].BombStats, what, 1)
  BY <1>1, BombedFields
<1>5. m_Data[i].BombStats \in [BombGroup -> Nat]
  BY <1>1 DEF CPlayerRecord
<1>6. m_Data[i].BombStats.PLANTING \in Nat /\ m_Data[i].BombStats.PLANTED \in Nat
  BY <1>5 DEF BombGroup
<1>7. CASE i = p
  <2>1. m_Data'[i].BombStats = Plus(m_Data[i].BombStats, what, 1)
    BY <1>2, <1>4, <1>7
  <2>2. /\ m_Data'[i].BombStats.PLANTING = m_Data[i].BombStats.PLANTING + Bit(~planted)
        /\ m_Data'[i].BombStats.PLANTED = m_Data[i].BombStats.PLANTED + Bit(planted)
    BY <1>5, <1>6, <2>1 DEF Plus, Bit, BombGroup
  <2> QED
    BY <1>7, <2>2 DEF Plants
<1>8. CASE i # p
  BY <1>2, <1>6, <1>8 DEF Plants, Bit
<1> QED
  BY <1>7, <1>8

\* A player still comes into the game when nothing else is running.
LEMMA JoinsNext == HookTypeOK /\ JoinsFirst /\ [HookNext]_hookvars => JoinsFirst'
<1> SUFFICES ASSUME HookTypeOK, JoinsFirst, [HookNext]_hookvars
             PROVE  JoinsFirst'
  OBVIOUS
<1>1. CASE GameCalls
  <2>1. PICK f \in Frame : MayCall(f.hook) /\ stack' = Append(stack, f)
    BY <1>1, CallPushes
  <2>2. /\ Len(stack) \in Nat /\ Len(stack') = Len(stack) + 1
        /\ \A i \in 1..Len(stack) : stack'[i] = stack[i]
        /\ stack'[Len(stack) + 1] = f
    BY <2>1, Pushed DEF HookTypeOK, StackOK
  <2>3. f.hook = "GetIntoGame" => Len(stack) = 0
    <3>1. CASE stack = <<>>
      BY <3>1
    <3>2. CASE stack # <<>>
      <4>1. Last(stack).hook \in Hooks
        BY <3>2, Popped DEF HookTypeOK, StackOK, Frame
      <4> QED
        BY <2>1, <3>2, <4>1, InsideAssumption DEF MayCall
    <3> QED
      BY <3>1, <3>2
  <2>4. 1..(Len(stack) + 1) = (1..Len(stack)) \cup {Len(stack) + 1}
    BY <2>2
  <2> QED
    BY <2>2, <2>3, <2>4 DEF JoinsFirst
<1>2. ASSUME NEW d \in Damages, Accept(d)
      PROVE  JoinsFirst'
  BY <1>2, AcceptSets DEF JoinsFirst
<1>3. CASE Return
  <2>1. /\ stack # <<>> /\ stack' = Front(stack)
    BY <1>3, ReturnPops
  <2>2. /\ Len(stack) \in Nat \ {0} /\ Len(stack') = Len(stack) - 1
        /\ \A i \in 1..(Len(stack) - 1) : stack'[i] = stack[i]
    BY <2>1, Popped DEF HookTypeOK, StackOK
  <2>3. 1..(Len(stack) - 1) \subseteq 1..Len(stack)
    BY <2>2
  <2> QED
    BY <2>2, <2>3 DEF JoinsFirst
<1>4. CASE Between
  <2>1. Len(stack') = 0 /\ 1..0 = {}
    BY <1>4 DEF Between
  <2> QED
    BY <2>1 DEF JoinsFirst
<1>5. CASE Move
  BY <1>5 DEF Move, JoinsFirst
<1>6. CASE UNCHANGED hookvars
  BY <1>6 DEF hookvars, JoinsFirst
<1> QED
  BY <1>1, <1>2, <1>3, <1>4, <1>5, <1>6 DEF HookNext

\* A step that plants nothing and leaves the plants on the stack alone keeps the
\* property.
LEMMA PlantsAlone ==
  ASSUME PlantsPaired, PlantingFacts, PlantingFacts', SamePlants,
         m_RoundBombPlanter' \in {m_RoundBombPlanter, NoPlayer},
         UNCHANGED managerVars,
         \A f : f.hook = "PlantBomb" => (f \in OnStack' <=> f \in OnStack)
  PROVE  PlantsPaired'
<1> SUFFICES ASSUME NEW p \in Clients
             PROVE  /\ (m_Data[p].BombStats.PLANTING = m_Data[p].BombStats.PLANTED + Bit(Planting(p)))'
                    /\ Planting(p)' => m_RoundBombPlanter' = NoPlayer
  BY DEF PlantsPaired
<1>1. IsEnabled' = IsEnabled
  BY DEF IsEnabled, managerVars
<1>2. Planting(p)' <=> Planting(p)
  BY <1>1 DEF PlantingFacts
<1>3. Bit(Planting(p))' = Bit(Planting(p))
  BY <1>2 DEF Bit
<1>4. /\ m_Data'[p].BombStats.PLANTING = m_Data[p].BombStats.PLANTING
      /\ m_Data'[p].BombStats.PLANTED = m_Data[p].BombStats.PLANTED
  BY ClientsAreSlots DEF SamePlants, Plants
<1>5. /\ m_Data[p].BombStats.PLANTING = m_Data[p].BombStats.PLANTED + Bit(Planting(p))
      /\ Planting(p) => m_RoundBombPlanter = NoPlayer
  BY DEF PlantsPaired
<1> QED
  BY <1>2, <1>3, <1>4, <1>5

\* While nobody plants, whatever clears records keeps the property.
LEMMA PlantsWiped ==
  ASSUME PlantsPaired, PlantNumbers,
         \A p \in Clients : ~Planting(p) /\ ~Planting(p)',
         \A p \in Clients : \/ Plants(m_Data[p])' = Plants(m_Data[p])
                            \/ Plants(m_Data[p])' = <<0, 0>>
  PROVE  PlantsPaired'
<1> SUFFICES ASSUME NEW p \in Clients
             PROVE  (m_Data[p].BombStats.PLANTING = m_Data[p].BombStats.PLANTED + Bit(Planting(p)))'
  BY DEF PlantsPaired
<1>1. Bit(Planting(p)) = 0 /\ Bit(Planting(p))' = 0
  BY DEF Bit
<1>2. m_Data[p].BombStats.PLANTING = m_Data[p].BombStats.PLANTED + 0
  BY <1>1 DEF PlantsPaired
<1>3. m_Data[p].BombStats.PLANTED \in Nat
  BY ClientsAreSlots DEF PlantNumbers
<1> QED
  BY <1>1, <1>2, <1>3 DEF Plants

\* A cleared record has planted nothing.
LEMMA WipedPlants ==
  ASSUME NEW d, NEW r \in {Clear(d), Zeroed} \cup {Join(d, netname) : netname \in Names}
  PROVE  Plants(r) = <<0, 0>>
<1>1. Zeroed.BombStats = [b \in BombGroup |-> 0]
  BY DEF Zeroed
<1>2. Clear(d).BombStats = [b \in BombGroup |-> 0]
  BY DEF Clear, Zeroed
<1>3. \A netname \in Names : Join(d, netname).BombStats = [b \in BombGroup |-> 0]
  BY DEF Join, Clear, Zeroed
<1>4. r.BombStats = [b \in BombGroup |-> 0]
  BY <1>1, <1>2, <1>3
<1> QED
  BY <1>4 DEF Plants, BombGroup

\* The two calls of the handler of PlantBomb.
LEMMA CallKeepsPairs ==
  ASSUME HookTypeOK, PlantingFacts, PlantingFacts', PlantsPaired, GameCalls
  PROVE  PlantsPaired'
<1>1. PICK f \in Frame : /\ FrameOK(f) /\ MayCall(f.hook) /\ stack' = Append(stack, f)
                         /\ \/ f.hook # "PlantBomb" /\ UNCHANGED vars
                            \/ f.hook = "PlantBomb" /\ PlantBombStarts(f.p)
  BY CallPushes
<1>2. UNCHANGED <<managerVars, serverVars>>
  BY CallPushes
<1>3. OnStack' = OnStack \cup {f} /\ \A g \in OnStack : g.hook # f.hook
  BY <1>1, <1>2, CallSets DEF serverVars
<1>4. CASE f.hook # "PlantBomb"
  <2>1. SamePlants /\ UNCHANGED m_RoundBombPlanter
    BY <1>1, <1>4 DEF vars, bombVars, SamePlants, Plants
  <2> QED
    BY <1>2, <1>3, <1>4, <2>1, PlantsAlone
<1>5. CASE f.hook = "PlantBomb"
  <2>1. f.p \in connected /\ PlayerByIndexSafe(f.p) /\ f.p \in Slots
    BY <1>1, <1>5, ClientsAreSlots
    DEF FrameOK, PlayerHooks, Hooks, PlayerByIndexSafe, HookTypeOK, TypeOK, ServerType
  <2>2. IsEnabled' = IsEnabled
    BY <1>2 DEF IsEnabled, managerVars
  <2>3. \A p \in Clients : /\ ~Planting(p)
                           /\ Planting(p)' <=> IsEnabled /\ p = f.p
    BY <1>3, <1>5, <2>2 DEF PlantingFacts
  <2>4. CASE ~IsEnabled
    <3>1. SamePlants /\ UNCHANGED m_RoundBombPlanter
      BY <1>1, <1>5, <2>4 DEF PlantBombStarts, Unless, NoOwner, vars, bombVars, SamePlants, Plants
    <3>2. PlantNumbers
      BY PlantsAreNumbers DEF HookTypeOK
    <3>3. \A p \in Clients : Plants(m_Data[p])' = Plants(m_Data[p])
      BY <3>1, ClientsAreSlots DEF SamePlants
    <3> QED
      BY <2>3, <2>4, <3>2, <3>3, PlantsWiped
  <2>5. CASE IsEnabled
    <3>1. PlantBomb(f.p, FALSE)
      BY <1>1, <1>5, <2>1, <2>5 DEF PlantBombStarts, Unless, NoOwner
    <3>2. m_RoundBombPlanter' = NoPlayer
      BY <3>1 DEF PlantBomb
    <3> SUFFICES ASSUME NEW p \in Clients
                 PROVE  (m_Data[p].BombStats.PLANTING = m_Data[p].BombStats.PLANTED + Bit(Planting(p)))'
      BY <3>2 DEF PlantsPaired
    <3>3. p \in Slots /\ TypeOK
      BY ClientsAreSlots DEF HookTypeOK
    <3>4. Plants(m_Data[p])' = << m_Data[p].BombStats.PLANTING + Bit(p = f.p /\ ~FALSE),
                                  m_Data[p].BombStats.PLANTED + Bit(p = f.p /\ FALSE) >>
      BY <2>1, <3>1, <3>3, PlantBombCounts
    <3>5. /\ m_Data'[p].BombStats.PLANTING = m_Data[p].BombStats.PLANTING + Bit(p = f.p)
          /\ m_Data'[p].BombStats.PLANTED = m_Data[p].BombStats.PLANTED + 0
      BY <3>4 DEF Plants, Bit
    <3>6. m_Data[p].BombStats.PLANTING = m_Data[p].BombStats.PLANTED + 0
      BY <2>3 DEF PlantsPaired, Bit
    <3>7. m_Data[p].BombStats.PLANTED \in Nat
      BY <3>3, PlantsAreNumbers DEF PlantNumbers
    <3>8. Bit(Planting(p))' = Bit(p = f.p)
      BY <2>3, <2>5 DEF Bit
    <3> QED
      BY <3>5, <3>6, <3>7, <3>8 DEF Bit
  <2> QED
    BY <2>4, <2>5
<1> QED
  BY <1>4, <1>5

LEMMA ReturnPlantKeepsPairs ==
  ASSUME HookTypeOK, PlantingFacts, PlantingFacts', PlantsPaired, ReturnPlantBomb
  PROVE  PlantsPaired'
<1>1. PICK f : f = Last(stack)
  OBVIOUS
<1>2. /\ stack # <<>> /\ stack' = Front(stack) /\ UNCHANGED <<managerVars, serverVars>>
  BY ReturnPops DEF Return
<1>3. /\ f.hook = "PlantBomb" /\ f \in OnStack
      /\ \A g \in OnStack' : g.hook # "PlantBomb"
  BY <1>1, <1>2, ReturnSets DEF ReturnPlantBomb, Returns, serverVars
<1>4. f.p \in connected /\ PlayerByIndexSafe(f.p) /\ f.p \in Slots /\ f.p \in Clients
  BY <1>1, <1>2, <1>3, TopOK, ClientsAreSlots
  DEF FrameOK, PlayerHooks, Hooks, PlayerByIndexSafe, HookTypeOK, TypeOK, ServerType
<1>5. \A p \in Clients : ~Planting(p)'
  BY <1>3 DEF PlantingFacts
<1>6. PlantNumbers /\ TypeOK
  BY PlantsAreNumbers DEF HookTypeOK
<1>7. CASE ~IsEnabled
  <2>1. \A p \in Clients : ~Planting(p)
    BY <1>7 DEF PlantingFacts
  <2>2. UNCHANGED vars
    BY <1>7 DEF ReturnPlantBomb, PlantBombEnds, Unless, NoOwner
  <2>3. \A p \in Clients : Plants(m_Data[p])' = Plants(m_Data[p])
    BY <2>2 DEF vars, Plants
  <2> QED
    BY <1>5, <1>6, <2>1, <2>3, PlantsWiped
<1>8. CASE IsEnabled
  <2>1. PlantBomb(f.p, TRUE)
    BY <1>1, <1>4, <1>8 DEF ReturnPlantBomb, PlantBombEnds, Unless, NoOwner
  <2> SUFFICES ASSUME NEW p \in Clients
               PROVE  (m_Data[p].BombStats.PLANTING = m_Data[p].BombStats.PLANTED + Bit(Planting(p)))'
    BY <1>5 DEF PlantsPaired
  <2>2. p \in Slots
    BY ClientsAreSlots
  <2>3. Plants(m_Data[p])' = << m_Data[p].BombStats.PLANTING + Bit(p = f.p /\ ~TRUE),
                                m_Data[p].BombStats.PLANTED + Bit(p = f.p /\ TRUE) >>
    BY <1>4, <1>6, <2>1, <2>2, PlantBombCounts
  <2>4. /\ m_Data'[p].BombStats.PLANTING = m_Data[p].BombStats.PLANTING + 0
        /\ m_Data'[p].BombStats.PLANTED = m_Data[p].BombStats.PLANTED + Bit(p = f.p)
    BY <2>3 DEF Plants, Bit
  <2>5. Planting(p) => p = f.p
    <3> SUFFICES ASSUME Planting(p) PROVE p = f.p
      OBVIOUS
    <3>1. PICK g \in OnStack : g.hook = "PlantBomb" /\ g.p = p
      BY DEF PlantingFacts
    <3>2. g = f
      BY <1>1, <1>2, <1>3, <3>1, ReturnSets DEF serverVars
    <3> QED
      BY <3>1, <3>2
  <2>6. Planting(f.p)
    BY <1>3, <1>4, <1>8 DEF PlantingFacts
  <2>7. Bit(Planting(p)) = Bit(p = f.p)
    BY <2>5, <2>6 DEF Bit
  <2>8. m_Data[p].BombStats.PLANTING = m_Data[p].BombStats.PLANTED + Bit(p = f.p)
    BY <2>7 DEF PlantsPaired
  <2>9. m_Data[p].BombStats.PLANTED \in Nat /\ Bit(p = f.p) \in Nat
    BY <1>6, <2>2 DEF PlantNumbers, Bit
  <2>10. Bit(Planting(p))' = 0
    BY <1>5 DEF Bit
  <2> QED
    BY <2>4, <2>8, <2>9, <2>10
<1> QED
  BY <1>7, <1>8

\* The rest of the bomb is no plant.
LEMMA NoPlantBombed ==
  ASSUME TypeOK, NEW p \in Slots, NEW what \in {"DEFUSING", "DEFUSED", "EXPLODED"},
         m_Data' = [m_Data EXCEPT ![p] = Bombed(@, what)]
  PROVE  SamePlants
<1> SUFFICES ASSUME NEW i \in Slots PROVE Plants(m_Data[i])' = Plants(m_Data[i])
  BY DEF SamePlants
<1>1. m_Data \in [Slots -> CPlayerRecord] /\ m_Data[i] \in CPlayerRecord
  BY DEF TypeOK, CStatsType
<1>2. m_Data'[i] = IF i = p THEN Bombed(m_Data[i], what) ELSE m_Data[i]
  BY <1>1
<1>3. Bombed(m_Data[i], what).BombStats = Plus(m_Data[i].BombStats, what, 1)
  BY <1>1, BombedFields
<1>4. m_Data[i].BombStats \in [BombGroup -> Nat]
  BY <1>1 DEF CPlayerRecord
<1>5. /\ Plus(m_Data[i].BombStats, what, 1).PLANTING = m_Data[i].BombStats.PLANTING
      /\ Plus(m_Data[i].BombStats, what, 1).PLANTED = m_Data[i].BombStats.PLANTED
  BY <1>4 DEF Plus, BombGroup
<1> QED
  BY <1>2, <1>3, <1>5 DEF Plants

\* The other handlers of the bomb and the round.
QuietReturn == \/ ReturnDefuseBombStart \/ ReturnDefuseBombEnd \/ ReturnExplodeBomb
               \/ ReturnRoundFreezeEnd \/ ReturnRoundEnd

LEMMA QuietReturnsKeepPlants ==
  ASSUME HookTypeOK, QuietReturn
  PROVE  /\ SamePlants /\ m_RoundBombPlanter' \in {m_RoundBombPlanter, NoPlayer}
         /\ Last(stack).hook # "PlantBomb"
<1> DEFINE f == Last(stack)
           Kept == SamePlants /\ m_RoundBombPlanter' \in {m_RoundBombPlanter, NoPlayer}
<1>0. TypeOK
  BY DEF HookTypeOK
<1>1. f.hook # "PlantBomb"
  BY DEF QuietReturn, ReturnDefuseBombStart, ReturnDefuseBombEnd, ReturnExplodeBomb,
         ReturnRoundFreezeEnd, ReturnRoundEnd, Returns
<1>2. CASE UNCHANGED vars
  BY <1>1, <1>2 DEF vars, bombVars, SamePlants, Plants
<1>3. ASSUME f.hook \in {"DefuseBombStart", "DefuseBombEnd"}, stack # <<>>
      PROVE  f.p \in Slots
  BY <1>3, TopOK, ClientsAreSlots
  DEF FrameOK, PlayerHooks, Hooks, HookTypeOK, TypeOK, ServerType
<1>4. CASE ReturnDefuseBombStart /\ ~UNCHANGED vars
  <2>1. DefuseBombStart(f.p) /\ f.p \in Slots
    BY <1>3, <1>4 DEF ReturnDefuseBombStart, Returns, Unless
  <2>2. /\ m_Data' = [m_Data EXCEPT ![f.p] = Bombed(@, "DEFUSING")]
        /\ UNCHANGED m_RoundBombPlanter
    BY <2>1 DEF DefuseBombStart, bombVars
  <2> QED
    BY <1>0, <1>1, <2>1, <2>2, NoPlantBombed
<1>5. CASE ReturnDefuseBombEnd /\ ~UNCHANGED vars
  <2>1. DefuseBombEnd(f.p) /\ f.p \in Slots
    BY <1>3, <1>5 DEF ReturnDefuseBombEnd, Returns, Unless
  <2>2. /\ m_Data' = [m_Data EXCEPT ![f.p] = Bombed(@, "DEFUSED")]
        /\ UNCHANGED m_RoundBombPlanter
    BY <2>1 DEF DefuseBombEnd
  <2> QED
    BY <1>0, <1>1, <2>1, <2>2, NoPlantBombed
<1>6. CASE ReturnExplodeBomb /\ ~UNCHANGED vars
  <2>1. ExplodeBomb
    BY <1>6 DEF ReturnExplodeBomb, Unless
  <2>2. /\ m_Data' = [m_Data EXCEPT ![m_RoundBombPlanter] = Bombed(@, "EXPLODED")]
        /\ UNCHANGED m_RoundBombPlanter
        /\ m_RoundBombPlanter \in Slots
    BY <1>0, <2>1, ClientsAreSlots
    DEF ExplodeBomb, bombVars, PlayerByIndexSafe, TypeOK, ServerType
  <2> QED
    BY <1>0, <1>1, <2>2, NoPlantBombed
<1>7. CASE ReturnRoundFreezeEnd /\ ~UNCHANGED vars
  <2>1. RoundFreezeEnd
    BY <1>7 DEF ReturnRoundFreezeEnd, Unless
  <2>2. UNCHANGED m_Data /\ m_RoundBombPlanter' = NoPlayer
    BY <2>1 DEF RoundFreezeEnd, ZeroBomb
  <2> QED
    BY <1>1, <2>2 DEF SamePlants, Plants
<1>8. CASE ReturnRoundEnd /\ ~UNCHANGED vars
  <2>1. PICK winStatus, event : RoundEnd(winStatus, event)
    BY <1>8 DEF ReturnRoundEnd, Unless
  <2>2. PICK Winner : m_Data' = [i \in Slots |-> IF PlayerByIndexSafe(i)
                                                 THEN AfterRound(i, Winner, event) ELSE m_Data[i]]
    BY <2>1 DEF RoundEnd
  <2>3. UNCHANGED m_RoundBombPlanter
    BY <2>1 DEF RoundEnd, bombVars
  <2>4. \A i \in Slots : AfterRound(i, Winner, event).BombStats = m_Data[i].BombStats
    BY <1>0, AfterRoundFields
  <2>5. \A i \in Slots : m_Data'[i].BombStats = m_Data[i].BombStats
    BY <2>2, <2>4
  <2> QED
    BY <1>1, <2>3, <2>5 DEF SamePlants, Plants
<1> QED
  BY <1>1, <1>2, <1>4, <1>5, <1>6, <1>7, <1>8 DEF QuietReturn

\* A player who comes into the game does so while nobody plants.
LEMMA JoinKeepsPairs ==
  ASSUME HookTypeOK, JoinsFirst, PlantingFacts, PlantingFacts', PlantsPaired, ReturnGetIntoGame
  PROVE  PlantsPaired'
<1>1. PICK f : f = Last(stack)
  OBVIOUS
<1>2. /\ stack # <<>> /\ stack' = Front(stack) /\ UNCHANGED <<managerVars, serverVars>>
  BY ReturnPops DEF Return
<1>3. /\ f.hook = "GetIntoGame" /\ OnStack' = OnStack \ {f}
  BY <1>1, <1>2, ReturnSets DEF ReturnGetIntoGame, Returns, serverVars
<1>4. \A g \in OnStack : g = f
  <2>1. /\ Len(stack) \in Nat \ {0} /\ f = stack[Len(stack)]
    BY <1>1, <1>2, Popped DEF HookTypeOK, StackOK
  <2>2. Len(stack) \in 1..Len(stack)
    BY <2>1
  <2>3. Len(stack) = 1
    BY <1>3, <2>1, <2>2 DEF JoinsFirst
  <2> QED
    BY <2>1, <2>3 DEF OnStack
<1>5. \A p \in Clients : ~Planting(p) /\ ~Planting(p)'
  BY <1>3, <1>4 DEF PlantingFacts
<1>6. PICK netname \in Names : m_Data' = [m_Data EXCEPT ![f.p] = Join(@, netname)]
  BY <1>1 DEF ReturnGetIntoGame, GetIntoGame
<1>7. m_Data \in [Slots -> CPlayerRecord] /\ PlantNumbers
  BY PlantsAreNumbers DEF HookTypeOK, TypeOK, CStatsType
<1>8. ASSUME NEW p \in Clients
      PROVE  \/ Plants(m_Data[p])' = Plants(m_Data[p])
             \/ Plants(m_Data[p])' = <<0, 0>>
  <2>1. m_Data'[p] = IF p = f.p THEN Join(m_Data[p], netname) ELSE m_Data[p]
    BY <1>6, <1>7, ClientsAreSlots
  <2>2. Plants(Join(m_Data[p], netname)) = <<0, 0>>
    BY WipedPlants
  <2> QED
    BY <2>1, <2>2 DEF Plants
<1> QED
  BY <1>5, <1>7, <1>8, PlantsWiped

\* Between two calls of the server nobody plants.
LEMMA BetweenKeepsPairs ==
  ASSUME HookTypeOK, PlantingFacts, PlantingFacts', PlantsPaired, Between
  PROVE  PlantsPaired'
<1>1. OnStack = {} /\ OnStack' = {}
  BY BetweenSets
<1>2. \A p \in Clients : ~Planting(p) /\ ~Planting(p)'
  BY <1>1 DEF PlantingFacts
<1>3. m_Data \in [Slots -> CPlayerRecord] /\ PlantNumbers
  BY PlantsAreNumbers DEF HookTypeOK, TypeOK, CStatsType
<1>4. /\ connected \subseteq Clients
      /\ \/ UNCHANGED m_Data \/ m_Data' = AllZeroed
         \/ \E q \in connected : m_Data' = [m_Data EXCEPT ![q] = Clear(@)]
  BY DEF Between, Client, Engine, Map, ClientPutInServer, ReAPI_SV_DropClient, Disconnected,
         FreePrivateData, ServerActivate, ServerDeactivate, SetCvar, pluginVars,
         HookTypeOK, TypeOK, ServerType
<1>5. ASSUME NEW p \in Clients
      PROVE  \/ Plants(m_Data[p])' = Plants(m_Data[p])
             \/ Plants(m_Data[p])' = <<0, 0>>
  <2>1. m_Data'[p] \in {m_Data[p], Zeroed, Clear(m_Data[p])}
    BY <1>3, <1>4, ClientsAreSlots DEF AllZeroed
  <2>2. Plants(Zeroed) = <<0, 0>> /\ Plants(Clear(m_Data[p])) = <<0, 0>>
    BY WipedPlants
  <2> QED
    BY <2>1, <2>2 DEF Plants
<1> QED
  BY <1>2, <1>3, <1>5, PlantsWiped

\* Every step keeps the plants paired.
LEMMA PlantsNext ==
  HookTypeOK /\ JoinsFirst /\ PlantsPaired /\ [HookNext]_hookvars => PlantsPaired'
<1> SUFFICES ASSUME HookTypeOK, JoinsFirst, PlantsPaired, [HookNext]_hookvars
             PROVE  PlantsPaired'
  OBVIOUS
<1>1. PlantingFacts /\ PlantingFacts'
  <2>1. HookTypeOK'
    BY HookNextType
  <2>2. HookTypeOK' => PlantingFacts'
    BY StackFacts, PTL
  <2> QED
    BY <2>1, <2>2, StackFacts
<1>2. CASE GameCalls
  BY <1>1, <1>2, CallKeepsPairs
<1>3. ASSUME NEW d \in Damages, Accept(d)
      PROVE  PlantsPaired'
  <2>1. SamePlants /\ UNCHANGED <<m_RoundBombPlanter, managerVars>>
    BY <1>3 DEF Accept, vars, bombVars, SamePlants, Plants
  <2>2. PICK f : f = Last(stack)
    OBVIOUS
  <2>3. PICK g : g = [f EXCEPT !.flag = TRUE]
    OBVIOUS
  <2>4. /\ f \in Frame /\ f.hook = "TakeDamage"
        /\ OnStack' = (OnStack \ {f}) \cup {g}
    BY <1>3, <2>2, <2>3, AcceptSets
  <2>5. g.hook = "TakeDamage"
    BY <2>3, <2>4 DEF Frame
  <2> QED
    BY <1>1, <2>1, <2>4, <2>5, PlantsAlone
<1>4. CASE Return
  <2>1. CASE ReturnPlantBomb
    BY <1>1, <2>1, ReturnPlantKeepsPairs
  <2>2. CASE ReturnGetIntoGame
    BY <1>1, <2>2, JoinKeepsPairs
  <2>3. /\ stack # <<>> /\ stack' = Front(stack) /\ UNCHANGED <<managerVars, serverVars>>
    BY <1>4, ReturnPops
  <2>4. OnStack' = OnStack \ {Last(stack)}
    BY <2>3, ReturnSets DEF serverVars
  <2>5. CASE QuietReturn
    BY <1>1, <2>3, <2>4, <2>5, QuietReturnsKeepPlants, PlantsAlone
  <2>6. CASE ReturnAddAccount \/ ReturnTakeDamage \/ ReturnKilled \/ ReturnSetAnimation
    <3>1. UNCHANGED vars \/ Combat
      BY <2>6, ReturnCombatStep DEF HookTypeOK, TypeOK, ServerType
    <3>2. SamePlants /\ UNCHANGED m_RoundBombPlanter
      BY <3>1, CombatKeepsPlants DEF HookTypeOK, vars, bombVars, SamePlants, Plants
    <3>3. Last(stack).hook # "PlantBomb"
      BY <2>6 DEF ReturnAddAccount, ReturnTakeDamage, ReturnKilled, ReturnSetAnimation, Returns
    <3> QED
      BY <1>1, <2>3, <2>4, <3>2, <3>3, PlantsAlone
  <2> QED
    BY <1>4, <2>1, <2>2, <2>5, <2>6 DEF Return, QuietReturn
<1>5. CASE Between
  BY <1>1, <1>5, BetweenKeepsPairs
<1>6. CASE Move
  <2>1. /\ SamePlants /\ UNCHANGED <<m_RoundBombPlanter, managerVars, stack>>
    BY <1>6 DEF Move, ChangeTeam, pluginVars, bombVars, SamePlants, Plants
  <2>2. OnStack' = OnStack
    BY <2>1 DEF OnStack
  <2> QED
    BY <1>1, <2>1, <2>2, PlantsAlone
<1>7. CASE UNCHANGED hookvars
  <2>1. /\ SamePlants /\ UNCHANGED <<m_RoundBombPlanter, managerVars, stack>>
    BY <1>7 DEF hookvars, vars, bombVars, SamePlants, Plants
  <2>2. OnStack' = OnStack
    BY <2>1 DEF OnStack
  <2> QED
    BY <1>1, <2>1, <2>2, PlantsAlone
<1> QED
  BY <1>2, <1>3, <1>4, <1>5, <1>6, <1>7 DEF HookNext

\* The two calls of the handler of PlantBomb (ReGameDLL.cpp:170-179) come in pairs
\* that neither a cleared record nor the cvar separates, whatever hooks are nested
\* between them: a slot has begun to plant as often as it has planted, and once more
\* while it plants.
THEOREM PlantsArePaired == HookSpec => []PlantsPaired
<1>1. HookInit => JoinsFirst /\ PlantsPaired
  <2> SUFFICES ASSUME HookInit
               PROVE  JoinsFirst /\ PlantsPaired
    OBVIOUS
  <2>1. HookTypeOK /\ OnStack = {} /\ JoinsFirst
    BY HookInitType DEF HookInit, OnStack, JoinsFirst
  <2>2. \A p \in Clients : ~Planting(p) /\ p \in Slots
    BY <2>1, StackFacts, ClientsAreSlots DEF PlantingFacts
  <2>3. \A i \in Slots : Plants(m_Data[i]) = <<0, 0>>
    BY WipedPlants DEF HookInit, Init, AllZeroed
  <2> QED
    BY <2>1, <2>2, <2>3 DEF PlantsPaired, Plants, Bit
<1> QED
  BY <1>1, HookInitType, HookNextType, JoinsNext, PlantsNext, PTL DEF HookSpec

=============================================================================
