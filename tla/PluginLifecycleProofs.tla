------------------------ MODULE PluginLifecycleProofs ------------------------
(***************************************************************************)
(* Theorems about PluginLifecycle, for every set of servers and any number *)
(* of loads.                                                               *)
(***************************************************************************)
EXTENDS PluginLifecycle, TLAPS

\* A plugin that is not attached has nothing: no pointer, and no function registered.
Bare ==
  /\ ~g_RehldsHookchains /\ ~g_ReGameHookchains
  /\ engineHooks = {} /\ gameHooks = {}
  /\ g_pGameRules = "null"

\* What an attached plugin has, as the server's offer has decided.
Outfitted ==
  /\ g_RehldsHookchains = EngineFits
  /\ g_ReGameHookchains = GameFits
  /\ engineHooks \subseteq EngineHooks
  /\ gameHooks = IF GameFits /\ server.entity THEN GameHooks ELSE {}
  /\ g_pGameRules = "null" \/ (g_pGameRules = "current" /\ server.rules /\ gameHooks = GameHooks)

LInv ==
  /\ server \in Server
  /\ library # "attached" => Bare
  /\ library = "attached" => Outfitted
  /\ crashed => ~EngineFits \/ ~GameFits

\* The lists of ReAPI_Stop and ReGameDLL_Stop miss nothing that was registered
\* (ReAPI.cpp:87, 94; ReGameDLL.cpp:82-104, 111-133).
LEMMA EverythingUnhooked == EngineHooks \subseteq EngineUnhooks /\ GameHooks \subseteq GameUnhooks
BY DEF EngineHooks, EngineUnhooks, GameHooks, GameUnhooks

LEMMA LInvInit == PInit => LInv
BY ServersAssumption DEF PInit, LInv, Bare

LEMMA LInvNext == LInv /\ [PNext]_lvars => LInv'
<1> SUFFICES ASSUME LInv, [PNext]_lvars
             PROVE  LInv'
  OBVIOUS
<1> USE DEF LInv, Bare, Outfitted, EngineFits, GameFits
<1>0. /\ server.dedicated \in BOOLEAN /\ server.path \in BOOLEAN
      /\ server.entity \in BOOLEAN /\ server.rules \in BOOLEAN
  BY DEF Server
<1>1. CASE GiveFnptrsToDll
  BY <1>1 DEF GiveFnptrsToDll, pluginPointers, registered
<1>2. CASE Meta_Query
  BY <1>2 DEF Meta_Query, pluginPointers, registered
<1>3. CASE LogWithoutTag
  BY <1>3 DEF LogWithoutTag, pluginPointers, registered
<1>4. CASE Meta_Attach
  BY <1>4 DEF Meta_Attach, ReAPI_Init, ReGameDLL_Init
<1>5. CASE Meta_Detach
  <2>1. CASE g_RehldsHookchains /\ g_ReGameHookchains
    <3>1. engineHooks' = {} /\ gameHooks' = {}
      BY <1>5, <2>1, EverythingUnhooked DEF Meta_Detach, ReAPI_Stop, ReGameDLL_Stop
    <3> QED
      BY <1>5, <2>1, <3>1 DEF Meta_Detach, Closed
  <2>2. CASE ~(g_RehldsHookchains /\ g_ReGameHookchains)
    BY <1>5, <2>2 DEF Meta_Detach, ReAPI_Stop, pluginPointers
  <2> QED
    BY <2>1, <2>2
<1>6. CASE InstallGameRules
  <2>1. UNCHANGED <<server, crashed, library, g_RehldsHookchains, g_ReGameHookchains,
                    engineHooks, gameHooks>>
    BY <1>6 DEF InstallGameRules, registered
  <2>2. CASE library = "attached" /\ gameHooks = GameHooks
    <3>1. g_pGameRules' = InstalledRules(IF g_pGameRules = "current" THEN "freed" ELSE g_pGameRules)
      BY <1>6, <2>2 DEF InstallGameRules, GameHooks
    <3> QED
      BY <2>1, <2>2, <3>1 DEF InstalledRules
  <2>3. CASE library = "attached" /\ gameHooks = {} /\ gameHooks # GameHooks
    <3>1. g_pGameRules = "null"
      BY <2>3
    <3> QED
      BY <1>6, <2>1, <2>3, <3>1 DEF InstallGameRules
  <2>4. CASE library # "attached"
    <3>1. g_pGameRules' = "null"
      BY <1>6, <2>4 DEF InstallGameRules
    <3> QED
      BY <2>1, <2>4, <3>1
  <2> QED
    BY <2>2, <2>3, <2>4 DEF GameHooks
<1>7. CASE ServerActivate
  BY <1>7 DEF ServerActivate, registered
<1>8. CASE ServerDeactivate
  BY <1>8 DEF ServerDeactivate, pluginPointers, registered
<1>9. CASE UNCHANGED lvars
  BY <1>9 DEF lvars, pluginPointers, registered
<1> QED
  BY <1>1, <1>2, <1>3, <1>4, <1>5, <1>6, <1>7, <1>8, <1>9 DEF PNext

\* No function of an unloaded plugin stays registered with the engine or the game
\* (ReAPI.cpp:87-97, ReGameDLL.cpp:82-136).
THEOREM NothingDangles == PSpec => []NoDanglingHooks
<1>1. LInv => NoDanglingHooks
  BY DEF LInv, Bare, NoDanglingHooks
<1> QED
  BY <1>1, LInvInit, LInvNext, PTL DEF PSpec

\* Meta_Attach and Meta_Detach fault only on a server that lacks an interface of ReHLDS
\* or ReGameDLL (MetaMod.cpp:37-69).
THEOREM OnlyMissingApiCrashes == PSpec => []CrashNeedsMissingApi
<1>1. LInv => CrashNeedsMissingApi
  BY DEF LInv, CrashNeedsMissingApi
<1> QED
  BY <1>1, LInvInit, LInvNext, PTL DEF PSpec

\* The pointer to the rules is null or points to those of the map that runs
\* (ReGameDLL.cpp:138-152).
THEOREM RulesStayCurrent == PSpec => []RulesNotFreed
<1>1. LInv => RulesNotFreed
  BY DEF LInv, Bare, Outfitted, RulesNotFreed
<1> QED
  BY <1>1, LInvInit, LInvNext, PTL DEF PSpec

=============================================================================
