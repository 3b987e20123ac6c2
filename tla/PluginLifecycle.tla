--------------------------- MODULE PluginLifecycle ---------------------------
(***************************************************************************)
(* The plugin as Metamod loads, attaches, detaches and unloads it.         *)
(*                                                                         *)
(* Meta_Attach asks the engine and the game for the interfaces the hooks   *)
(* are registered with, and ignores whether it got them; Meta_Detach uses  *)
(* them.  The server offers what it offers for as long as it runs, so its  *)
(* offer is chosen at the start.  Metamod may load and unload the plugin   *)
(* whenever Plugin_info permits, during a map too; the plugin's memory is  *)
(* gone with the library, what it has registered elsewhere is not.         *)
(***************************************************************************)
EXTENDS Integers

CONSTANTS
  Servers,    \* the servers considered, as what each offers
  MaxLoads    \* bound: how often the plugin is loaded

ModuleOffer == [module : BOOLEAN, factory : BOOLEAN, api : BOOLEAN, version : Nat \X Nat]

\* engine, game: the modules; path: whether Metamod knows where the game is; entity,
\* rules: whether the game has the interfaces CCSEntity and GameRules.
Server == [dedicated : BOOLEAN, engine : ModuleOffer,
           path : BOOLEAN, game : ModuleOffer, entity : BOOLEAN, rules : BOOLEAN]

ASSUME ServersAssumption == Servers \subseteq Server /\ MaxLoads \in Nat

REHLDS_API_VERSION == <<3, 11>>
REGAMEDLL_API_VERSION == <<5, 21>>

\* PLUG_LOADTIME; the order matters.
PT_CHANGELEVEL == 2
PT_ANYTIME == 3

Plugin_info == [loadable |-> PT_ANYTIME, unloadable |-> PT_ANYTIME]

\* What ReAPI_Init and ReGameDLL_Init register.
EngineHooks == {"SV_DropClient"}
GameHooks == {"InstallGameRules", "GetIntoGame", "AddAccount", "PlantBomb", "DefuseBombStart",
              "DefuseBombEnd", "ExplodeBomb", "RoundFreezeEnd", "RoundEnd", "TakeDamage",
              "Killed", "SetAnimation"}

\* GameUnhooks if the one of TakeDamage were forgotten.
UnhooksButOne == GameHooks \ {"TakeDamage"}

\* What ReAPI_Stop and ReGameDLL_Stop take back: lists of their own.
EngineUnhooks == {"SV_DropClient"}
GameUnhooks == {"InstallGameRules", "GetIntoGame", "AddAccount", "PlantBomb", "DefuseBombStart",
                "DefuseBombEnd", "ExplodeBomb", "RoundFreezeEnd", "RoundEnd", "TakeDamage",
                "Killed", "SetAnimation"}

VARIABLES
  server,               \* what the server offers
  map,                  \* idle, loading or active
  crashed,              \* the server's process has ended by a fault of the plugin
  library,              \* unloaded, given, queried or attached
  g_RehldsHookchains,   \* whether the pointer is set
  g_ReGameHookchains,
  engineHooks,          \* the plugin's functions registered with the engine
  gameHooks,            \* and with the game
  g_pGameRules,         \* null, or the rules of the map: current or freed
  m_Enabled,            \* whether the manager has its cvar
  loads

pluginPointers == <<g_RehldsHookchains, g_ReGameHookchains, g_pGameRules, m_Enabled>>
registered == <<engineHooks, gameHooks>>
lvars == <<server, map, crashed, library, pluginPointers, registered, loads>>

-----------------------------------------------------------------------------
(* Metamod's functions. *)

\* Metamod does not load or unload while the server is busy starting a map.
Now == IF map = "active" THEN PT_ANYTIME ELSE PT_CHANGELEVEL

\* Metamod loads the library and hands it the engine's functions.
GiveFnptrsToDll ==
  /\ ~crashed /\ map # "loading"
  /\ library = "unloaded"
  /\ Plugin_info.loadable >= Now
  /\ loads < MaxLoads
  /\ loads' = loads + 1
  /\ library' = "given"
  /\ UNCHANGED <<server, map, crashed, pluginPointers, registered>>

Meta_Query ==
  /\ library = "given"
  /\ library' = "queried"
  /\ UNCHANGED <<server, map, crashed, pluginPointers, registered, loads>>

\* The major version has to be the same, the minor version at least as high.
Fits(offer, expected) ==
  /\ offer.module /\ offer.factory /\ offer.api
  /\ offer.version[1] = expected[1]
  /\ offer.version[2] >= expected[2]

EngineFits == server.dedicated /\ Fits(server.engine, REHLDS_API_VERSION)
GameFits == server.path /\ Fits(server.game, REGAMEDLL_API_VERSION)

ReAPI_Init ==
  /\ g_RehldsHookchains' = EngineFits
  /\ engineHooks' = IF EngineFits THEN engineHooks \cup EngineHooks ELSE engineHooks

\* ReGameDLL_Init if it tested for CCSEntity before it set the pointer.
EntityTestFirst ==
  /\ g_ReGameHookchains' = (GameFits /\ server.entity)
  /\ gameHooks' = IF GameFits /\ server.entity THEN gameHooks \cup GameHooks ELSE gameHooks

\* The pointer is set before the last test, which may still refuse.
ReGameDLL_Init ==
  /\ g_ReGameHookchains' = GameFits
  /\ gameHooks' = IF GameFits /\ server.entity THEN gameHooks \cup GameHooks ELSE gameHooks

\* The message for a server that is not dedicated lacks the argument of its %s
\* (ReAPI.cpp:16): to print it may be the end of the process.
LogWithoutTag ==
  /\ ~crashed
  /\ library = "queried"
  /\ ~server.dedicated
  /\ crashed' = TRUE
  /\ UNCHANGED <<server, map, library, pluginPointers, registered, loads>>

Meta_Attach ==
  /\ ~crashed
  /\ library = "queried"
  /\ library' = "attached"
  /\ ReAPI_Init
  /\ ReGameDLL_Init
  /\ UNCHANGED <<server, map, crashed, g_pGameRules, m_Enabled, loads>>

ReAPI_Stop == engineHooks' = engineHooks \ EngineUnhooks

ReGameDLL_Stop == gameHooks' = gameHooks \ GameUnhooks

\* Metamod closes the library: its memory is gone.
Closed ==
  /\ library' = "unloaded"
  /\ g_RehldsHookchains' = FALSE
  /\ g_ReGameHookchains' = FALSE
  /\ g_pGameRules' = "null"
  /\ m_Enabled' = FALSE

\* ReAPI_Stop, then ReGameDLL_Stop; a pointer that was never set is used all the same.
Meta_Detach ==
  /\ ~crashed /\ map # "loading"
  /\ library = "attached"
  /\ Plugin_info.unloadable >= Now
  /\ IF g_RehldsHookchains THEN ReAPI_Stop ELSE UNCHANGED engineHooks
  /\ IF g_RehldsHookchains /\ g_ReGameHookchains
     THEN ReGameDLL_Stop /\ Closed /\ UNCHANGED crashed
     ELSE crashed' = TRUE /\ UNCHANGED <<library, pluginPointers, gameHooks>>
  /\ UNCHANGED <<server, map, loads>>

-----------------------------------------------------------------------------
(* Maps. *)

\* Metamod does nothing else while it is loading a plugin.
NotLoading == ~crashed /\ library \in {"unloaded", "attached"}

\* InstalledRules if the pointer were set for the first map only.
RulesOnce(old) == IF server.rules /\ old = "null" THEN "current" ELSE old

\* The hook of InstallGameRules: without the interface the pointer is left alone.
InstalledRules(old) == IF server.rules THEN "current" ELSE old

\* The game starts a map: it frees the rules of the last one and makes new ones.
InstallGameRules ==
  /\ NotLoading
  /\ map = "idle"
  /\ map' = "loading"
  /\ LET old == IF g_pGameRules = "current" THEN "freed" ELSE g_pGameRules
     IN  g_pGameRules' = IF "InstallGameRules" \in gameHooks THEN InstalledRules(old) ELSE old
  /\ UNCHANGED <<server, crashed, library, g_RehldsHookchains, g_ReGameHookchains,
                 m_Enabled, registered, loads>>

\* PostTable if GetEntityAPI2_Post forgot the start of the map.
EndOnly == {"ServerDeactivate"}

\* What GetEntityAPI2_Post asks to be told of.
PostTable == {"ServerActivate", "ServerDeactivate"}

ServerActivate ==
  /\ NotLoading
  /\ map = "loading"
  /\ map' = "active"
  /\ m_Enabled' = (m_Enabled \/ (library = "attached" /\ "ServerActivate" \in PostTable))
  /\ UNCHANGED <<server, crashed, library, g_RehldsHookchains, g_ReGameHookchains,
                 g_pGameRules, registered, loads>>

\* CManager::ServerDeactivate does nothing.
ServerDeactivate ==
  /\ NotLoading
  /\ map = "active"
  /\ map' = "idle"
  /\ UNCHANGED <<server, crashed, library, pluginPointers, registered, loads>>

-----------------------------------------------------------------------------
PInit ==
  /\ server \in Servers
  /\ map \in {"idle", "active"}
  /\ crashed = FALSE
  /\ library = "unloaded"
  /\ g_RehldsHookchains = FALSE /\ g_ReGameHookchains = FALSE
  /\ engineHooks = {} /\ gameHooks = {}
  /\ g_pGameRules = "null"
  /\ m_Enabled = FALSE
  /\ loads = 0

PNext ==
  \/ GiveFnptrsToDll \/ Meta_Query \/ LogWithoutTag \/ Meta_Attach \/ Meta_Detach
  \/ InstallGameRules \/ ServerActivate \/ ServerDeactivate

PSpec == PInit /\ [][PNext]_lvars

-----------------------------------------------------------------------------
(* Properties. *)

\* Nothing calls into a library that is gone: whatever the server offers and however
\* often the plugin was loaded, no function of an unloaded plugin is registered
\* (ReAPI.cpp:92-97, ReGameDLL.cpp:109-136 undo what 87 and 82-104 did).
NoDanglingHooks == library = "unloaded" => engineHooks = {} /\ gameHooks = {}

\* Attaching and detaching are harmless wherever both interfaces were found, also when
\* the game lacks CCSEntity and no hook of the game was registered (ReGameDLL.cpp:72-78).
CrashNeedsMissingApi == crashed => ~EngineFits \/ ~GameFits

\* g_pGameRules never points to the rules of an earlier map, though the hook leaves
\* it alone when the interface is missing (ReGameDLL.cpp:138-152).
RulesNotFreed == g_pGameRules # "freed"

Recording == engineHooks = EngineHooks /\ gameHooks = GameHooks /\ m_Enabled

\* A plugin that is loaded while a map runs has no cvar and records nothing
\* (Manager.cpp:7, MetaDLL.cpp:22-43); as long as maps end and start it gets there,
\* unless it is unloaded first, on every server that offers what it needs.
LateLoadRecords ==
  []<>(map = "idle") /\ []<>(map = "active") =>
    (library = "attached" /\ EngineFits /\ GameFits /\ server.entity
       ~> Recording \/ library # "attached")

\* "can be loaded/unloaded at any time" (plinfo.h:10), as MetaMod.cpp:12-13 declares.
UnloadableAnytime == ~crashed

=============================================================================
