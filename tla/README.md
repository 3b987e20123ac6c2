# StatsX in TLA+

StatsX is a Metamod plugin for a Counter-Strike 1.6 server running ReHLDS and
ReGameDLL. It watches the game through hooks and keeps statistics of each player
slot: kills, assists, damage, shots, bomb events, rounds, money, and a share of
the rounds won. This directory holds a TLA+ model of the plugin, the TLC
configurations that check it and theorems about it that TLAPS has proved.

## The system

Everything runs on the game's one thread. There is no lock, no timer, no file and
no network of the plugin's own: what is hard about it is the *order* in which the
game calls it, the *lifetime* of the three kinds of state it keeps (a map, a
player's visit, a round), and what happens when they do not end together.

| Component | Source | State | Operations |
|---|---|---|---|
| One slot's statistics | `Player.h`, `Player.cpp` | the fields of `CPlayer` | `Clear`, `Init`, and what each handler adds |
| The handlers | `Stats.h`, `Stats.cpp` | `m_Data` (one `CPlayer` per slot), the tables of the round `m_Round...` | one per event of the game, below |
| The enabling cvar | `Manager.h`, `Manager.cpp` | pointer `m_Enabled` to the cvar `stats_enabled` | `ServerActivate`, `IsEnabled` |
| Map start and end | `MetaDLL.cpp` | none | two post hooks: manager, then statistics |
| The ReHLDS hook | `ReAPI.cpp` | interface pointers | `ReAPI_Init`, `ReAPI_Stop`, `ReAPI_SV_DropClient` |
| The game hooks | `ReGameDLL.cpp` | interface pointers | `ReGameDLL_Init`, `ReGameDLL_Stop`, twelve hooks, each `callNext` and a handler |
| Attach and detach | `MetaMod.cpp` | function tables | `Meta_Query`, `Meta_Attach`, `Meta_Detach` |
| Utilities | `Util.cpp` | none | `CvarRegister`, `ServerPrint`, `SayText` |
| Engine tables | `MetaEngine.cpp` | none | empty |
| Vendored headers and loaders | `include/` | | not modelled |

How they interact. The engine calls `DLL_POST_ServerActivate` and
`DLL_POST_ServerDeactivate` around a map; both zero every record, the first also
registers the cvar and keeps a pointer to it. While a map runs the game calls the
hooks of `ReGameDLL.cpp`; each calls the rest of the chain (the game's own
function and other plugins) and then a handler of `gStats`, which asks
`gManager.IsEnabled()` first. `ReAPI_SV_DropClient` calls `Disconnected` *before*
the rest of the chain, `ReGameDLL_PlantBomb` calls its handler before and after.
What the rest of the chain does is the game's: it may call other hooked functions, so
hooks nest. Metamod loads the library, queries it, attaches it (the hooks are
registered through the interfaces the engine and the game offer), detaches and
unloads it, during a map too.

What is hard, and the properties that answer it:

- **Two lifetimes in one slot.** A record lives as long as a visit, a table of the
  round from one end of the freeze time to the next. A player who leaves in the
  middle of a round leaves his entries of the tables to the next one in the slot.
  `TablesWithinRecord`, `AssistsEarned`, and the finding `AssistTakesDamage`. And the
  tables name slots that nobody is in: `EmptySlotsUntouched`.
- **Teams are read late.** Damage is booked on the team the attacker has then,
  divided by the damage of the team he has at the end. `DamageWithinTeam`,
  `SharesOfAWhole`, `ShareWithinRounds`, `InfinityNeedsMove`, and the finding
  `ExplosionPaysWinners`.
- **Partial resets.** `Clear` forgets one array (finding `HitBoxDamageAddsUp`),
  `ServerActivate` forgets the tables, `RoundFreezeEnd` does nothing while the
  plugin is disabled. `RoundDamageBalanced`, `BreakdownsCovered`,
  `FrozenWhileDisabled`.
- **Indices from counters.** `KillStreak[frags of the round]` is not bounded by the
  size of the array. `OneStreakPerRound`, `VersusOnlyFromOverrun`.
- **Nested hooks.** The handler of the inner function runs before the handler of the
  outer one: a round ends before the kill or the defusal that ended it is recorded.
  A plant is handled in two halves with other hooks between them; the damage of a hit
  is read from the victim when the game is done with it. `StepsAsStats`,
  `PlantsPaired`, `PlantRecorded`, `NoHitLost`, and the finding `DefuserPaid`.
- **Loading and unloading.** `Meta_Attach` ignores what failed, the interface pointer
  of the game is set before the last test, a plugin loaded during a map is not told of
  its start. `NoDanglingHooks`, `CrashNeedsMissingApi`, `RulesNotFreed`,
  `LateLoadRecords`, and the finding `UnloadableAnytime`.
- **Handlers in any order.** A second `RoundEnd` without a `RoundFreezeEnd`, a kill
  after the round's end, a cvar set in mid-round: the specification allows every
  order, and every property holds in all of them unless it says otherwise.
- **What no property can catch.** Some of what the code does may surprise, and nothing in
  the repository says it is wrong: a second `RoundEnd` credits a round again, a round that
  began while disabled is counted with old tables, spectators lose every round, a record is
  written while its slot is empty but its entity still there, a return from the
  spectators wipes a record, a victim may assist in his own death. The model does all of this as the code
  does; the hazards list each with a note and no property.

## Modules

| Module | What it is |
|---|---|
| `CPlayer` | constants, the type of a record, and one operator for each update of a record; no variables |
| `Sums` | the sum of the entries of an array, which some properties speak of |
| `Stats` | `CStats`, `CManager`, the map hooks and the engine's part of a session: the variables, one action per handler, `Spec`, the properties |
| `Scoreboard` | the abstract specification: what the statistics promise without weapons, hit boxes and the tables of the round |
| `RoundHistory` | `Stats` with two history variables, and the properties that relate a table of the round to the record and the team it is read with |
| `GameHooks` | `Stats` with the hooks of `ReGameDLL.cpp` and `ReAPI.cpp` as a stack of calls: which orders of the handlers the game can produce |
| `PluginLifecycle` | `MetaMod.cpp`, the initialisation and the stop of `ReAPI.cpp` and `ReGameDLL.cpp`, the game rules pointer, the post table of `MetaDLL.cpp` |
| `MCStats`, `MCRoundHistory`, `MCGameHooks`, `MCPluginLifecycle` | inputs and starting states for TLC |
| `CPlayerProofs` | lemmas: what each operator of `CPlayer` returns, adds and leaves |
| `SumProofs` | what a sum over a finite set is worth, and how it changes with an entry |
| `StatsProofs` | the types of `Stats` |
| `RecordProofs` | what a step does to one record, and the properties that follow slot by slot, the sums over its arrays included |
| `ScoreboardProofs` | `Stats` implements `Scoreboard` |
| `RoundHistoryProofs` | the damage tables agree; what the tables of the round and the shares mean |
| `GameHooksProofs` | the nested hooks take steps of `Stats`; plants are paired, no hit is lost |
| `PluginLifecycleProofs` | no hook is left behind, and what a fault needs |

`CPlayer`, `Sums` < `Stats` < `RoundHistory`, `GameHooks` is the order of extension;
`Stats` instantiates `Scoreboard`; `PluginLifecycle` stands alone, for what it is about
happens outside the calls `Stats` models: of `Stats` it repeats one fact, whether the
manager has its cvar.

### State and actions against the code

`m_Data`, `m_RoundDamage`, ... are the members of `CStats` with their names; the
arrays have `MAX_CLIENTS + 1` entries as in the code, so `Slots` is
`0..MAX_CLIENTS`, and `Clients` is `1..maxClients`, the loops' range. An
array indexed by an enumeration of `Player.h` is a record with the enumerators as
fields. `m_Enabled` says whether the manager's pointer is set, `stats_enabled` is
the cvar's value (`NoCvar` before it exists). `connected`, `pvPrivateData`,
`m_iTeam` and `sv_active` belong to the engine and the game; their actions
(`ClientPutInServer`, `FreePrivateData`, `ChangeTeam`, `SetCvar`) are modelled from what
`Stats.cpp` reads and marked external. `UTIL_PlayerByIndexSafe(e)` is the test
`PlayerByIndexSafe(e)`: an entity that still has private data answers it, whether
or not its client is still there.

Each handler is one action with the handler's name, and its guard collects the
handler's tests: `IsEnabled`, the null tests, the range of `type`, `VictimIndex !=
KillerIndex`, and so on. A call the tests refuse changes nothing and is a
stuttering step. What a handler reads from the game (the hit group, the damage,
the active item, the flags a kill is judged by, who is alive) is a parameter that
ranges over a constant set. `SV_DropClient` is the handler `Disconnected` followed
by the engine's drop in one step, in the order of `ReAPI_SV_DropClient`.

Two pieces of data are modelled by what they do rather than as they are stored.
`RoundWinShare` is a float in the code and an exact fraction here; a division by
zero gives infinity, here a fraction with denominator 0, which absorbs whatever is
added. Rounding is left out, so a property about shares speaks of the arithmetic the
code means. And `KillStreak[n]` for `n` past the array is `Versus[n - (MAX_CLIENTS +
1)]`, the entry laid out after it; an index past both arrays is excluded by
`FragsAssumption`.

In `GameHooks` a hook is two actions, the call (`Call`, which pushes a frame with the
arguments) and the return of `callNext` (`ReturnKilled`, ...), which pops the frame and
takes the action of `Stats` with the arguments of the frame, or nothing when the
handler's own tests refuse (`Unless`). `PlantBomb` calls its handler at both ends. What the
game may call within a function is the constant `Inside`, but never itself; `MCGameHooks` gives it
what the game can do as far as the hooks tell: a hit kills, a death pays and ends the
round, an explosion hits, the end of a defusal ends the round. `Accept` is the game's
decision that a hit counts, which writes `m_lastDamageAmount`; without it the hook
returns with the amount of an earlier hit. Drops, maps and the cvar come between the
calls of the server, when no hook is running; a player's team may change at any time.

In `PluginLifecycle` the server's offer (which interfaces, which versions) is a variable
that is chosen once. `Meta_Attach` is `ReAPI_Init` and `ReGameDLL_Init`, which register
the hooks of an interface that fits; the pointer of the game's chains is set
before the test for `CCSEntity`, as in the code. A pointer that is not set and is used
ends the process (`crashed`), and so may a message printed without its argument
(`LogWithoutTag`). When Metamod closes the library the plugin's memory is gone and what
it has registered is not.

`GetIntoGame` does not ask `IsEnabled`: it wipes a record and sets the name at any
time. `JoinTime` and `GameTime` are left out: nothing reads them.

## What TLC checks

| Run | Specification | Properties | What it shows |
|---|---|---|---|
| `session` | `HSpec`, from the loading of the plugin | `TypeOK`, `FrozenWhileDisabled` | a session with one client: map starts and ends, loading in mid-map, the cvar set and reset, rounds, the bomb, hits, money |
| `records` | a match of two: one kills, both and the world hit, rounds end, a return to the game | `BreakdownsCovered`, `HeadshotsAreKills`, `RoundsPartitioned`, `OneStreakPerRound`, `VersusOnlyFromOverrun`, `ImplementsScoreboard` | each record is consistent in itself: kills of every kind with a scoped rifle and a knife, streaks of up to 3 with 3 entries, so the array is overrun; and the statistics implement the score board |
| `tenure` | players leave and come, maps change | `TablesWithinRecord`, `AssistsEarned`, `EmptySlotsUntouched` | a record that was not cleared has earned what the tables credit it with; nothing is written to a slot without a player |
| `shares` | two players, changes of team | `RoundDamageBalanced`, `DamageWithinTeam`, `SharesOfAWhole`, `ShareWithinRounds`, `InfinityNeedsMove` | the shares of the winners are parts of a whole, and finite for who kept his team |
| `hooks` | nested hooks in a match | `PlantsPaired`, `NoHitLost`, `PlantRecorded`, `StepsAsStats` | every nesting of up to four calls takes steps of `Stats`; the halves of a plant belong together and the second one comes; hits accepted by the game are counted |
| `lifecycle` | `PSpec`, from the start of the server | `NoDanglingHooks`, `CrashNeedsMissingApi`, `RulesNotFreed`, `LateLoadRecords` | loading, attaching, detaching and loading again, on a complete server and on servers that lack something |
| `doc_assist` | a match | `AssistTakesDamage`, violated | see Findings |
| `doc_objective` | a match with bombs | `ObjectivePaysEachWinner`, violated | |
| `doc_explosion` | plants, players move | `ExplosionPaysWinners`, violated | |
| `doc_hitbox` | a match | `HitBoxDamageAddsUp`, violated | |
| `doc_defuser` | nested hooks | `DefuserPaid`, violated | |
| `doc_detach` | loading and unloading | `UnloadableAnytime`, violated | |

`session` starts in `Init`, where the plugin may be loaded before or during a map;
`lifecycle` starts with an unloaded plugin, before or during a map.
The other runs start in a match that is on (`MatchInit`, a state `Init` leads to) and
leave out the actions their question is not about, so that the interesting ones
happen often enough within the bounds; `MCStats`, `MCRoundHistory` and
`MCGameHooks` say which.

**Bounds.** Two or three clients: two are enough for every relation between one
player and another (in `records` the assist goes to a victim who has hurt himself),
three in two of the findings, where a third party is needed (an assist; a team of two).
The counters are bounded in the guards by `MaxHits`, `MaxDamage`, `MaxKills`,
`MaxRoundFrags`, `MaxShots`, `MaxBombs`, `MaxMoney` and `MaxRounds`, all named in the
cfg files. One hit of 50 is what an assist takes; `shares` uses hits of 10 and
30 so that no share is a half or a whole by accident, and two rounds so that a table
that was not reset shows in the next round; `records` allows three frags in a round with
`MAX_CLIENTS = 2`, the first index that overruns. `hooks` allows four calls (`MaxCalls`):
two hooks that nest in a third, or two pairs of them, and a call after the stack is
empty again. `lifecycle` loads the plugin twice (`MaxLoads`): what the first load left
behind shows in the second. Its servers have every combination of what can be wrong with
one library and with the other, and lack one of the other things. A bound stops a handler, so the runs of
a match end: they are run with `CHECK_DEADLOCK FALSE`. `session` and `tenure`
cannot stop (a map can always start or end) and check deadlock; `lifecycle` stops where
the process has ended.

**Fairness.** The handlers finish in their calls, and nothing in the plugin is ever
pending but a hook whose `callNext` has not returned. `hooks` therefore assumes one thing
(`EveryCallReturns`): a function of the game returns to whoever called it, however many
calls and returns there are within it. That is strong fairness of the return at each depth of the
stack, because the top of the stack is another call each time; nothing is assumed of
calls, which players make or do not. `PlantRecorded` rests on it.
`PSpec` states no fairness: what the administrator and the maps do is not the
plugin's affair. `LateLoadRecords` names what it needs in its antecedent, that maps
end and start for ever; a server on which the process ends or the plugin is never
attached owes nothing.

**Symmetry** is not used: slot numbers are indices, and 0 and the last slot differ.

## Findings

Each is a run in which TLC shows what the code does against what a comment says.

- `doc_assist` — `Killed` (`Stats.cpp:179`) tests the table of the round, which the
  next player of a slot inherits. `Stats.h:3`: "Mininum damage to take assistance
  for player". A player who did no damage is credited with an assist.
- `doc_objective` — `Stats.h:4`: "Amount added to each player of winner team if map
  objective is complete by winner team". `RoundEnd` (`Stats.cpp:382`) adds nothing to a winner
  without damage, and multiplies the share of the others by 0.7.
- `doc_explosion` — `Stats.h:5`: "Extra amount added to player from winner team that
  planted the bomb and bomb explode". `RoundEnd` (`Stats.cpp:343`) does not ask for the planter's team.
- `doc_hitbox` — `Player.h:87` marks `HitBoxDamage` "Ok"; `Clear`
  (`Player.cpp:33`) forgets it, and the next player of the slot keeps it.
- `doc_defuser` — `Stats.h:6`: "Extra amount added to player from winner team that
  defused the bomb". The hook (`ReGameDLL.cpp:190`) notes the defuser after `callNext`,
  in which the game has ended the round: `RoundEnd` finds no defuser to pay.
- `doc_detach` — `MetaMod.cpp:12-13` declares `PT_ANYTIME`, "can be loaded/unloaded at any
  time" (`plinfo.h:10`). Where `ReAPI_Init` or `ReGameDLL_Init` failed, which `Meta_Attach`
  ignores, `Meta_Detach` uses a null pointer (`ReAPI.cpp:94`, `ReGameDLL.cpp:111`).

What `VersusOnlyFromOverrun` says is worth a reader's attention too: `CountAlive`
counts into a local array and never fills the one it is given, so `m_RoundVersus`
is always zero and no clutch is ever recorded.

## Proofs

TLAPS proves, for any number of slots, weapons, hit groups, inputs and bounds that
satisfy the assumptions:

| Theorem | States |
|---|---|
| `TypeCorrect` | `Spec => []TypeOK` |
| `RoundsArePartitioned` | `Spec => []RoundsPartitioned` |
| `HeadshotsAreAlwaysKills` | `Spec => []HeadshotsAreKills` |
| `BreakdownsAreCovered` | `Spec => []BreakdownsCovered` |
| `StreaksStayWithinRounds` | `Spec => []OneStreakPerRound` |
| `RoundDamageIsBalanced` | `Spec => []RoundDamageBalanced` |
| `ClutchesAreNeverCounted` | `Spec => VersusOnlyFromOverrun` |
| `StatsImplementsScoreboard` | `Spec => ImplementsScoreboard` |
| `HistoryTypeCorrect` | `HSpec => []HTypeOK` |
| `TablesStayWithinRecord` | `HSpec => []TablesWithinRecord` |
| `DamageStaysWithinTeam` | `HSpec => []DamageWithinTeam` |
| `SharesArePartsOfAWhole` | `HSpec => []SharesOfAWhole` |
| `AssistsAreEarned` | `HSpec => AssistsEarned` |
| `SharesStayWithinRounds` | `HSpec => ShareWithinRounds` |
| `InfinityTakesAMove` | `HSpec => InfinityNeedsMove` |
| `DisabledMeansFrozen` | `Spec => FrozenWhileDisabled` |
| `NobodyIsUntouched` | `Spec => EmptySlotsUntouched` |
| `HooksImplementStats` | `HookSpec => Init /\ StepsAsStats` |
| `HooksKeepRecords` | `HookSpec =>` the seven properties that `RecordProofs` proves of `Spec` |
| `NoHitIsLost` | `HookSpec => []NoHitLost` |
| `PlantsArePaired` | `HookSpec => []PlantsPaired` |
| `NothingDangles` | `PSpec => []NoDanglingHooks` |
| `OnlyMissingApiCrashes` | `PSpec => []CrashNeedsMissingApi` |
| `RulesStayCurrent` | `PSpec => []RulesNotFreed` |

**Assumptions.** `SlotsAssumption` and `ClientsAssumption` (there is a slot, and the
server's limit is one of them), `EnumsAssumption` (hit groups are `HITGROUP_GENERIC` to
`HITGROUP_SHIELD`, 0 to 8, and there are finitely many weapons: both index arrays),
`InputsAssumption` (what the game hands to a handler
is of the type the handler declares; `CvarValues` may only be 0 and 1), and
`FragsAssumption` (a streak stays within the two arrays it may write). `GameHooks` adds
`InsideAssumption` (what may be called within a hook is a set of hooks, and nobody comes
into the game from within another call) and `DamagesAssumption` (the amount before the
first hit, 0, is a damage); `PluginLifecycle` adds `ServersAssumption` (the type of an
offer). Each is evaluated by the runs of the modules it concerns.

Two assumptions about the game are in the actions of `GameHooks` instead. No hooked function
is called within itself (`~Running` in `MayCall`): a hit does not hit, a plant does not
plant. And clients, maps and the console come between the calls of the server
(`stack = <<>>` in `Between`). Both are facts about the game and the engine that the plugin's code neither
states nor tests. `PlantsPaired` and `NoHitLost` rest on them: with a hit inside a hit, the
inner one could overwrite the amount the outer one is still to be counted with.

**Argument.** `TypeOK` is inductive as it stands; each operator of `CPlayer` has a
lemma that it returns a record and one that lists the fields it adds to and those it
leaves (`CPlayerProofs`). From these `RecordProofs` shows once what any step of
`Stats` can do to one record (`RecordSteps`): nothing, clear it, or apply the
operators of one handler. A property that speaks of one slot at a time needs to be
checked against those operators only, whatever interleaving produced them.

- `RoundsPartitioned` and `HeadshotsAreKills` are inductive together with the types.
- The properties about sums rest on `SumProofs`. A sum is a fold, a function that is
  recursive over the subsets of its indices; what it does to every array is a fact of
  induction, and the library's induction theorems cannot be instantiated here. Each fact is
  proved instead by a smallest counterexample: if it failed for some subset of the
  indices, then for one none of whose proper subsets fails (`SmallestSet`, from the
  well-foundedness of strict inclusion), and there the recursion gives it after all.
  `SumRecursion` is the recursion of the fold for every function and finite set; `SumRemove` (a sum
  is an entry and the sum of the others), `SumGain` (it gains what an entry gains), `SumAgree`, `SumZero`, `SumSubset` and `SumMember` are what the
  invariants need.
- `BreakdownsCovered` is inductive together with the types: an operator raises one entry of an
  array, its column gains that much (`SumGain`), and the total gains as much or more.
  It does not speak of `HitBoxDamage`, which `Clear` forgets (the finding `HitBoxDamageAddsUp`).
- `OneStreakPerRound` bounds the *two* arrays together, because a streak that overruns
  `KillStreak` is counted in `Versus`, where clutches go too. The end of a round adds
  one streak to one of them (`StreakSum`), and no clutch is added beside it only because none
  is ever noted (`VersusUnset`, below): with that, and the types, it is inductive.
- `RoundDamageBalanced` needs no history: `DamageSteps` shows that a step leaves the three
  tables alone, zeroes all of them, or adds one damage to an entry of each.
- `VersusOnlyFromOverrun` needs a strengthening: `VersusUnset`, no slot ever has a
  clutch noted in `m_RoundVersus`, because `Killed` reads the array `CountAlive` has
  not filled.
- The refinement has one lemma per handler (`TakeDamageIsHit`, `KilledIsKill`, ...):
  a step of a handler maps to a step of the board or to a stutter.
- The properties of `RoundHistory` are about two lifetimes and are inductive only with
  the history variables: `TablesWithinRecord` is kept since a record only grows while
  it is not cleared (`GrownStep`) and the handler that raises a table raises the record
  by the same. `DamageWithinTeam` and `SharesOfAWhole` both follow from `TeamsCoverLoyal`: the
  damage of a team is at least the sum of what those did who have kept it since the
  tables were zeroed. It is inductive, because the team that is credited is the attacker's
  at that moment and a change of team takes its slot out of every sum; one slot's
  damage is part of its sum (`SumMember`), and while nobody has moved the players of a team are a
  subset of those it sums over (`SumSubset`). `AssistsEarned` is a chain of the former: the row
  of the table is at most the slot's total, which is at most the record's damage.

- `ShareWithinRounds` is arithmetic on fractions: a round's end adds at most 3/10 for the
  bomb and at most 7/10 of a quotient that `DamageWithinTeam` bounds by one, or the whole
  quotient and no bomb; `AtMostTenths` carries such bounds through sums and products.
- `InfinityNeedsMove` takes from the same lemma (`RoundShares`) that the bomb's part and the damage's
  part are finite, and `FiniteShare` that sums of finite shares are.
- `EmptySlotsUntouched` goes by the handlers: each writes to a player who is in the game or
  to one it has looked up (`CombatUntouched`, `BombUntouched`), and neither is a slot without
  private data.
- `FrozenWhileDisabled` follows from `RecordSteps` once the handlers that ask `IsEnabled`
  are ruled out.
- `HooksImplementStats` needs an invariant of the stack: a player on it is still
  connected, because drops come between calls, and its other arguments are what the game
  passed (`StackOK`); no hook is called within itself (`NoneWithinItself`). With it
  each call and each return is a step of `Stats` or a stutter. So every theorem about `Spec`
  holds behind the nested hooks, which `HooksKeepRecords` says of those about records.
- `NoHitIsLost` compares two counters and the hit that is on the stack: a hit is
  accepted while its frame is the last one, and nothing writes the victim's amount before the frame
  is popped, because `TakeDamage` is not called within itself.
- `PlantsArePaired` adds `JoinsFirst` (a player comes into the game when nothing else is
  running): a record is then never cleared between the two halves of a plant.
- `PluginLifecycle` has one inductive invariant: a plugin that is not attached has no
  pointer and no hook, an attached one has exactly what the server's offer decides. The list
  of hooks that are taken back is not the list of those registered, in the model as in the code;
  `EverythingUnhooked` compares them.

**Only model-checked:** the liveness properties `PlantRecorded` and `LateLoadRecords`, since
the prover handles neither fairness nor `ENABLED`; and the findings, which are
counterexamples. Every invariant and every action property that a passing run checks is a
theorem.

## Not modelled

- The vendored headers under `include/`, which are by far most of the lines of the
  repository (the plugin's own code is some 1,500 of 29,000): declarations of the
  engine's and the game's classes, and containers the plugin does not use. What the
  plugin takes from them (enumerations, version numbers, `UTIL_PlayerByIndexSafe`,
  `PLUG_LOADTIME`) is modelled. So the share of all lines that the model
  covers is small, while of the plugin's own files every function with an effect is
  modelled but those named here.
- `ServerPrint` and `SayText` (`Util.cpp`), which format and send text and which nothing
  calls; `ReAPI_Cvar_DirectSet`, which is never registered; `MetaEngine.cpp` and
  `GetEntityAPI2`, which hand out empty tables.
- The widths of the counters (a C++ `int`; none comes near its limit in the time a map
  lasts), the rounding of floats, and a streak index past both arrays.
- The use counts of the engine's and the game's modules: each attach calls
  `Sys_LoadModule` and nothing calls `Sys_UnloadModule`, so a reload leaves a use behind.
- A null attacker or owner. `TakeDamage` tests its attacker for null (`Stats.cpp:48`); `Killed` (96)
  and `PlantBomb` (230) pass theirs to `ENTINDEX`, which uses it. The game names an entity
  for every death and every plant, the world if no other, so there is always one in the model.
- What the game does within `callNext` beyond the nesting and the damage of a hit; what
  Metamod does with a plugin that is paused, which `PT_ANYTIME` does not permit.
- What a half-attached plugin records (the game's interfaces without the engine's):
  nothing in the code says what it owes.
