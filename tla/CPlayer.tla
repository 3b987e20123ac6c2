------------------------------- MODULE CPlayer -------------------------------
(***************************************************************************)
(* The statistics of one player slot: class CPlayer (Player.h, Player.cpp) *)
(* and what each handler of CStats does to one such record.  Everything    *)
(* here is a constant operator; the array m_Data of these records is a     *)
(* variable of module Stats.                                               *)
(*                                                                         *)
(* Index is the player's name, one of the strings Names.  JoinTime and     *)
(* GameTime are left out: nothing reads them.  The arrays indexed by an    *)
(* enumeration of Player.h are records whose fields are its constants.     *)
(***************************************************************************)
EXTENDS Integers, FiniteSets

CONSTANTS MAX_CLIENTS,  \* number of player slots
          WeaponIds,    \* the WeaponIdType values in play, without WEAPON_NONE
          HitGroups,    \* the hit groups in play, of 0..8
          Names         \* the names players join with

ASSUME SlotsAssumption == MAX_CLIENTS \in Nat \ {0}
\* HITGROUP_GENERIC..HITGROUP_SHIELD, and the rows of WeaponStats.
ASSUME EnumsAssumption == HitGroups \subseteq 0..8 /\ IsFiniteSet(WeaponIds)

NoName == ""
WEAPON_NONE == "WEAPON_NONE"

\* Index of every array that has MAX_CLIENTS + 1 elements.
Slots == 0..MAX_CLIENTS

\* Index of Money: RT_NONE..RT_VIP_RESCUED_MYSELF.
RewardType == 0..14

RoundGroup == [PLAY : Nat, WIN_TR : Nat, LOSE_TR : Nat, WIN_CT : Nat, LOSE_CT : Nat]

BombGroup == {"PLANTING", "PLANTED", "EXPLODED", "DEFUSING", "DEFUSED"}

WeaponStatsGroup == [KILL : Nat, DEATH : Nat, HEADSHOT : Nat,
                     SHOT : Nat, HIT : Nat, DAMAGE : Nat]

HackStatsGroup == [VISION : Nat, ONEHIT : Nat, NOSCOP : Nat]

-----------------------------------------------------------------------------
(***************************************************************************)
(* RoundWinShare is a float; it is kept as an exact fraction.  A float     *)
(* divided by zero is +infinity, here a fraction whose denominator is 0,   *)
(* and nothing that is added to it changes it.                             *)
(***************************************************************************)
Fraction == [num : Nat, den : Nat]

Frac(n, d) == [num |-> n, den |-> d]

FracAdd(x, y) == IF x.den = 0 \/ y = Frac(0, 1) THEN x
                 ELSE IF y.den = 0 THEN y
                 ELSE IF x.den = y.den THEN Frac(x.num + y.num, x.den)
                 ELSE Frac(x.num * y.den + y.num * x.den, x.den * y.den)

\* x <= n for a fraction x and a natural n.
FracAtMost(x, n) == x.den # 0 /\ x.num <= n * x.den

MANAGER_ASSISTANCE_DMG == 50
MANAGER_RWS_C4_EXPLODE == Frac(3, 10)
MANAGER_RWS_C4_DEFUSED == Frac(3, 10)

\* MapTarget if the scale were forgotten.
Unscaled(x) == x

\* The share a winner gets when the map objective was completed is scaled by
\* MANAGER_RWS_MAP_TARGET, 7/10.
MapTarget(x) == Frac(7 * x.num, 10 * x.den)

-----------------------------------------------------------------------------
CPlayerRecord ==
  [Index : Names \cup {NoName},
   Frags : Nat, Assists : Nat, Deaths : Nat, Headshot : Nat,
   Shots : Nat, Hits : Nat, Damage : Nat, DamageReceive : Nat,
   Rounds : RoundGroup, RoundWinShare : Fraction, BombStats : [BombGroup -> Nat],
   HitBox : [HitGroups -> Nat], HitBoxDamage : [HitGroups -> Nat],
   WeaponStats : [WeaponIds -> WeaponStatsGroup],
   KillStreak : [Slots -> Nat], Versus : [Slots -> Nat],
   Money : [RewardType -> Int], HackStats : HackStatsGroup]

\* Static storage, and what memset(m_Data, 0, ...) leaves.
Zeroed ==
  [Index |-> NoName,
   Frags |-> 0, Assists |-> 0, Deaths |-> 0, Headshot |-> 0,
   Shots |-> 0, Hits |-> 0, Damage |-> 0, DamageReceive |-> 0,
   Rounds |-> [PLAY |-> 0, WIN_TR |-> 0, LOSE_TR |-> 0, WIN_CT |-> 0, LOSE_CT |-> 0],
   RoundWinShare |-> Frac(0, 1),
   BombStats |-> [b \in BombGroup |-> 0],
   HitBox |-> [h \in HitGroups |-> 0], HitBoxDamage |-> [h \in HitGroups |-> 0],
   WeaponStats |-> [w \in WeaponIds |-> [KILL |-> 0, DEATH |-> 0, HEADSHOT |-> 0,
                                         SHOT |-> 0, HIT |-> 0, DAMAGE |-> 0]],
   KillStreak |-> [n \in Slots |-> 0], Versus |-> [n \in Slots |-> 0],
   Money |-> [t \in RewardType |-> 0],
   HackStats |-> [VISION |-> 0, ONEHIT |-> 0, NOSCOP |-> 0]]

\* Clear if it forgot HitBox too.
ClearNoHitBox(d) == [Zeroed EXCEPT !.HitBoxDamage = d.HitBoxDamage, !.HitBox = d.HitBox]

\* CPlayer::Clear assigns every field but HitBoxDamage.
Clear(d) == [Zeroed EXCEPT !.HitBoxDamage = d.HitBoxDamage]

\* CPlayer::Init.
Join(d, IndexKey) == [Clear(d) EXCEPT !.Index = IndexKey]

-----------------------------------------------------------------------------
(* What one handler of CStats adds to one record; w is what IsWeapon returned. *)

Bit(b) == IF b THEN 1 ELSE 0

\* The array f with n added at index i.
Plus(f, i, n) == [f EXCEPT ![i] = @ + n]

\* AddAccount.
Paid(d, amount, type) == [d EXCEPT !.Money = Plus(@, type, amount)]

\* The five handlers of the bomb.
Bombed(d, what) == [d EXCEPT !.BombStats = Plus(@, what, 1)]

\* The table of weapons; nothing is entered without a weapon.
HitWith(ws, w, dmg) ==
  IF w = WEAPON_NONE THEN ws ELSE [ws EXCEPT ![w].HIT = @ + 1, ![w].DAMAGE = @ + dmg]

KillWith(ws, w, head) ==
  IF w = WEAPON_NONE THEN ws ELSE [ws EXCEPT ![w].KILL = @ + 1, ![w].HEADSHOT = @ + Bit(head)]

\* DeathBy if the victim's WEAPON_HEADSHOT were raised in place of WEAPON_DEATH.
HeadshotBy(ws, w) == IF w = WEAPON_NONE THEN ws ELSE [ws EXCEPT ![w].HEADSHOT = @ + 1]

DeathBy(ws, w) == IF w = WEAPON_NONE THEN ws ELSE [ws EXCEPT ![w].DEATH = @ + 1]

ShotWith(ws, w) == [ws EXCEPT ![w].SHOT = @ + 1]

\* TakeDamage, the attacker's record.
Dealt(d, h, dmg, w) ==
  [d EXCEPT !.Hits = @ + 1,
            !.Damage = @ + dmg,
            !.HitBox = Plus(@, h, 1),
            !.HitBoxDamage = Plus(@, h, dmg),
            !.WeaponStats = HitWith(@, w, dmg)]

\* TakeDamage, the victim's record.
Received(d, dmg) == [d EXCEPT !.DamageReceive = @ + dmg]

\* Which HackStats a kill with weapon w raises.  oneHit: the victim had at least
\* 100 health and the last damage was at least 100; defaultFov: the killer's
\* field of view is DEFAULT_FOV; blind: no status-bar target, and not observing.
Hacks(s, w, kill) ==
  [ONEHIT |-> s.ONEHIT + Bit(w # "WEAPON_AWP" /\ kill.oneHit),
   NOSCOP |-> s.NOSCOP + Bit(/\ w \in {"WEAPON_AWP", "WEAPON_SCOUT", "WEAPON_G3SG1", "WEAPON_SG550"}
                             /\ kill.defaultFov),
   VISION |-> s.VISION + Bit(w # "WEAPON_HEGRENADE" /\ kill.blind)]

\* Killed, the killer's record.
Scored(d, w, kill) ==
  [d EXCEPT !.Frags = @ + 1,
            !.Headshot = @ + Bit(kill.head),
            !.WeaponStats = KillWith(@, w, kill.head),
            !.HackStats = IF w = WEAPON_NONE THEN @ ELSE Hacks(@, w, kill)]

\* Killed, the victim's record: the weapon is the killer's.
Died(d, w) == [d EXCEPT !.Deaths = @ + 1, !.WeaponStats = DeathBy(@, w)]

\* Killed, the record of who assists.
Assisted(d) == [d EXCEPT !.Assists = @ + 1]

\* SetAnimation.
Fired(d, w) == [d EXCEPT !.Shots = @ + 1, !.WeaponStats = ShotWith(@, w)]

\* RoundCounted if a counter-terrorist lost whoever won.
RoundAlwaysLost(r, team, winner) ==
  [PLAY |-> r.PLAY + 1,
   WIN_TR |-> r.WIN_TR + Bit(team = winner /\ team = "TERRORIST"),
   WIN_CT |-> r.WIN_CT + Bit(team = winner /\ team # "TERRORIST"),
   LOSE_TR |-> r.LOSE_TR + Bit(team # winner /\ team = "TERRORIST"),
   LOSE_CT |-> r.LOSE_CT + Bit(team # "TERRORIST")]

\* RoundEnd: Rounds[].  Whoever is not a terrorist is counted as the other side.
RoundCounted(r, team, winner) ==
  [PLAY |-> r.PLAY + 1,
   WIN_TR |-> r.WIN_TR + Bit(team = winner /\ team = "TERRORIST"),
   WIN_CT |-> r.WIN_CT + Bit(team = winner /\ team # "TERRORIST"),
   LOSE_TR |-> r.LOSE_TR + Bit(team # winner /\ team = "TERRORIST"),
   LOSE_CT |-> r.LOSE_CT + Bit(team # winner /\ team # "TERRORIST")]

RoundPlayed(d, team, winner) == [d EXCEPT !.Rounds = RoundCounted(@, team, winner)]

\* Streak if every shorter streak were counted as well.
StreakEveryLength(d, frags) ==
  [d EXCEPT !.KillStreak = [n \in Slots |-> d.KillStreak[n] + Bit(n \in 1..frags)]]

\* Streak if the array had one element less.
StreakShort(d, frags) ==
  IF frags = 0 THEN d
  ELSE IF frags < MAX_CLIENTS THEN [d EXCEPT !.KillStreak = Plus(@, frags, 1)]
  ELSE [d EXCEPT !.Versus = Plus(@, frags - MAX_CLIENTS, 1)]

\* RoundEnd: KillStreak[frags]++.  The array ends at MAX_CLIENTS and the index is
\* not tested; the next array of the class is Versus.
Streak(d, frags) ==
  IF frags = 0 THEN d
  ELSE IF frags \in Slots THEN [d EXCEPT !.KillStreak = Plus(@, frags, 1)]
  ELSE [d EXCEPT !.Versus = Plus(@, frags - (MAX_CLIENTS + 1), 1)]

\* RoundEnd: Versus[], for a winner only.
Clutched(d, opponents) == IF opponents = 0 THEN d ELSE [d EXCEPT !.Versus = Plus(@, opponents, 1)]

\* RoundEnd: RoundWinShare.
Shared(d, share) == [d EXCEPT !.RoundWinShare = FracAdd(@, share)]

=============================================================================
