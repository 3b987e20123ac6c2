---------------------------- MODULE CPlayerProofs ----------------------------
(***************************************************************************)
(* Lemmas about the operators of CPlayer: given a record and inputs of the *)
(* types Stats gives them, each returns a record.  An EXCEPT of several    *)
(* fields is proved one field at a time.                                   *)
(***************************************************************************)
EXTENDS Stats, TLAPS

WeaponOrNone == WeaponIds \cup {WEAPON_NONE}

\* The sum of two fractions is one (RoundWinShare, Stats.cpp:337-391).
LEMMA FracType == ASSUME NEW x \in Fraction, NEW y \in Fraction
                  PROVE  FracAdd(x, y) \in Fraction
<1>1. \A m, n \in Nat : m * n \in Nat /\ m + n \in Nat
  OBVIOUS
<1>2. x.num \in Nat /\ x.den \in Nat /\ y.num \in Nat /\ y.den \in Nat
  BY DEF Fraction
<1>3. \A m, n \in Nat : Frac(m, n) \in Fraction
  BY DEF Frac, Fraction
<1> QED
  BY <1>1, <1>2, <1>3 DEF FracAdd

\* memset leaves a record (Stats.cpp:5-13).
LEMMA ZeroedType == Zeroed \in CPlayerRecord
BY SlotsAssumption
DEF Zeroed, CPlayerRecord, Frac, Fraction, RoundGroup, BombGroup, WeaponStatsGroup,
    HackStatsGroup, NoName, Slots, RewardType

\* CPlayer::Clear leaves a record (Player.cpp:3-44).
LEMMA ClearType == ASSUME NEW d \in CPlayerRecord
                   PROVE  Clear(d) \in CPlayerRecord
<1>1. d.HitBoxDamage \in [HitGroups -> Nat]
  BY DEF CPlayerRecord
<1> QED
  BY <1>1, ZeroedType DEF Clear, CPlayerRecord

\* CPlayer::Init leaves a record (Player.cpp:46-51).
LEMMA JoinType == ASSUME NEW d \in CPlayerRecord, NEW netname \in Names
                  PROVE  Join(d, netname) \in CPlayerRecord
BY ClearType, SMTT(30) DEF Join, CPlayerRecord

WeaponTable == [WeaponIds -> WeaponStatsGroup]

\* The updates of WeaponStats keep its type (Stats.cpp:76-81, 121-130).
LEMMA WeaponTableType ==
  ASSUME NEW ws \in WeaponTable, NEW w \in WeaponOrNone, NEW dmg \in Nat, NEW head \in BOOLEAN
  PROVE  /\ HitWith(ws, w, dmg) \in WeaponTable
         /\ KillWith(ws, w, head) \in WeaponTable
         /\ DeathBy(ws, w) \in WeaponTable
BY DEF HitWith, KillWith, DeathBy, Bit, WeaponTable, WeaponStatsGroup, WeaponOrNone

\* Adding to one entry of an array of naturals.
LEMMA PlusType == ASSUME NEW S, NEW f \in [S -> Nat], NEW i \in S, NEW n \in Nat
                  PROVE  Plus(f, i, n) \in [S -> Nat]
BY DEF Plus

\* AddAccount (Stats.cpp:36).
LEMMA PaidType == ASSUME NEW d \in CPlayerRecord, NEW amount \in Int, NEW type \in RewardType
                  PROVE  Paid(d, amount, type) \in CPlayerRecord
<1>1. Plus(d.Money, type, amount) \in [RewardType -> Int]
  BY DEF Plus, CPlayerRecord
<1> QED
  BY <1>1 DEF Paid, CPlayerRecord

\* The handlers of the bomb (Stats.cpp:240, 246, 260, 275, 295).
LEMMA BombedType == ASSUME NEW d \in CPlayerRecord, NEW what \in BombGroup
                    PROVE  Bombed(d, what) \in CPlayerRecord
<1>1. Plus(d.BombStats, what, 1) \in [BombGroup -> Nat]
  BY PlusType DEF CPlayerRecord
<1> QED
  BY <1>1 DEF Bombed, CPlayerRecord

\* TakeDamage, the attacker's record (Stats.cpp:56-81).
LEMMA DealtType == ASSUME NEW d \in CPlayerRecord, NEW h \in HitGroups, NEW dmg \in Nat,
                          NEW w \in WeaponOrNone
                   PROVE  Dealt(d, h, dmg, w) \in CPlayerRecord
<1>1. HitWith(d.WeaponStats, w, dmg) \in [WeaponIds -> WeaponStatsGroup]
  BY WeaponTableType DEF CPlayerRecord, WeaponTable
<1>2. /\ Plus(d.HitBox, h, 1) \in [HitGroups -> Nat]
      /\ Plus(d.HitBoxDamage, h, dmg) \in [HitGroups -> Nat]
  BY PlusType DEF CPlayerRecord
<1> DEFINE d1 == [d EXCEPT !.Hits = d.Hits + 1]
           d2 == [d1 EXCEPT !.Damage = d.Damage + dmg]
           d3 == [d2 EXCEPT !.HitBox = Plus(d.HitBox, h, 1)]
           d4 == [d3 EXCEPT !.HitBoxDamage = Plus(d.HitBoxDamage, h, dmg)]
<1>3. Dealt(d, h, dmg, w) = [d4 EXCEPT !.WeaponStats = HitWith(d.WeaponStats, w, dmg)]
  BY DEF Dealt
<1>4. d1 \in CPlayerRecord
  BY DEF CPlayerRecord
<1>5. d.Damage + dmg \in Nat
  BY DEF CPlayerRecord
<1> HIDE DEF d1
<1>6. d2 \in CPlayerRecord
  BY <1>4, <1>5 DEF CPlayerRecord
<1> HIDE DEF d2
<1>7. d3 \in CPlayerRecord
  BY <1>2, <1>6 DEF CPlayerRecord
<1> HIDE DEF d3
<1>8. d4 \in CPlayerRecord
  BY <1>2, <1>7 DEF CPlayerRecord
<1> HIDE DEF d4
<1> QED
  BY <1>1, <1>3, <1>8 DEF CPlayerRecord

\* TakeDamage, the victim's record (Stats.cpp:62).
LEMMA ReceivedType == ASSUME NEW d \in CPlayerRecord, NEW dmg \in Nat
                      PROVE  Received(d, dmg) \in CPlayerRecord
BY DEF Received, CPlayerRecord

\* The HackStats of a kill (Stats.cpp:132-160).
LEMMA HacksType == ASSUME NEW s \in HackStatsGroup, NEW w, NEW kill \in KillInput
                   PROVE  Hacks(s, w, kill) \in HackStatsGroup
BY DEF Hacks, Bit, HackStatsGroup

\* Killed, the killer's record (Stats.cpp:110-161).
LEMMA ScoredType == ASSUME NEW d \in CPlayerRecord, NEW w \in WeaponOrNone, NEW kill \in KillInput
                    PROVE  Scored(d, w, kill) \in CPlayerRecord
<1>1. KillWith(d.WeaponStats, w, kill.head) \in [WeaponIds -> WeaponStatsGroup]
  BY WeaponTableType DEF CPlayerRecord, WeaponTable, KillInput
<1>2. (IF w = WEAPON_NONE THEN d.HackStats ELSE Hacks(d.HackStats, w, kill)) \in HackStatsGroup
  BY HacksType DEF CPlayerRecord
<1>3. d.Headshot + Bit(kill.head) \in Nat
  BY DEF Bit, CPlayerRecord
<1> DEFINE d1 == [d EXCEPT !.Frags = d.Frags + 1]
           d2 == [d1 EXCEPT !.Headshot = d.Headshot + Bit(kill.head)]
           d3 == [d2 EXCEPT !.WeaponStats = KillWith(d.WeaponStats, w, kill.head)]
<1>4. Scored(d, w, kill) =
        [d3 EXCEPT !.HackStats = IF w = WEAPON_NONE THEN d.HackStats ELSE Hacks(d.HackStats, w, kill)]
  BY DEF Scored
<1>5. d1 \in CPlayerRecord
  BY DEF CPlayerRecord
<1> HIDE DEF d1
<1>6. d2 \in CPlayerRecord
  BY <1>3, <1>5 DEF CPlayerRecord
<1> HIDE DEF d2
<1>7. d3 \in CPlayerRecord
  BY <1>1, <1>6 DEF CPlayerRecord
<1> HIDE DEF d3
<1> QED
  BY <1>2, <1>4, <1>7, SMTT(30) DEF CPlayerRecord

\* Killed, the victim's record (Stats.cpp:108, 125).
LEMMA DiedType == ASSUME NEW d \in CPlayerRecord, NEW w \in WeaponOrNone
                  PROVE  Died(d, w) \in CPlayerRecord
<1>1. DeathBy(d.WeaponStats, w) \in [WeaponIds -> WeaponStatsGroup]
  BY DEF DeathBy, CPlayerRecord, WeaponStatsGroup, WeaponOrNone
<1> DEFINE d1 == [d EXCEPT !.Deaths = d.Deaths + 1]
<1>2. Died(d, w) = [d1 EXCEPT !.WeaponStats = DeathBy(d.WeaponStats, w)]
  BY DEF Died
<1>3. d1 \in CPlayerRecord
  BY DEF CPlayerRecord
<1> HIDE DEF d1
<1> QED
  BY <1>1, <1>2, <1>3 DEF CPlayerRecord

\* Killed, an assist (Stats.cpp:181).
LEMMA AssistedType == ASSUME NEW d \in CPlayerRecord
                      PROVE  Assisted(d) \in CPlayerRecord
BY DEF Assisted, CPlayerRecord

\* SetAnimation (Stats.cpp:217-219).
LEMMA FiredType == ASSUME NEW d \in CPlayerRecord, NEW w \in WeaponIds
                   PROVE  Fired(d, w) \in CPlayerRecord
<1>1. ShotWith(d.WeaponStats, w) \in [WeaponIds -> WeaponStatsGroup]
  BY DEF ShotWith, CPlayerRecord, WeaponStatsGroup
<1> DEFINE d1 == [d EXCEPT !.Shots = d.Shots + 1]
<1>2. Fired(d, w) = [d1 EXCEPT !.WeaponStats = ShotWith(d.WeaponStats, w)]
  BY DEF Fired
<1>3. d1 \in CPlayerRecord
  BY DEF CPlayerRecord
<1> HIDE DEF d1
<1> QED
  BY <1>1, <1>2, <1>3 DEF CPlayerRecord

\* RoundEnd, Rounds (Stats.cpp:366-397).
LEMMA RoundPlayedType == ASSUME NEW d \in CPlayerRecord, NEW team, NEW winner
                         PROVE  RoundPlayed(d, team, winner) \in CPlayerRecord
<1>1. RoundCounted(d.Rounds, team, winner) \in RoundGroup
  BY DEF RoundCounted, Bit, CPlayerRecord, RoundGroup
<1> QED
  BY <1>1 DEF RoundPlayed, CPlayerRecord

\* RoundEnd, KillStreak: an index past the array stays inside the next one as long
\* as m_RoundFrags is at most MaxRoundFrags (Stats.cpp:368-371).
LEMMA StreakType == ASSUME NEW d \in CPlayerRecord, NEW frags \in 0..MaxRoundFrags
                    PROVE  Streak(d, frags) \in CPlayerRecord
<1>1. d.KillStreak \in [Slots -> Nat] /\ d.Versus \in [Slots -> Nat]
  BY DEF CPlayerRecord
<1>2. CASE frags = 0
  BY <1>2 DEF Streak
<1>3. CASE frags # 0 /\ frags \in Slots
  <2>1. Plus(d.KillStreak, frags, 1) \in [Slots -> Nat]
    BY <1>1, <1>3, PlusType
  <2> QED
    BY <1>3, <2>1 DEF Streak, CPlayerRecord
<1>4. CASE frags # 0 /\ frags \notin Slots
  <2>1. frags - (MAX_CLIENTS + 1) \in Slots
    BY <1>4, SlotsAssumption, FragsAssumption DEF Slots
  <2>2. Plus(d.Versus, frags - (MAX_CLIENTS + 1), 1) \in [Slots -> Nat]
    BY <1>1, <2>1, PlusType
  <2> QED
    BY <1>4, <2>2 DEF Streak, CPlayerRecord
<1> QED
  BY <1>2, <1>3, <1>4

\* RoundEnd, Versus (Stats.cpp:377-380).
LEMMA ClutchedType == ASSUME NEW d \in CPlayerRecord, NEW n \in Slots
                      PROVE  Clutched(d, n) \in CPlayerRecord
<1>1. Plus(d.Versus, n, 1) \in [Slots -> Nat]
  BY PlusType DEF CPlayerRecord
<1> QED
  BY <1>1 DEF Clutched, CPlayerRecord

\* RoundEnd, RoundWinShare (Stats.cpp:337, 351, 391).
LEMMA SharedType == ASSUME NEW d \in CPlayerRecord, NEW share \in Fraction
                    PROVE  Shared(d, share) \in CPlayerRecord
<1>1. FracAdd(d.RoundWinShare, share) \in Fraction
  BY FracType DEF CPlayerRecord
<1> QED
  BY <1>1 DEF Shared, CPlayerRecord

-----------------------------------------------------------------------------
(* What each operator adds, and the fields it leaves as they were. *)

\* TakeDamage, the attacker's record.
LEMMA DealtFields == ASSUME NEW d \in CPlayerRecord, NEW h, NEW dmg, NEW w
  PROVE  LET r == Dealt(d, h, dmg, w) IN
         /\ r.Damage = d.Damage + dmg
         /\ r.WeaponStats = HitWith(d.WeaponStats, w, dmg)
         /\ r.Frags = d.Frags
         /\ r.Deaths = d.Deaths
         /\ r.Assists = d.Assists
         /\ r.Headshot = d.Headshot
         /\ r.DamageReceive = d.DamageReceive
         /\ r.Rounds = d.Rounds
         /\ r.RoundWinShare = d.RoundWinShare
         /\ r.BombStats = d.BombStats
         /\ r.Versus = d.Versus
         /\ r.HackStats = d.HackStats
         /\ r.Hits = d.Hits + 1
         /\ r.HitBox = Plus(d.HitBox, h, 1)
         /\ r.Shots = d.Shots
         /\ r.KillStreak = d.KillStreak
BY DEF Dealt, CPlayerRecord

\* TakeDamage, the victim's record.
LEMMA ReceivedFields == ASSUME NEW d \in CPlayerRecord, NEW dmg
  PROVE  LET r == Received(d, dmg) IN
         /\ r.DamageReceive = d.DamageReceive + dmg
         /\ r.Frags = d.Frags
         /\ r.Deaths = d.Deaths
         /\ r.Assists = d.Assists
         /\ r.Headshot = d.Headshot
         /\ r.Damage = d.Damage
         /\ r.Rounds = d.Rounds
         /\ r.RoundWinShare = d.RoundWinShare
         /\ r.BombStats = d.BombStats
         /\ r.WeaponStats = d.WeaponStats
         /\ r.Versus = d.Versus
         /\ r.HackStats = d.HackStats
         /\ r.Shots = d.Shots
         /\ r.Hits = d.Hits
         /\ r.HitBox = d.HitBox
         /\ r.KillStreak = d.KillStreak
BY DEF Received, CPlayerRecord

\* Killed, the killer's record.
LEMMA ScoredFields == ASSUME NEW d \in CPlayerRecord, NEW w, NEW kill
  PROVE  LET r == Scored(d, w, kill) IN
         /\ r.Frags = d.Frags + 1
         /\ r.Headshot = d.Headshot + Bit(kill.head)
         /\ r.WeaponStats = KillWith(d.WeaponStats, w, kill.head)
         /\ r.HackStats = (IF w = WEAPON_NONE THEN d.HackStats ELSE Hacks(d.HackStats, w, kill))
         /\ r.Deaths = d.Deaths
         /\ r.Assists = d.Assists
         /\ r.Damage = d.Damage
         /\ r.DamageReceive = d.DamageReceive
         /\ r.Rounds = d.Rounds
         /\ r.RoundWinShare = d.RoundWinShare
         /\ r.BombStats = d.BombStats
         /\ r.Versus = d.Versus
         /\ r.Shots = d.Shots
         /\ r.Hits = d.Hits
         /\ r.HitBox = d.HitBox
         /\ r.KillStreak = d.KillStreak
BY DEF Scored, CPlayerRecord

\* Killed, the victim's record.
LEMMA DiedFields == ASSUME NEW d \in CPlayerRecord, NEW w
  PROVE  LET r == Died(d, w) IN
         /\ r.Deaths = d.Deaths + 1
         /\ r.WeaponStats = DeathBy(d.WeaponStats, w)
         /\ r.Frags = d.Frags
         /\ r.Assists = d.Assists
         /\ r.Headshot = d.Headshot
         /\ r.Damage = d.Damage
         /\ r.DamageReceive = d.DamageReceive
         /\ r.Rounds = d.Rounds
         /\ r.RoundWinShare = d.RoundWinShare
         /\ r.BombStats = d.BombStats
         /\ r.Versus = d.Versus
         /\ r.HackStats = d.HackStats
         /\ r.Shots = d.Shots
         /\ r.Hits = d.Hits
         /\ r.HitBox = d.HitBox
         /\ r.KillStreak = d.KillStreak
BY DEF Died, CPlayerRecord

\* Killed, an assist.
LEMMA AssistedFields == ASSUME NEW d \in CPlayerRecord
  PROVE  LET r == Assisted(d) IN
         /\ r.Assists = d.Assists + 1
         /\ r.Frags = d.Frags
         /\ r.Deaths = d.Deaths
         /\ r.Headshot = d.Headshot
         /\ r.Damage = d.Damage
         /\ r.DamageReceive = d.DamageReceive
         /\ r.Rounds = d.Rounds
         /\ r.RoundWinShare = d.RoundWinShare
         /\ r.BombStats = d.BombStats
         /\ r.WeaponStats = d.WeaponStats
         /\ r.Versus = d.Versus
         /\ r.HackStats = d.HackStats
         /\ r.Shots = d.Shots
         /\ r.Hits = d.Hits
         /\ r.HitBox = d.HitBox
         /\ r.KillStreak = d.KillStreak
BY DEF Assisted, CPlayerRecord

\* SetAnimation.
LEMMA FiredFields == ASSUME NEW d \in CPlayerRecord, NEW w
  PROVE  LET r == Fired(d, w) IN
         /\ r.WeaponStats = ShotWith(d.WeaponStats, w)
         /\ r.Frags = d.Frags
         /\ r.Deaths = d.Deaths
         /\ r.Assists = d.Assists
         /\ r.Headshot = d.Headshot
         /\ r.Damage = d.Damage
         /\ r.DamageReceive = d.DamageReceive
         /\ r.Rounds = d.Rounds
         /\ r.RoundWinShare = d.RoundWinShare
         /\ r.BombStats = d.BombStats
         /\ r.Versus = d.Versus
         /\ r.HackStats = d.HackStats
         /\ r.Shots = d.Shots + 1
         /\ r.Hits = d.Hits
         /\ r.HitBox = d.HitBox
         /\ r.KillStreak = d.KillStreak
BY DEF Fired, CPlayerRecord

\* AddAccount.
LEMMA PaidFields == ASSUME NEW d \in CPlayerRecord, NEW amount, NEW type
  PROVE  LET r == Paid(d, amount, type) IN
         /\ r.Frags = d.Frags
         /\ r.Deaths = d.Deaths
         /\ r.Assists = d.Assists
         /\ r.Headshot = d.Headshot
         /\ r.Damage = d.Damage
         /\ r.DamageReceive = d.DamageReceive
         /\ r.Rounds = d.Rounds
         /\ r.RoundWinShare = d.RoundWinShare
         /\ r.BombStats = d.BombStats
         /\ r.WeaponStats = d.WeaponStats
         /\ r.Versus = d.Versus
         /\ r.HackStats = d.HackStats
         /\ r.Shots = d.Shots
         /\ r.Hits = d.Hits
         /\ r.HitBox = d.HitBox
         /\ r.KillStreak = d.KillStreak
BY DEF Paid, CPlayerRecord

\* the bomb.
LEMMA BombedFields == ASSUME NEW d \in CPlayerRecord, NEW what
  PROVE  LET r == Bombed(d, what) IN
         /\ r.BombStats = Plus(d.BombStats, what, 1)
         /\ r.Frags = d.Frags
         /\ r.Deaths = d.Deaths
         /\ r.Assists = d.Assists
         /\ r.Headshot = d.Headshot
         /\ r.Damage = d.Damage
         /\ r.DamageReceive = d.DamageReceive
         /\ r.Rounds = d.Rounds
         /\ r.RoundWinShare = d.RoundWinShare
         /\ r.WeaponStats = d.WeaponStats
         /\ r.Versus = d.Versus
         /\ r.HackStats = d.HackStats
         /\ r.Shots = d.Shots
         /\ r.Hits = d.Hits
         /\ r.HitBox = d.HitBox
         /\ r.KillStreak = d.KillStreak
BY DEF Bombed, CPlayerRecord

\* RoundEnd, Rounds.
LEMMA RoundPlayedFields == ASSUME NEW d \in CPlayerRecord, NEW team, NEW winner
  PROVE  LET r == RoundPlayed(d, team, winner) IN
         /\ r.Rounds = RoundCounted(d.Rounds, team, winner)
         /\ r.Frags = d.Frags
         /\ r.Deaths = d.Deaths
         /\ r.Assists = d.Assists
         /\ r.Headshot = d.Headshot
         /\ r.Damage = d.Damage
         /\ r.DamageReceive = d.DamageReceive
         /\ r.RoundWinShare = d.RoundWinShare
         /\ r.BombStats = d.BombStats
         /\ r.WeaponStats = d.WeaponStats
         /\ r.Versus = d.Versus
         /\ r.HackStats = d.HackStats
         /\ r.Shots = d.Shots
         /\ r.Hits = d.Hits
         /\ r.HitBox = d.HitBox
         /\ r.KillStreak = d.KillStreak
BY DEF RoundPlayed, CPlayerRecord

\* RoundEnd, Versus.
LEMMA ClutchedFields == ASSUME NEW d \in CPlayerRecord, NEW n
  PROVE  LET r == Clutched(d, n) IN
         /\ r.Versus = (IF n = 0 THEN d.Versus ELSE Plus(d.Versus, n, 1))
         /\ r.Frags = d.Frags
         /\ r.Deaths = d.Deaths
         /\ r.Assists = d.Assists
         /\ r.Headshot = d.Headshot
         /\ r.Damage = d.Damage
         /\ r.DamageReceive = d.DamageReceive
         /\ r.Rounds = d.Rounds
         /\ r.RoundWinShare = d.RoundWinShare
         /\ r.BombStats = d.BombStats
         /\ r.WeaponStats = d.WeaponStats
         /\ r.HackStats = d.HackStats
         /\ r.Shots = d.Shots
         /\ r.Hits = d.Hits
         /\ r.HitBox = d.HitBox
         /\ r.KillStreak = d.KillStreak
BY DEF Clutched, CPlayerRecord

\* RoundEnd, RoundWinShare.
LEMMA SharedFields == ASSUME NEW d \in CPlayerRecord, NEW share
  PROVE  LET r == Shared(d, share) IN
         /\ r.RoundWinShare = FracAdd(d.RoundWinShare, share)
         /\ r.Frags = d.Frags
         /\ r.Deaths = d.Deaths
         /\ r.Assists = d.Assists
         /\ r.Headshot = d.Headshot
         /\ r.Damage = d.Damage
         /\ r.DamageReceive = d.DamageReceive
         /\ r.Rounds = d.Rounds
         /\ r.BombStats = d.BombStats
         /\ r.WeaponStats = d.WeaponStats
         /\ r.Versus = d.Versus
         /\ r.HackStats = d.HackStats
         /\ r.Shots = d.Shots
         /\ r.Hits = d.Hits
         /\ r.HitBox = d.HitBox
         /\ r.KillStreak = d.KillStreak
BY DEF Shared, CPlayerRecord

\* RoundEnd, KillStreak: Versus changes only when the streak overruns KillStreak.
LEMMA StreakFields == ASSUME NEW d \in CPlayerRecord, NEW frags
  PROVE  LET r == Streak(d, frags) IN
         /\ r.Frags = d.Frags
         /\ r.Deaths = d.Deaths
         /\ r.Assists = d.Assists
         /\ r.Headshot = d.Headshot
         /\ r.Damage = d.Damage
         /\ r.DamageReceive = d.DamageReceive
         /\ r.Rounds = d.Rounds
         /\ r.RoundWinShare = d.RoundWinShare
         /\ r.BombStats = d.BombStats
         /\ r.WeaponStats = d.WeaponStats
         /\ r.HackStats = d.HackStats
         /\ r.Shots = d.Shots
         /\ r.Hits = d.Hits
         /\ r.HitBox = d.HitBox
BY DEF Streak, CPlayerRecord

\* A streak that fits its array leaves Versus alone.
LEMMA StreakKeepsVersus == ASSUME NEW d \in CPlayerRecord, NEW frags \in Slots
                           PROVE  Streak(d, frags).Versus = d.Versus
BY DEF Streak, CPlayerRecord

\* A cleared record: every field but HitBoxDamage is zero, and Init sets the name.
LEMMA ClearFields == ASSUME NEW d \in CPlayerRecord, NEW netname
  PROVE  /\ \A r \in {Clear(d), Join(d, netname), Zeroed} :
              /\ r.Frags = 0 /\ r.Deaths = 0 /\ r.Assists = 0 /\ r.Headshot = 0
              /\ r.Damage = 0 /\ r.DamageReceive = 0
              /\ r.Shots = 0 /\ r.Hits = 0
              /\ r.HitBox = [h \in HitGroups |-> 0]
              /\ r.Rounds = [PLAY |-> 0, WIN_TR |-> 0, LOSE_TR |-> 0, WIN_CT |-> 0, LOSE_CT |-> 0]
              /\ r.RoundWinShare = Frac(0, 1)
              /\ r.WeaponStats = [w \in WeaponIds |-> [KILL |-> 0, DEATH |-> 0, HEADSHOT |-> 0,
                                                       SHOT |-> 0, HIT |-> 0, DAMAGE |-> 0]]
              /\ r.KillStreak = [n \in Slots |-> 0]
              /\ r.Versus = [n \in Slots |-> 0]
              /\ r.HackStats = [VISION |-> 0, ONEHIT |-> 0, NOSCOP |-> 0]
BY DEF Clear, Join, Zeroed

=============================================================================
