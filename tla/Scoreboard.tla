----------------------------- MODULE Scoreboard ------------------------------
(***************************************************************************)
(* What CStats promises to whoever reads the statistics, without the       *)
(* tables of the round, the weapons and the hit boxes: a kill is one frag  *)
(* for one player, one death for another and assists for others than the   *)
(* killer; damage is dealt by one player and taken by one; a round that    *)
(* ends is played by everyone present and won by some of them; and a slot  *)
(* is only ever set back to zero as a whole.                               *)
(***************************************************************************)
EXTENDS Naturals

CONSTANTS Players,
          Amounts    \* how much damage one hit does

VARIABLES frags, deaths, assists, dealt, taken, played, won

board == <<frags, deaths, assists, dealt, taken, played, won>>

Blank == [p \in Players |-> 0]

\* f with one more at every member of S.
Credit(f, S) == [p \in Players |-> IF p \in S THEN f[p] + 1 ELSE f[p]]

\* f with zero at every member of S.
Reset(f, S) == [p \in Players |-> IF p \in S THEN 0 ELSE f[p]]

Init == /\ frags = Blank /\ deaths = Blank /\ assists = Blank
        /\ dealt = Blank /\ taken = Blank
        /\ played = Blank /\ won = Blank

Kill(k, v, helpers) ==
  /\ k # v
  /\ k \notin helpers
  /\ frags' = Credit(frags, {k})
  /\ deaths' = Credit(deaths, {v})
  /\ assists' = Credit(assists, helpers)
  /\ UNCHANGED <<dealt, taken, played, won>>

Hit(a, v, damage) ==
  /\ dealt' = [dealt EXCEPT ![a] = @ + damage]
  /\ taken' = [taken EXCEPT ![v] = @ + damage]
  /\ UNCHANGED <<frags, deaths, assists, played, won>>

EndRound(present, winners) ==
  /\ winners \subseteq present
  /\ played' = Credit(played, present)
  /\ won' = Credit(won, winners)
  /\ UNCHANGED <<frags, deaths, assists, dealt, taken>>

Wipe(S) ==
  /\ frags' = Reset(frags, S)
  /\ deaths' = Reset(deaths, S)
  /\ assists' = Reset(assists, S)
  /\ dealt' = Reset(dealt, S)
  /\ taken' = Reset(taken, S)
  /\ played' = Reset(played, S)
  /\ won' = Reset(won, S)

Next ==
  \/ \E k, v \in Players : \E helpers \in SUBSET Players : Kill(k, v, helpers)
  \/ \E a, v \in Players : \E damage \in Amounts : Hit(a, v, damage)
  \/ \E present \in SUBSET Players : \E winners \in SUBSET present : EndRound(present, winners)
  \/ \E S \in SUBSET Players : Wipe(S)

Spec == Init /\ [][Next]_board

=============================================================================
