-------------------------------- MODULE Sums ---------------------------------
(***************************************************************************)
(* What the properties add up: the entries of an array.  The arrays of     *)
(* class CStats (Stats.h) and class CPlayer (Player.h) are functions here. *)
(***************************************************************************)
EXTENDS FiniteSetsExt

\* The sum of f[i] for the i of S.
SumIn(f, S) == MapThenSumSet(LAMBDA i : f[i], S)

\* The sum of all entries of f.
SumOf(f) == SumIn(f, DOMAIN f)

=============================================================================
