-------------------------- MODULE MCPluginLifecycle --------------------------
(***************************************************************************)
(* Instances of PluginLifecycle for TLC: a server with all that is asked   *)
(* for, and servers that lack one thing, or one thing in each library.     *)
(***************************************************************************)
EXTENDS PluginLifecycle

Newest(expected) == [module |-> TRUE, factory |-> TRUE, api |-> TRUE,
                     version |-> <<expected[1], expected[2] + 1>>]

Complete == [dedicated |-> TRUE, engine |-> Newest(REHLDS_API_VERSION),
             path |-> TRUE, game |-> Newest(REGAMEDLL_API_VERSION), entity |-> TRUE, rules |-> TRUE]

\* A module that is as old as it may be, too old, too new, or not what was expected.
Modules(expected) ==
  LET m == Newest(expected) IN
  {m, [m EXCEPT !.version = expected],
   [m EXCEPT !.version = <<expected[1], expected[2] - 1>>],
   [m EXCEPT !.version = <<expected[1] + 1, 0>>],
   [m EXCEPT !.version = <<expected[1] - 1, expected[2]>>],
   [m EXCEPT !.module = FALSE, !.factory = FALSE, !.api = FALSE],
   [m EXCEPT !.factory = FALSE, !.api = FALSE],
   [m EXCEPT !.api = FALSE]}

OneLacking ==
  {[Complete EXCEPT !.engine = e, !.game = g] :
     e \in Modules(REHLDS_API_VERSION), g \in Modules(REGAMEDLL_API_VERSION)}
  \cup {[Complete EXCEPT !.dedicated = FALSE], [Complete EXCEPT !.path = FALSE]}
  \cup {[Complete EXCEPT !.entity = FALSE, !.rules = r] : r \in BOOLEAN}
  \cup {[Complete EXCEPT !.rules = FALSE]}

DedicatedLacking == {s \in OneLacking : s.dedicated}

=============================================================================
