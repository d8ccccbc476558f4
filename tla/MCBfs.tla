------------------------------- MODULE MCBfs -------------------------------
(***************************************************************************)
(* Instances of OxgBfs for TLC.                                             *)
(***************************************************************************)
EXTENDS OxgBfs

\* Two routes of different length to one element, a cycle, a loop, an island.
TwoRoutes == [bound |-> 4, edges |-> {<<0, 1>>, <<0, 2>>, <<1, 3>>, <<2, 1>>}]
Cycle     == [bound |-> 4, edges |-> {<<0, 1>>, <<1, 2>>, <<2, 3>>, <<3, 0>>}]
Island    == [bound |-> 3, edges |-> {<<0, 0>>, <<1, 0>>}]
MCViews == {TwoRoutes, Cycle, Island}

\* No seed, one, two, and one that the small view does not contain.
MCSeeds == {{}, {0}, {0, 1}, {1, 3}}

MCDepths == {NoBound, 0, 1, 2}
=============================================================================
