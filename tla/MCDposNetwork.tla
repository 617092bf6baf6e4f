---------------------------- MODULE MCDposNetwork ----------------------------
(***************************************************************************)
(* Two instances of DposNetwork for TLC.                                   *)
(***************************************************************************)
EXTENDS DposNetwork

MCInitial == <<1, 2, 3, 4>>
MCSchedules == {MCInitial}

\* Producer 2 signs the next block, anyone each of the six after it.
MCTrunk == <<1, 2, 3, 4, 1, 2, 3, 4, 1>>
MCTurns == [k \in 1..7 |-> IF k = 1 THEN {2} ELSE {1, 2, 3, 4}]

\* Producer 4 has missed the blocks of the others and signs blocks on its own,
\* 1 and 2 come to know of them before they have what 3 signs.
MCSplitTrunk == <<4, 1, 2, 3, 1, 2, 1, 2>>
MCSplitTurns ==
  [k \in 1..14 |-> {<<4, 4, 4, 4, 4, 4, 4, 4, 3, 1, 2, 4, 1, 2>>[k]}]
=============================================================================
