------------------------------- MODULE MCHunt -------------------------------
(* Small instances of Hunt for TLC.                                        *)
EXTENDS Hunt

CONSTANTS j1, j2, j3, g1, g2

TwoPlayers   == <<j1, j2>>
ThreePlayers == <<j1, j2, j3>>
OneGhost     == <<g1>>
TwoGhosts    == <<g1, g2>>

\*   . . .
\*   . # .
Arch == {<<0, 0>>, <<1, 0>>, <<2, 0>>, <<0, 1>>, <<2, 1>>}

\* A square, in a map with a wall on its right.
Square == {<<0, 0>>, <<1, 0>>, <<0, 1>>, <<1, 1>>}

\* A corridor that ends at a wall.
Corridor == {<<0, 0>>, <<1, 0>>, <<2, 0>>, <<3, 0>>}
=============================================================================
