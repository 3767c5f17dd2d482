---------------------------- MODULE MCPlacement ----------------------------
(* A small instance of Placement for TLC: a corridor with a corner.        *)
EXTENDS Placement, TLC

\*   # . .
\*   . . #
CornerSol == {<<0, 1>>, <<1, 0>>, <<1, 1>>, <<2, 0>>}

\* The ghosts are placed in all ways.  The players are followed only if
\* there is one ghost, at the end of the corridor.
GhostAtTheEnd ==
    (\E p \in Joueurs : pc[p] # "out") =>
        fantomes = << <<2, 0>> >>

Symmetry == Permutations(Joueurs)
=============================================================================
