---------------------------- MODULE MCLabyrinth ----------------------------
(* Small instances of Labyrinth for TLC.                                   *)
EXTENDS Labyrinth

\* Six blocks, and two rows of three of which the last row and the last
\* column are cleared.
OddAndEven == {<<5, 7>>, <<4, 6>>}
=============================================================================
