------------------------------ MODULE MCLobby ------------------------------
(* Small instances of Lobby for TLC.                                       *)
EXTENDS Lobby, TLC

Symmetry == Permutations(Clients) \cup Permutations(Slots)
=============================================================================
