------------------------------ MODULE InitGhost ------------------------------
(***************************************************************************)
(* initGhost (game.c): the thread that creates a game places its ghosts,   *)
(* one after the other, before any other thread can reach the game.  Each  *)
(* is given a cell without a wall (generic_move) and compared with those   *)
(* that are in the list (no_collision); on a collision init_ghost_move     *)
(* calls itself, and the walk that was interrupted goes on afterwards,     *)
(* with a ghost that has moved since.  There is no player yet.             *)
(***************************************************************************)
EXTENDS Integers, Sequences

CONSTANTS Sol,        \* the cells without a wall, <<x, y>>
          MaxAutres,  \* most ghosts after the first one: rand() % 10
          MaxAppels   \* bound: most calls of init_ghost_move that are nested

VARIABLES fantomes,   \* the cells of the ghosts in the list, in its order
          fantome,    \* the cell of the one that is being placed
          creator     \* the locals of the thread, see Locals

vars == <<fantomes, fantome, creator>>

Locals == [pc    : {"draw", "walk", "done"},
           el    : Nat \ {0},         \* the place in the list of `el'
           calls : Seq(Nat \ {0}),    \* where the outer calls go on
           r     : Nat]               \* ghosts that are left to place

\* generic_move.
Draw ==
    /\ creator.pc = "draw"
    /\ fantome' \in Sol
    /\ creator' = [creator EXCEPT !.pc = "walk", !.el = 1]
    /\ UNCHANGED fantomes

\* Mutant: after a collision the walk goes on without a call.
LookAndRedraw ==
    /\ creator.pc = "walk" /\ creator.el <= Len(fantomes)
    /\ IF fantomes[creator.el] = fantome THEN fantome' \in Sol ELSE UNCHANGED fantome
    /\ creator' = [creator EXCEPT !.el = @ + 1]
    /\ UNCHANGED fantomes

\* no_collision: the next ghost of the list is elsewhere, or this one has to
\* be placed again, by a nested call.
Look ==
    /\ creator.pc = "walk" /\ creator.el <= Len(fantomes)
    /\ \/ /\ fantomes[creator.el] # fantome
          /\ creator' = [creator EXCEPT !.el = @ + 1]
       \/ /\ fantomes[creator.el] = fantome
          /\ Len(creator.calls) < MaxAppels
          /\ creator' = [creator EXCEPT !.pc = "draw",
                                        !.calls = Append(@, creator.el + 1)]
    /\ UNCHANGED <<fantomes, fantome>>

\* The end of a nested call: the walk of the outer one goes on.
Return ==
    /\ creator.pc = "walk" /\ creator.el > Len(fantomes)
    /\ creator.calls # <<>>
    /\ creator' = [creator EXCEPT !.el = creator.calls[Len(creator.calls)],
                                  !.calls = SubSeq(@, 1, Len(@) - 1)]
    /\ UNCHANGED <<fantomes, fantome>>

\* addEl: the ghost goes behind the others; how many follow is drawn after the
\* first one.
AddGhost ==
    /\ creator.pc = "walk" /\ creator.el > Len(fantomes)
    /\ creator.calls = <<>>
    /\ fantomes' = Append(fantomes, fantome)
    /\ \E r \in IF fantomes = <<>> THEN 0 .. MaxAutres ELSE {creator.r - 1} :
          creator' = [creator EXCEPT !.pc = IF r = 0 THEN "done" ELSE "draw",
                                     !.r = r]
    /\ UNCHANGED fantome

Init ==
    /\ fantomes = <<>>
    /\ fantome = <<-1, -1>>
    /\ creator = [pc |-> "draw", el |-> 1, calls |-> <<>>, r |-> 0]

Next == Draw \/ Look \/ Return \/ AddGhost

Done == creator.pc = "done"

-----------------------------------------------------------------------------
\* No two ghosts of a game start on the same cell, and none in a wall: the
\* check of check_ghost for "1 fantome par case" relies on it.
Apart ==
    /\ \A k \in 1 .. Len(fantomes) : fantomes[k] \in Sol
    /\ \A j, k \in 1 .. Len(fantomes) : fantomes[j] = fantomes[k] => j = k

TypeOK ==
    /\ fantomes \in Seq(Sol)
    /\ creator \in Locals
    /\ creator.pc = "walk" => fantome \in Sol

\* Whatever walk is under way, the ghost is on none of the cells that it has
\* passed, and an outer walk goes on inside the list or at its end.
WalkSees ==
    /\ creator.pc = "walk" =>
          \A k \in 1 .. Len(fantomes) : k < creator.el => fantomes[k] # fantome
    /\ fantomes # <<>> /\ creator.pc # "done" => creator.r > 0

IInv == TypeOK /\ Apart /\ WalkSees
=============================================================================
