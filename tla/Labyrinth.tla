----------------------------- MODULE Labyrinth -----------------------------
(***************************************************************************)
(* createMap (labyrinthe.c): the map of a new game.                        *)
(*                                                                         *)
(* initMap puts a block with a random label on every cell whose row and    *)
(* column are odd and leaves the other cells free (0).  fillMap visits the *)
(* blocks in order; two times out of three it builds a wall from a block   *)
(* to each neighbour, two cells further, whose label is lower.  The label  *)
(* of the block then spreads over the wall it was joined to (updateMap),   *)
(* so that pieces of wall that hang together have one label and are never  *)
(* joined twice: the walls close no loop, which would wall in a part of    *)
(* the floor and whoever is placed there.                                  *)
(*                                                                         *)
(* A cell is <<i, j>>, the j-th of row i, counted from 0.                  *)
(***************************************************************************)
EXTENDS Integers, Sequences, FiniteSets

CONSTANTS Sizes,    \* the sizes <<height, width>> of maps that are considered
          Labels    \* the labels drawn (1 .. 9 in initMap)

ASSUME LabyrinthAssumption ==
    /\ Sizes \subseteq (Nat \ {0, 1}) \X (Nat \ {0, 1})   \* there is a block
    /\ Labels \subseteq Nat \ {0}

VARIABLES
    pc,       \* "fill", "update", "trim", "done"
    height, width,
    arr,      \* the label of every cell, 0 for a free one; at the end 1 or 0
    cell,     \* the block that fillMap visits
    side      \* the side of it that is looked at next: 0 before the draw

vars == <<pc, height, width, arr, cell, side>>

Cells  == (0 .. height - 1) \X (0 .. width - 1)
Blocks == {c \in Cells : c[1] % 2 = 1 /\ c[2] % 2 = 1}

\* The four sides in the order of the source.
Right == <<0, 1>>   Down == <<1, 0>>   Up == <<-1, 0>>   Left == <<0, -1>>
Sides == <<Right, Down, Up, Left>>

Beside(c, s, n) == <<c[1] + n * s[1], c[2] + n * s[2]>>

-----------------------------------------------------------------------------
(* updateMap.                                                              *)

\* Mutant: any other label is replaced, and not only a lower one.
SpreadAny(a, c, s) ==
    LET n == Beside(c, s, 1)
    IN  IF n \in Cells /\ a[n] # 0 /\ a[n] # a[c] /\ a[c] # 0
        THEN [a EXCEPT ![n] = a[c]] ELSE a

\* The label of c is put on its neighbour on side s, if that is a lower block
\* or wall.
Spread(a, c, s) ==
    LET n == Beside(c, s, 1)
    IN  IF n \in Cells /\ a[n] # 0 /\ a[n] < a[c] THEN [a EXCEPT ![n] = a[c]] ELSE a

\* Right, down, up, left, each with the labels that the ones before it left.
SpreadAround(a, c) ==
    Spread(Spread(Spread(Spread(a, c, Right), c, Down), c, Up), c, Left)

\* The cells of row i from left to right, ...
PassRow(a, i) ==
    LET from[r \in (0 .. width) \X [Cells -> Nat]] ==
          IF r[1] = width THEN r[2]
          ELSE from[<<r[1] + 1, SpreadAround(r[2], <<i, r[1]>>)>>]
    IN  from[<<0, a>>]

\* ... and the rows from top to bottom: a cell is read after those before it
\* were changed.
Pass(a) ==
    LET from[r \in (0 .. height) \X [Cells -> Nat]] ==
          IF r[1] = height THEN r[2] ELSE from[<<r[1] + 1, PassRow(r[2], r[1])>>]
    IN  from[<<0, a>>]

\* Mutant: one pass is thought to be enough.
UpdateOnce ==
    /\ pc = "update"
    /\ arr' = Pass(arr)
    /\ pc' = "fill"
    /\ UNCHANGED <<height, width, cell, side>>

\* Mutant: `<=' where the labels are compared raises the flag for ever.
UpdateNotStrict ==
    /\ pc = "update"
    /\ arr' = Pass(arr)
    /\ pc' = IF \E c \in Cells, k \in DOMAIN Sides :
                    LET n == Beside(c, Sides[k], 1)
                    IN  n \in Cells /\ arr[n] # 0 /\ arr[n] <= arr[c]
             THEN "update" ELSE "fill"
    /\ UNCHANGED <<height, width, cell, side>>

\* Passes are made until one changes nothing.
Update ==
    /\ pc = "update"
    /\ arr' = Pass(arr)
    /\ pc' = IF arr' = arr THEN "fill" ELSE "update"
    /\ UNCHANGED <<height, width, cell, side>>

-----------------------------------------------------------------------------
(* fillMap.                                                                *)

\* The visit of a block starts; one time out of three nothing else is done.
Draw ==
    /\ pc = "fill" /\ side = 0 /\ cell \in Blocks
    /\ side' \in {1, 5}
    /\ UNCHANGED <<pc, height, width, arr, cell>>

\* Mutant: blocks with the same label are joined as well.
JoinEqual ==
    LET n == Beside(cell, Sides[side], 2)
        w == Beside(cell, Sides[side], 1)
    IN
    /\ pc = "fill" /\ side \in 1 .. 4
    /\ side' = side + 1
    /\ IF n \in Cells /\ arr[n] <= arr[cell]
         THEN /\ arr' = [arr EXCEPT ![n] = arr[cell], ![w] = arr[cell]]
              /\ pc' = "update"
         ELSE UNCHANGED <<arr, pc>>
    /\ UNCHANGED <<height, width, cell>>

\* The block is joined to its neighbour on one side, if that is lower.
Join ==
    LET n == Beside(cell, Sides[side], 2)
        w == Beside(cell, Sides[side], 1)
    IN
    /\ pc = "fill" /\ side \in 1 .. 4
    /\ side' = side + 1
    /\ IF n \in Cells /\ arr[n] < arr[cell]
         THEN /\ arr' = [arr EXCEPT ![n] = arr[cell], ![w] = arr[cell]]
              /\ pc' = "update"
         ELSE UNCHANGED <<arr, pc>>
    /\ UNCHANGED <<height, width, cell>>

\* The next block of the row, or the first of the next row of blocks.
NextBlock ==
    /\ pc = "fill" /\ side = 5
    /\ side' = 0
    /\ cell' = IF cell[2] + 2 < width THEN <<cell[1], cell[2] + 2>>
                                      ELSE <<cell[1] + 2, 1>>
    /\ pc' = IF cell' \in Cells THEN "fill" ELSE "trim"
    /\ UNCHANGED <<height, width, arr>>

\* Mutant: the labels are not replaced by 1.
TrimKeepsLabels ==
    /\ pc = "trim"
    /\ arr' = [c \in Cells |->
                 IF \/ width % 2 # 1 /\ c[2] = width - 1
                    \/ height % 2 # 1 /\ c[1] = height - 1
                 THEN 0 ELSE arr[c]]
    /\ pc' = "done"
    /\ UNCHANGED <<height, width, cell, side>>

\* Mutant: the last row of a map of even height keeps its blocks.
TrimColumnOnly ==
    /\ pc = "trim"
    /\ arr' = [c \in Cells |->
                 IF arr[c] = 0 \/ (width % 2 # 1 /\ c[2] = width - 1) THEN 0 ELSE 1]
    /\ pc' = "done"
    /\ UNCHANGED <<height, width, cell, side>>

\* The last column of a map of even width and the last row of one of even
\* height are cleared, and walls become 1.
Trim ==
    /\ pc = "trim"
    /\ arr' = [c \in Cells |->
                 IF \/ arr[c] = 0
                    \/ width % 2 # 1 /\ c[2] = width - 1
                    \/ height % 2 # 1 /\ c[1] = height - 1
                 THEN 0 ELSE 1]
    /\ pc' = "done"
    /\ UNCHANGED <<height, width, cell, side>>

-----------------------------------------------------------------------------
\* initMap: any labels on the blocks.
Init ==
    /\ pc = "fill"
    /\ \E size \in Sizes : height = size[1] /\ width = size[2]
    /\ \E label \in [Blocks -> Labels] :
          arr = [c \in Cells |-> IF c \in Blocks THEN label[c] ELSE 0]
    /\ cell = <<1, 1>>
    /\ side = 0

Next == Update \/ Draw \/ Join \/ NextBlock \/ Trim

Spec == Init /\ [][Next]_vars

\* new_game runs createMap to its end.
FairSpec == Spec /\ WF_vars(Next)

-----------------------------------------------------------------------------
TypeOK ==
    /\ pc \in {"fill", "update", "trim", "done"}
    /\ <<height, width>> \in Sizes
    /\ arr \in [Cells -> IF pc = "done" THEN {0, 1} ELSE Labels \cup {0}]
    /\ cell \in (1 .. height + 1) \X (1 .. width + 1)
    /\ side \in 0 .. 5

Beneath == {c \in Cells : arr[c] = 0}      \* the floor
Border  == {c \in Cells : c[1] \in {0, height - 1} \/ c[2] \in {0, width - 1}}

Around(set) == {Beside(c, s, 1) : c \in set, s \in {Right, Down, Up, Left}}

\* The floor that can be walked to from the corner.
Reached ==
    LET from[r \in SUBSET Cells] ==
          LET wider == r \cup (Around(r) \cap Beneath)
          IN  IF wider = r THEN r ELSE from[wider]
    IN  from[{<<0, 0>>}]

\* Wherever players and ghosts are placed in the finished map, they can reach
\* each other: the floor is in one piece, and its border is free.
FloorInOnePiece == pc = "done" => Reached = Beneath /\ Border \subseteq Beneath

\* Between two joins, blocks and walls that touch have the same label: the
\* label tells the pieces of wall apart, and a piece never meets itself.
TouchingAgree ==
    pc = "fill" => \A c \in Cells \ Beneath : \A s \in {Right, Down} :
        LET n == Beside(c, s, 1) IN n \in Cells \ Beneath => arr[n] = arr[c]

\* The walls close no loop, and so there is one wall less than there are
\* blocks, or fewer: what is left of the floor has a fixed minimum (72 of 121
\* cells on the 11 x 11 map of new_game), the number of free cells that
\* init_pos_player and init_ghost_move rely on without testing it.
EnoughFloor ==
    Cardinality(Beneath) >= height * width - 2 * Cardinality(Blocks) + 1

\* The blocks that fillMap has yet to finish, and what updateMap has yet to
\* spread: the cells with a lower label than another, with that other label.
Ahead == IF pc \in {"fill", "update"}
         THEN {b \in Blocks : b[1] > cell[1] \/ (b[1] = cell[1] /\ b[2] >= cell[2])}
         ELSE {}
Uneven == {r \in Cells \X {arr[c] : c \in Cells} : arr[r[1]] < r[2]}

\* Every step brings createMap nearer to its end: in the order of the blocks, of
\* the sides of one, and of the passes of updateMap after a side, each of which
\* leaves less to spread.  Nothing in updateMap bounds the number of its passes.
Nearer ==
    \/ Cardinality(Ahead') < Cardinality(Ahead)
    \/ Ahead' = Ahead /\ side' > side
    \/ /\ <<Ahead', side'>> = <<Ahead, side>>
       /\ pc = "update"
       /\ pc' = "update" => Cardinality(Uneven') < Cardinality(Uneven)
    \/ pc = "trim" /\ pc' = "done"
NearerEnd == [][Nearer]_vars

\* updateMap stops, and with it createMap.
MapGetsDone == <>(pc = "done")
=============================================================================
