----------------------------- MODULE Placement -----------------------------
(***************************************************************************)
(* init_pos_player (entity_position.c): the threads of the players of a    *)
(* game that validate with START each draw a cell for their player, all at *)
(* once and without a lock.  A thread writes its cell, first x and then y, *)
(* and only then looks at the cells of the ghosts and of the other         *)
(* players, one coordinate at a time; on a collision it calls itself, and  *)
(* goes on with its own walk when that call returns.                       *)
(*                                                                         *)
(* The order of the list of players plays no role: a walk looks at them in *)
(* any order.  The ghosts have been placed by the thread that created the  *)
(* game (InitGhost) and stand still until it begins.                       *)
(***************************************************************************)
EXTENDS Integers, Sequences, FiniteSets

CONSTANTS Joueurs,    \* the players of the game
          Sol,        \* the cells without a wall, <<x, y>>
          MaxAutres,  \* most ghosts after the first one
          MaxAppels,  \* bound: most calls of init_pos_player that are nested
          MaxRappels  \* bound: the same of init_ghost_move

ASSUME PlacementAssumption ==
    /\ Sol \subseteq Nat \X Nat
    /\ MaxAutres \in Nat
    /\ MaxAppels \in Nat /\ MaxRappels \in Nat

VARIABLES
    pc,       \* where the thread of each player is
    x, y,     \* the cell of each player, -1 before START
    tirage,   \* the cell that generic_move has drawn
    reste,    \* the players that the current walk has not passed yet
    vis,      \* the player whose x was the same, its y is read next
    appels,   \* for each suspended call, what its walk has not passed
    vu        \* history: the players that did not collide with this one since
              \* it last moved

VARIABLES fantomes, fantome, creator   \* see InitGhost

players == <<pc, x, y, tirage, reste, vis, appels, vu>>
ghosts  == <<fantomes, fantome, creator>>
vars    == <<players, ghosts>>

Creation == INSTANCE InitGhost WITH MaxAppels <- MaxRappels

\* The cells of the ghosts.
Hantees == {fantomes[k] : k \in 1 .. Len(fantomes)}

Cell(p) == <<x[p], y[p]>>

Others(p) == Joueurs \ {p}

\* A nested call; the walk of this one goes on with `apres' when it returns.
Recurse(p, apres) ==
    /\ Len(appels[p]) < MaxAppels
    /\ appels' = [appels EXCEPT ![p] = Append(@, apres)]
    /\ pc' = [pc EXCEPT ![p] = "draw"]

-----------------------------------------------------------------------------
\* START***: init_pos_player is called.  The game can be joined, and validated,
\* once new_game has placed its ghosts.
Begin(p) ==
    /\ pc[p] = "out" /\ Creation!Done
    /\ pc' = [pc EXCEPT ![p] = "draw"]
    /\ UNCHANGED <<x, y, tirage, reste, vis, appels, vu>>

\* generic_move: a cell without a wall is drawn, and x is written ...
Draw(p) ==
    /\ pc[p] = "draw"
    /\ \E c \in Sol :
          /\ tirage' = [tirage EXCEPT ![p] = c]
          /\ x' = [x EXCEPT ![p] = c[1]]
    /\ vu' = [vu EXCEPT ![p] = {}]
    /\ pc' = [pc EXCEPT ![p] = "writey"]
    /\ UNCHANGED <<y, reste, vis, appels>>

\* ... before y.
WriteY(p) ==
    /\ pc[p] = "writey"
    /\ y' = [y EXCEPT ![p] = tirage[p][2]]
    /\ pc' = [pc EXCEPT ![p] = "ghosts"]
    /\ UNCHANGED <<x, tirage, reste, vis, appels, vu>>

\* Mutant: the walk of the ghosts is left out.
LookAtGhostsNot(p) ==
    /\ pc[p] = "ghosts"
    /\ pc' = [pc EXCEPT ![p] = "players"]
    /\ reste' = [reste EXCEPT ![p] = Others(p)]
    /\ UNCHANGED <<x, y, tirage, vis, appels, vu>>

\* The walk of the ghosts.  They do not move: it collides or it does not.
LookAtGhosts(p) ==
    /\ pc[p] = "ghosts"
    /\ \/ /\ Cell(p) \in Hantees
          /\ Recurse(p, Others(p))
          /\ UNCHANGED reste
       \/ /\ Cell(p) \notin Hantees
          /\ pc' = [pc EXCEPT ![p] = "players"]
          /\ reste' = [reste EXCEPT ![p] = Others(p)]
          /\ UNCHANGED appels
    /\ UNCHANGED <<x, y, tirage, vis, vu>>

\* The walk passes player q, who is elsewhere.
Pass(p, q) ==
    /\ reste' = [reste EXCEPT ![p] = @ \ {q}]
    /\ vu' = [vu EXCEPT ![p] = @ \cup {q}]
    /\ pc' = [pc EXCEPT ![p] = "players"]
    /\ UNCHANGED <<x, y, tirage, appels>>

\* The walk of the players, at q: the two x ...
LookAtX(p) ==
    /\ pc[p] = "players"
    /\ \E q \in reste[p] :
          \/ x[q] # x[p] /\ Pass(p, q) /\ UNCHANGED vis
          \/ /\ x[q] = x[p]
             /\ vis' = [vis EXCEPT ![p] = q]
             /\ pc' = [pc EXCEPT ![p] = "looky"]
             /\ UNCHANGED <<x, y, tirage, reste, appels, vu>>

\* Mutant: a cell that is taken is kept.
LookAtYAndStay(p) ==
    /\ pc[p] = "looky"
    /\ Pass(p, vis[p])
    /\ UNCHANGED vis

\* ... and the two y, if the two x were the same.
LookAtY(p) ==
    /\ pc[p] = "looky"
    /\ \/ y[vis[p]] # y[p] /\ Pass(p, vis[p])
       \/ /\ y[vis[p]] = y[p]
          /\ Recurse(p, reste[p] \ {vis[p]})
          /\ UNCHANGED <<x, y, tirage, reste, vu>>
    /\ UNCHANGED vis

\* The end of the walk: the outer call goes on, if there is one.
Return(p) ==
    /\ pc[p] = "players" /\ reste[p] = {}
    /\ \/ /\ appels[p] = <<>>
          /\ pc' = [pc EXCEPT ![p] = "placed"]
          /\ UNCHANGED <<reste, appels>>
       \/ /\ appels[p] # <<>>
          /\ reste' = [reste EXCEPT ![p] = appels[p][Len(appels[p])]]
          /\ appels' = [appels EXCEPT ![p] = SubSeq(@, 1, Len(@) - 1)]
          /\ UNCHANGED pc
    /\ UNCHANGED <<x, y, tirage, vis, vu>>

-----------------------------------------------------------------------------
Init ==
    /\ pc     = [p \in Joueurs |-> "out"]
    /\ x      = [p \in Joueurs |-> -1]
    /\ y      = [p \in Joueurs |-> -1]
    /\ tirage = [p \in Joueurs |-> <<-1, -1>>]
    /\ reste  = [p \in Joueurs |-> {}]
    /\ vis    = [p \in Joueurs |-> p]
    /\ appels = [p \in Joueurs |-> <<>>]
    /\ vu     = [p \in Joueurs |-> {}]
    /\ Creation!Init

Step(p) == \/ Begin(p) \/ Draw(p) \/ WriteY(p) \/ LookAtGhosts(p)
           \/ LookAtX(p) \/ LookAtY(p) \/ Return(p)

Next == \/ Creation!Next /\ UNCHANGED players
        \/ \E p \in Joueurs : Step(p) /\ UNCHANGED ghosts

Spec == Init /\ [][Next]_vars

-----------------------------------------------------------------------------
Coordinates == Nat \cup {-1}

TypeOK ==
    /\ pc \in [Joueurs -> {"out", "draw", "writey", "ghosts", "players",
                           "looky", "placed"}]
    /\ x \in [Joueurs -> Coordinates]
    /\ y \in [Joueurs -> Coordinates]
    /\ tirage \in [Joueurs -> Sol \cup {<<-1, -1>>}]
    /\ reste \in [Joueurs -> SUBSET Joueurs]
    /\ vis \in [Joueurs -> Joueurs]
    /\ appels \in [Joueurs -> Seq(SUBSET Joueurs)]
    /\ vu \in [Joueurs -> SUBSET Joueurs]

\* No two ghosts of a game start on one cell, and none in a wall, although the
\* walk of an outer call of init_ghost_move goes on for a ghost that has moved
\* since: "1 fantome par case au plus" (check_ghost) starts from there.
GhostsApart == Creation!Apart

\* Two players never end up on the same cell, nor a player on the cell of a
\* ghost, although no lock protects the draw: what init_pos_player promises
\* when each thread writes its cell before it reads the cells of the others.
PlacedApart ==
    \A p, q \in Joueurs :
        pc[p] = "placed" /\ pc[q] = "placed" /\ p # q => Cell(p) # Cell(q)

PlacedOffGhosts ==
    \A p \in Joueurs : pc[p] = "placed" => Cell(p) \in Sol \ Hantees

\* Of two players on one cell, one has not looked at the other since it moved.
SomeoneWillSee ==
    \A p, q \in Joueurs :
        p # q /\ q \in vu[p] /\ p \in vu[q] => Cell(p) # Cell(q)

\* What a walk has passed it has seen, the innermost one as well as those that
\* go on after a nested call.
WalkSees ==
    \A p \in Joueurs :
        /\ pc[p] \in {"players", "looky", "placed"} =>
              /\ Others(p) \subseteq vu[p] \cup reste[p]
              /\ Cell(p) \in Sol \ Hantees
        /\ pc[p] = "looky" => vis[p] \in reste[p]
        /\ pc[p] = "placed" => reste[p] = {}
        /\ pc[p] = "writey" =>
              tirage[p] \in Sol /\ x[p] = tirage[p][1] /\ vu[p] = {}
        /\ pc[p] = "ghosts" => Cell(p) \in Sol

\* Nobody is placed before the ghosts are.
GhostsFirst == \A p \in Joueurs : pc[p] # "out" => Creation!Done

IInv == TypeOK /\ SomeoneWillSee /\ WalkSees /\ GhostsFirst /\ Creation!IInv
=============================================================================
