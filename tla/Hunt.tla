-------------------------------- MODULE Hunt --------------------------------
(***************************************************************************)
(* A game under way: the requests UPMOV, DOMOV, LEMOV, RIMOV and IQUIT of  *)
(* its players.  movPlayer (funct_aux.c) moves the player cell by cell,    *)
(* captures the ghosts it meets (check_ghost), ends the game when no ghost *)
(* is left (getWinner) and otherwise lets every ghost take a step          *)
(* (movGhost, ghost_move, no_collision).                                   *)
(*                                                                         *)
(* One thread per player executes them, all on the same lists, positions   *)
(* and scores.  The lock is taken around single reads and writes, so a     *)
(* step below is one critical section, or one comparison made without the  *)
(* lock; the two coordinates of an entity are read or written in one step. *)
(* A thread that reads an element or a ghost that was freed stops the      *)
(* model (corrupted): what the program does then is undefined.             *)
(*                                                                         *)
(* Placement says where the players are when the game begins.  Lobby       *)
(* models how games begin and how they are freed after the last departure. *)
(***************************************************************************)
EXTENDS Integers, Sequences, FiniteSets, SequencesExt, FiniteSetsExt

CONSTANTS
    JoueurList,    \* the players in the order of the list `joueurs'
    FantomeList,   \* the ghosts in the order of the list `fantomes'
    NoEl,          \* NULL
    Movers,        \* the players that send moves
    Quitters,      \* the players that may send IQUIT
    widthMap, heightMap,
    Sol,           \* the cells without a wall
    MaxDistance,   \* bound: the longest move asked for (999 in the protocol)
    MaxCalls       \* bound: most calls of ghost_move that are nested

Joueurs  == ToSet(JoueurList)
Fantomes == ToSet(FantomeList)
Entities == Joueurs \cup Fantomes
Grid     == (0 .. widthMap - 1) \X (0 .. heightMap - 1)

ASSUME HuntAssumption ==
    /\ JoueurList \in Seq(Joueurs) /\ FantomeList \in Seq(Fantomes)
    /\ IsInjective(JoueurList) /\ IsInjective(FantomeList)
    /\ Joueurs \cap Fantomes = {} /\ NoEl \notin Entities
    /\ Movers \subseteq Joueurs /\ Quitters \subseteq Joueurs
    /\ widthMap \in Nat /\ heightMap \in Nat
    /\ Sol \subseteq Grid
    /\ MaxDistance \in Nat /\ MaxCalls \in Nat

VARIABLES
    thread,    \* the locals of the thread of each player, see Locals
    joueurs,   \* the list of the players that have not left
    fantomes,  \* the list of the ghosts that have not been removed
    freed,     \* the ghosts whose data was freed
    pos,       \* the cell <<x, y>> of every player and ghost
    score,     \* the score of every player
    encours,   \* 1 during the game, 2 after it
    corrupted  \* a thread has read or freed freed memory

shared == <<joueurs, fantomes, freed, pos, score, encours, corrupted>>
vars   == <<thread, shared>>

Directions == {<<0, -1>>, <<1, 0>>, <<0, 1>>, <<-1, 0>>}

Locations == {"play", "step", "first", "search", "credit", "free",
              "remove", "status", "count", "over", "best", "compare", "announce",
              "sweep", "ghost", "turn", "shift", "look", "sweepnext", "quit", "gone"}

Locals == [pc    : Locations,
           dir   : Directions,              \* of the player, then of the ghost
           dist  : 0 .. MaxDistance,        \* cells that are left to go
           el    : Entities \cup {NoEl},    \* `el' of check_ghost, `ptr' of
                                            \* movGhost, `max' of getWinner
           vis   : Entities \cup {NoEl},    \* `el' of no_collision, `ptr' of
                                            \* getWinner
           i     : Nat,                     \* counter of the loop over a list
           calls : Seq(Entities)]           \* where the outer calls of
                                            \* no_collision have stopped

North == <<0, -1>>

\* The locals at the beginning of a function; those that are no longer in scope
\* are set back.
Fresh(l) == [pc |-> l, dir |-> North, dist |-> 0, el |-> NoEl, vis |-> NoEl,
             i |-> 0, calls |-> <<>>]

\* What the cell of a freed ghost has become; a thread that reads it is stopped.
Garbage == <<-1, -1>>

Plus(c, d) == <<c[1] + d[1], c[2] + d[2]>>

First(list) == IF list = <<>> THEN NoEl ELSE list[1]

Place(list, e) == CHOOSE k \in DOMAIN list : list[k] = e

\* el->next.
After(list, e) == LET k == Place(list, e)
                  IN  IF k = Len(list) THEN NoEl ELSE list[k + 1]

\* removeEl.
Without(list, e) == RemoveAt(list, Place(list, e))

\* initGhost: 15 for the first ghost, then 15, 30, 45, 60 in turn.
Points(g) == LET k == Place(FantomeList, g)
             IN  IF k = 1 THEN 15 ELSE 15 * (((k - 2) % 4) + 1)

\* The test of player_move and ghost_move: the next cell is outside the map,
\* or it has a wall.
Outside(c, d) == \/ d = <<0, -1>> /\ c[2] < 0
                 \/ d = <<1, 0>>  /\ c[1] >= widthMap
                 \/ d = <<0, 1>>  /\ c[2] >= heightMap
                 \/ d = <<-1, 0>> /\ c[1] < 0

\* Mutant: only the border of the map is tested.
BlockedByBorder(c, d) == Outside(Plus(c, d), d)

Blocked(c, d) == Outside(Plus(c, d), d) \/ Plus(c, d) \notin Sol

Goto(p, l)  == thread' = [thread EXCEPT ![p].pc = l]
Enter(p, l) == thread' = [thread EXCEPT ![p] = Fresh(l)]

-----------------------------------------------------------------------------
(* movPlayer: the walk of the player.                                      *)

\* A move of n cells is asked for, and the game is not over.
Move(p) ==
    /\ thread[p].pc = "play" /\ p \in Movers /\ encours # 2
    /\ \E d \in Directions, n \in 0 .. MaxDistance :
          thread' = [thread EXCEPT ![p].pc = "step", ![p].dir = d, ![p].dist = n]
    /\ UNCHANGED shared

\* Mutant: the loop is run once too often.
StepOnceMore(p) ==
    LET t == thread[p] IN
    /\ t.pc = "step"
    /\ IF t.dist < 0 \/ Blocked(pos[p], t.dir)
         THEN Enter(p, "status") /\ UNCHANGED pos
         ELSE Goto(p, "first") /\ pos' = [pos EXCEPT ![p] = Plus(@, t.dir)]
    /\ UNCHANGED <<joueurs, fantomes, freed, score, encours, corrupted>>

\* player_move: one cell further, or the end of the walk.
Step(p) ==
    LET t == thread[p] IN
    /\ t.pc = "step"
    /\ IF t.dist = 0 \/ Blocked(pos[p], t.dir)
         THEN Enter(p, "status") /\ UNCHANGED pos
         ELSE Goto(p, "first") /\ pos' = [pos EXCEPT ![p] = Plus(@, t.dir)]
    /\ UNCHANGED <<joueurs, fantomes, freed, score, encours, corrupted>>

\* check_ghost: the list is walked from its first element ...
LookFirst(p) ==
    /\ thread[p].pc = "first"
    /\ thread' = [thread EXCEPT ![p].pc = "search", ![p].el = First(fantomes)]
    /\ UNCHANGED shared

\* ... to a ghost on the cell of the player, or to its end.
Search(p) ==
    LET t == thread[p] IN
    /\ t.pc = "search" /\ t.el \notin freed
    /\ \/ /\ t.el = NoEl
          /\ thread' = [thread EXCEPT ![p].pc = "step", ![p].dist = @ - 1]
       \/ t.el # NoEl /\ pos[t.el] = pos[p] /\ Goto(p, "credit")
       \/ /\ t.el # NoEl /\ pos[t.el] # pos[p]
          /\ thread' = [thread EXCEPT ![p].el = After(fantomes, t.el)]
    /\ UNCHANGED shared

\* Mutant: the points replace the score.
CreditReplaces(p) ==
    LET t == thread[p] IN
    /\ t.pc = "credit" /\ t.el \notin freed
    /\ score' = [score EXCEPT ![p] = Points(t.el)]
    /\ Goto(p, "free")
    /\ UNCHANGED <<joueurs, fantomes, freed, pos, encours, corrupted>>

\* The points go to the player (and SCORE is multicast), ...
Credit(p) ==
    LET t == thread[p] IN
    /\ t.pc = "credit" /\ t.el \notin freed
    /\ score' = [score EXCEPT ![p] = @ + Points(t.el)]
    /\ Goto(p, "free")
    /\ UNCHANGED <<joueurs, fantomes, freed, pos, encours, corrupted>>

\* ... the ghost is freed, ...
Free(p) ==
    LET t == thread[p] IN
    /\ t.pc = "free" /\ t.el \notin freed
    /\ freed' = freed \cup {t.el}
    /\ pos' = [pos EXCEPT ![t.el] = Garbage]
    /\ Goto(p, "remove")
    /\ UNCHANGED <<joueurs, fantomes, score, encours, corrupted>>

\* ... its element leaves the list, and the search stops there.
RemoveGhost(p) ==
    LET t == thread[p] IN
    /\ t.pc = "remove" /\ t.el \in ToSet(fantomes)
    /\ fantomes' = Without(fantomes, t.el)
    /\ thread' = [thread EXCEPT ![p].pc = "step", ![p].dist = @ - 1,
                                ![p].el = NoEl]
    /\ UNCHANGED <<joueurs, freed, pos, score, encours, corrupted>>

-----------------------------------------------------------------------------
(* movPlayer: the end of the game.                                         *)

\* Is the game under way, ...
Status(p) ==
    /\ thread[p].pc = "status"
    /\ Goto(p, IF encours = 1 THEN "count" ELSE "sweep")
    /\ UNCHANGED shared

\* Mutant: the game ends with the last ghost still to be caught.
CountGhostsEarly(p) ==
    /\ thread[p].pc = "count"
    /\ Goto(p, IF Len(fantomes) <= 1 THEN "over" ELSE "sweep")
    /\ UNCHANGED shared

\* ... and is no ghost left?  Else the ghosts move.
CountGhosts(p) ==
    /\ thread[p].pc = "count"
    /\ Goto(p, IF fantomes = <<>> THEN "over" ELSE "sweep")
    /\ UNCHANGED shared

EndGame(p) ==
    /\ thread[p].pc = "over"
    /\ encours' = 2
    /\ Goto(p, "best")
    /\ UNCHANGED <<joueurs, fantomes, freed, pos, score, corrupted>>

\* getWinner: the first player is compared with each of the following ones.
Best(p) ==
    /\ thread[p].pc = "best"
    /\ thread' = [thread EXCEPT
                    ![p].pc  = IF Len(joueurs) > 1 THEN "compare" ELSE "announce",
                    ![p].el  = First(joueurs),
                    ![p].vis = IF Len(joueurs) > 1 THEN joueurs[2] ELSE NoEl,
                    ![p].i   = 0]
    /\ UNCHANGED shared

\* Mutant: the lower score is kept.
CompareReversed(p) ==
    LET t == thread[p] IN
    /\ t.pc = "compare"
    /\ IF t.i < Len(joueurs) - 1
         THEN /\ {t.el, t.vis} \subseteq ToSet(joueurs)
              /\ thread' = [thread EXCEPT
                              ![p].el  = IF score[t.vis] < score[@] THEN t.vis ELSE @,
                              ![p].vis = After(joueurs, t.vis),
                              ![p].i   = @ + 1]
         ELSE Goto(p, "announce")
    /\ UNCHANGED shared

Compare(p) ==
    LET t == thread[p] IN
    /\ t.pc = "compare"
    /\ IF t.i < Len(joueurs) - 1
         THEN /\ {t.el, t.vis} \subseteq ToSet(joueurs)
              /\ thread' = [thread EXCEPT
                              ![p].el  = IF score[t.vis] > score[@] THEN t.vis ELSE @,
                              ![p].vis = After(joueurs, t.vis),
                              ![p].i   = @ + 1]
         ELSE Goto(p, "announce")
    /\ UNCHANGED shared

\* ENDGA names the winner.
Announce(p) ==
    LET t == thread[p] IN
    /\ t.pc = "announce" /\ t.el \in ToSet(joueurs)
    /\ Enter(p, "play")
    /\ UNCHANGED shared

-----------------------------------------------------------------------------
(* movGhost: the ghosts move, one after the other.                         *)

SweepFirst(p) ==
    /\ thread[p].pc = "sweep"
    /\ thread' = [thread EXCEPT ![p].pc = "ghost", ![p].el = First(fantomes),
                                ![p].i = 0]
    /\ UNCHANGED shared

\* The next ghost of the loop, as long as the counter is below the length.
Sweep(p) ==
    LET t == thread[p] IN
    /\ t.pc = "ghost"
    /\ IF t.i < Len(fantomes)
         THEN t.el \notin freed \cup {NoEl} /\ Goto(p, "turn")
         ELSE Enter(p, "play")
    /\ UNCHANGED shared

\* no_collision walks the players and then the ghosts.
InLists == ToSet(joueurs) \cup ToSet(fantomes)

\* Mutant: the walk stops after the players.
AfterInPlayers(e) == IF e \in Fantomes THEN NoEl ELSE After(joueurs, e)

AfterIn(e) == IF e \in Fantomes THEN After(fantomes, e)
              ELSE IF After(joueurs, e) # NoEl THEN After(joueurs, e)
              ELSE First(fantomes)

\* Mutant: the walk leaves out the players.
NoCollisionGhosts(p) == thread' = [thread EXCEPT ![p].pc = "look",
                                        ![p].dir = North, ![p].vis = First(fantomes)]

NoCollision(p) == thread' = [thread EXCEPT ![p].pc = "look", ![p].dir = North,
                                           ![p].vis = First(joueurs)]

\* ghost_move: a direction is drawn and the cell in that direction tested ...
Turn(p) ==
    LET t == thread[p] IN
    /\ t.pc = "turn" /\ t.el \notin freed
    /\ \E d \in Directions :
          /\ Outside(Plus(pos[t.el], d), d) \/ Plus(pos[t.el], d) \in Grid
          /\ IF Blocked(pos[t.el], d)
               THEN NoCollision(p)
               ELSE thread' = [thread EXCEPT ![p].pc = "shift", ![p].dir = d]
    /\ UNCHANGED shared

\* ... before the lock is taken and the ghost moves, from where it then is.
Shift(p) ==
    LET t == thread[p] IN
    /\ t.pc = "shift" /\ t.el \notin freed
    /\ pos' = [pos EXCEPT ![t.el] = Plus(@, t.dir)]
    /\ NoCollision(p)
    /\ UNCHANGED <<joueurs, fantomes, freed, score, encours, corrupted>>

\* no_collision: one on the same cell makes the ghost move again, in a nested
\* call of ghost_move.
Look(p) ==
    LET t == thread[p]
        Collides == t.vis # t.el /\ pos[t.vis] = pos[t.el]
    IN
    /\ t.pc = "look" /\ t.vis \in InLists /\ {t.el, t.vis} \cap freed = {}
    /\ \/ ~Collides /\ thread' = [thread EXCEPT ![p].vis = AfterIn(t.vis)]
       \/ /\ Collides /\ Len(t.calls) < MaxCalls
          /\ thread' = [thread EXCEPT ![p].pc = "turn", ![p].vis = NoEl,
                                      ![p].calls = Append(@, t.vis)]
    /\ UNCHANGED shared

\* The call returns: the walk of the outer one goes on where it had stopped.
Return(p) ==
    LET t == thread[p] IN
    /\ t.pc = "look" /\ t.vis = NoEl
    /\ \/ t.calls = <<>> /\ Goto(p, "sweepnext")
       \/ /\ t.calls # <<>> /\ Last(t.calls) \in InLists
          /\ thread' = [thread EXCEPT ![p].vis = AfterIn(Last(t.calls)),
                                      ![p].calls = Front(@)]
    /\ UNCHANGED shared

\* Mutant: the counter stays.
SweepNextUncounted(p) ==
    LET t == thread[p] IN
    /\ t.pc = "sweepnext" /\ t.el \in ToSet(fantomes)
    /\ thread' = [thread EXCEPT ![p].pc = "ghost",
                                ![p].el = After(fantomes, t.el)]
    /\ UNCHANGED shared

SweepNext(p) ==
    LET t == thread[p] IN
    /\ t.pc = "sweepnext" /\ t.el \in ToSet(fantomes)
    /\ thread' = [thread EXCEPT ![p].pc = "ghost", ![p].i = @ + 1,
                                ![p].el = After(fantomes, t.el)]
    /\ UNCHANGED shared

-----------------------------------------------------------------------------
\* IQUIT, or any command once the game is over: quit_game.
Quit(p) ==
    /\ thread[p].pc = "play"
    /\ p \in Quitters \/ encours = 2
    /\ Goto(p, "quit")
    /\ UNCHANGED shared

\* The player leaves the list and is freed.
Leave(p) ==
    /\ thread[p].pc = "quit"
    /\ joueurs' = Without(joueurs, p)
    /\ Goto(p, "gone")
    /\ UNCHANGED <<fantomes, freed, pos, score, encours, corrupted>>

\* The next step of thread p reads freed memory, frees it again, follows NULL,
\* or reads the map outside its bounds.
Undefined(p) ==
    LET t == thread[p] IN
    \/ t.pc \in {"search", "credit", "free", "turn", "shift"} /\ t.el \in freed
    \/ t.pc \in {"remove", "sweepnext"} /\ t.el \notin ToSet(fantomes)
    \/ t.pc = "ghost" /\ t.i < Len(fantomes) /\ t.el \in freed \cup {NoEl}
    \/ /\ t.pc = "turn"
       /\ \E d \in Directions :
             LET c == Plus(pos[t.el], d) IN ~Outside(c, d) /\ c \notin Grid
    \/ /\ t.pc = "look" /\ t.vis # NoEl
       /\ t.vis \notin InLists \/ {t.el, t.vis} \cap freed # {}
    \/ /\ t.pc = "look" /\ t.vis = NoEl /\ t.calls # <<>>
       /\ Last(t.calls) \notin InLists
    \/ /\ t.pc = "compare" /\ t.i < Len(joueurs) - 1
       /\ ~({t.el, t.vis} \subseteq ToSet(joueurs))
    \/ t.pc = "announce" /\ t.el \notin ToSet(joueurs)

Corrupt(p) ==
    /\ Undefined(p)
    /\ corrupted' = TRUE
    /\ UNCHANGED <<thread, joueurs, fantomes, freed, pos, score, encours>>

-----------------------------------------------------------------------------
\* The game begins: Placement and initGhost have put everybody on a cell
\* of its own.
Init ==
    /\ thread = [p \in Joueurs |-> Fresh("play")]
    /\ joueurs = JoueurList
    /\ fantomes = FantomeList
    /\ freed = {}
    /\ pos \in {c \in [Entities -> Sol] : IsInjective(c)}
    /\ score = [p \in Joueurs |-> 0]
    /\ encours = 1
    /\ corrupted = FALSE

Player(p) ==
    \/ Move(p) \/ Step(p) \/ LookFirst(p) \/ Search(p)
    \/ Credit(p) \/ Free(p) \/ RemoveGhost(p)
    \/ Status(p) \/ CountGhosts(p) \/ EndGame(p)
    \/ Best(p) \/ Compare(p) \/ Announce(p)
    \/ SweepFirst(p) \/ Sweep(p) \/ Turn(p) \/ Shift(p)
    \/ Look(p) \/ Return(p) \/ SweepNext(p)
    \/ Quit(p) \/ Leave(p) \/ Corrupt(p)

Next == ~corrupted /\ \E p \in Joueurs : Player(p)

Spec == Init /\ [][Next]_vars

-----------------------------------------------------------------------------
TypeOK ==
    /\ thread \in [Joueurs -> Locals]
    /\ joueurs \in Seq(Joueurs) /\ fantomes \in Seq(Fantomes)
    /\ freed \subseteq Fantomes
    /\ pos \in [Entities -> Int \X Int]
    /\ score \in [Joueurs -> Nat]
    /\ encours \in {1, 2}
    /\ corrupted \in BOOLEAN

\* No player walks through a wall or out of the map, whatever the others do.
PlayersOnFloor == \A p \in Joueurs : pos[p] \in Sol

\* Neither does a ghost, as long as only one player moves at a time: the wall
\* is tested before the lock is taken.
GhostsOnFloor == \A g \in ToSet(fantomes) \ freed : pos[g] \in Sol

AtRest == \A p \in Joueurs : thread[p].pc \in {"play", "quit", "gone"}

\* "1 fantome par case au plus" (check_ghost): when no request is being
\* executed, the ghosts are on different cells.  Whoever moves a ghost looks
\* at the others after it, so one of two movers sees a collision.
OneGhostPerCell ==
    AtRest => \A g, h \in ToSet(fantomes) : g # h => pos[g] # pos[h]

\* Nor is one of them on the cell of a player, who would have caught it: the
\* player looks for ghosts after it has moved, and a ghost for players.
NoGhostUnderfoot ==
    AtRest => \A g \in ToSet(fantomes), p \in ToSet(joueurs) : pos[g] # pos[p]

\* The ghosts that the players have been credited with: those that were
\* removed, and those that a thread is about to remove.
Credited ==
    (Fantomes \ ToSet(fantomes)) \cup
    {thread[p].el : p \in {q \in Joueurs : thread[q].pc \in {"free", "remove"}}}

\* The points of the players are those of the ghosts that were caught.
ScoresAddUp ==
    SumFunction(score) = SumFunction([g \in Credited |-> Points(g)])

\* Once the game is over no score changes, although other players may still
\* be in the middle of their moves: what ENDGA announces is final.
FinalScores == [][encours = 2 => UNCHANGED score]_vars

\* From its first move to its last the hunt is what Partie says of a game that
\* runs: the ghosts go one by one, and only a game without ghosts is over.
Game == INSTANCE Partie WITH phase    <- IF encours = 1 THEN "running" ELSE "over",
                             inscrits <- ToSet(joueurs),
                             valides  <- ToSet(joueurs),
                             fantomes <- Len(fantomes)
PlaysPartie == [][Game!Next]_(Game!vars)

\* When ENDGA is sent, none of the players still in the game has more points
\* than the one it names, whoever leaves while getWinner compares them.  It
\* takes that there are two players: of three, the last is left out when the
\* second leaves in the middle of the loop.
EndgaNamesBest ==
    \A p \in Joueurs :
        thread[p].pc = "announce" /\ thread[p].el \in ToSet(joueurs)
           => \A q \in ToSet(joueurs) : score[q] <= score[thread[p].el]

\* The loop of movGhost counts to the length of the list and follows the next
\* pointers, while other threads shorten the list: it never follows NULL.
SweepInList ==
    \A p \in Joueurs :
        thread[p].pc = "ghost" /\ thread[p].i < Len(fantomes) => thread[p].el # NoEl
=============================================================================
