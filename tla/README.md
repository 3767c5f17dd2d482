# A TLA+ model of Ghostlab

Ghostlab is a multi-player game: a server in C (`server/`) runs one thread per
connection, and a Java client (`client/`) sends the commands of its user. Players
create or join a game, validate it with START, hunt ghosts in a labyrinth, and
are ranked by points. This directory models the server, and one client's
dialogue with it, in TLA+, checks the models with TLC on small instances and proves the main results with TLAPS for
every instance. Paths below are relative to the repository; a line such as
`funct_aux.c:230` is in `server/server_files/`.

## 1. Inventory

| Component | Source | State it keeps | Operations | Module |
|---|---|---|---|---|
| Accept loop | `server.c:7-48` | the global list `games`, the lock `verrou` | accept, one `client_thread` per connection | (a process of Lobby) |
| Lobby and life of a game | `server.c:50-254`, `funct_aux.c:58-288, 465-516`, `game.c:5-34` | `games`; per game `game_id`, `joueurs`, `start`, `encours`; per thread `me` | NEWPL, REGIS, UNREG, START, the busy wait, end of the game, IQUIT, end of a connection | Lobby |
| Placement of players | `entity_position.c:112-163` | `x`, `y` of each player | `init_pos_player`, recursive | Placement |
| Hunt | `entity_position.c:7-110, 165-249`, `game.c:60-117`, `funct_aux.c:411-463` | positions, scores, the list of ghosts, `encours` | UPMOV, DOMOV, LEMOV, RIMOV, IQUIT | Hunt |
| Map | `labyrinthe.c` | the array `map` | `initMap`, `updateMap`, `fillMap` | Labyrinth |
| Placement of ghosts | `game.c:36-58`, `entity_position.c:112-125, 165-193, 256-260` | the list of ghosts and their positions | `initGhost`, `init_ghost_move` (before the game can be reached) | InitGhost, composed in Placement |
| Lists | `list.c`, and the loops over them in `funct_aux.c` | `first`, `last`, a `uint8_t count`; `next`, `prev`, `data` of the elements | `addEl`, `removeEl`, the searches and walks of their callers | Liste, Suite (sequences and sets in Lobby and Hunt) |
| Listing of games and players | `funct_aux.c:6-56, 290-321, 534-562`, `MessagePlayer.java:65-149, 392-424, 502-554` | the counters of the loop that sends a list | GAME?, LIST?, GLIS?, the greeting of a connection | Session |
| Chat | `funct_aux.c:572-710` | none | MALL?, SEND? | Session (request and answer; not the datagrams) |
| Client: command loop | `PlayerTCP.java`, `MessagePlayer.java` | `status`, what it reads | the requests of its menus, the readers of the answers | Session |
| Client: the rest | other `client/*.java` | none that is shared | two listeners that print, a map, a history | not modelled |

**How they interact.** Every thread works on the same heap. The only
synchronisation is the mutex `verrou`, taken around single reads, writes and
list operations; a handler takes and releases it several times, and many
comparisons are made without it. Threads also meet in the game they point to
(`me->current`), which one of them frees.

**What is hard.** The steps of two handlers in any order; a test that is stale
when it is used (`encours`, `start`, the length of a list, a wall, a ghost's
position); pointers into games, players, ghosts and list elements that another
thread frees; ids that two games share; waiting for an event that nobody
announces; two programs that each keep their own idea of where the player is and
take the next message of a stream for the answer they expect. Nothing is stored on disk, so there is no crash recovery to model.
`PROJECT.json` lists each hazard with its line.

## 2. Modules

Names of actions follow the functions of the code; variables keep its names
(`encours`, `start`, `joueurs`, `fantomes`, `game_id`, `pos` for `x` and `y`).

### Lobby

One process per connection. `pc[t]` says where its `client_thread` is:
in the command loop (`lobby`), in a handler, in the busy wait, in the game, or
on the way out. A handler is cut into the critical sections that another thread
can tell apart; several of them are one action where only one can be observed
(`getGameStart` and `getListCount` in the test of `start_game`: registered
players that have validated do not leave, so the length bounds the counter and
the outcome is that of one of the two moments).

* `SendX` and `Disconnect` are what the user does; `NewAllocate`/`NewLink`,
  `RegisLookup`/`RegisAdd`, `UnregLookup`...`UnregDone`,
  `StartIncrement`...`StartSet`, `Wake`, `Welcome`/`NoStart`,
  `CatchGhosts`/`MoveCheck`/`EndGame`, `Drain`, `QuitCount`...`QuitOther` are the
  steps of the server.
* The ids are chosen as `new_game` does, including two games with one id and the
  branch in which nothing assigns it (any byte).
* A game lives at an address of `Slots`, which is never given out twice. The
  first use of a freed game through a field that `free` has overwritten sets
  `crashed`, and the behaviour ends: what the process does then is undefined.
* Abstract: the hunt is the number of ghosts left; the order of the players, the
  content of messages and the read-only commands are left out.

### Partie

What one game promises to its players, in four variables: its phase (none,
waiting, running, over, freed), who is in it, who of them has validated, and how
many ghosts are left. `Begin` asks for two players that have validated, `Catch`
for a game that runs, `End` for one without ghosts, and nothing follows `Free`.
What is *not* promised shows in the guards that are missing: one can join a game
that runs or is over (register_game tests `encours` before it takes the lock), a
game can be freed in every phase, and one that is over can begin again, because
two threads may both set `encours` to 1 (`funct_aux.c:232`) with a whole game in
between.

Two modules implement it. `Lobby!Implements` maps every address of `Slots` to a
game of its own (`ThePartie(g)`), with `Starters(g)` for those that have
validated; the quantifier stands inside the box, which says the same as the
conjunction of `ThePartie(g)!Spec` over `g` and is a form TLC accepts.
`Hunt!PlaysPartie` maps a hunt to the phases "running" and "over"; in a hunt all
players have validated. The late second `encours = 1` is in Lobby only, since
`Hunt` begins behind it.

### InitGhost and Placement

`InitGhost` is the thread that creates a game: `Draw` is generic_move, `Look` the
walk of no_collision over the ghosts that are in the list (there is no player
yet), with a nested call of init_ghost_move on a collision, `Return` the end of
such a call, `AddGhost` the addition to the list and the draw of how many follow.
`Placement` contains it as `Creation`, and no player begins before it is done.

The threads of the players that validate execute `init_pos_player` at once. A
thread writes its cell (x, then y) and only then looks at the ghosts and the
other players; on a collision it calls itself and later goes on with its own
walk, so `appels` holds what each suspended call has not passed. `vu` is a
history variable for the proof.

### Hunt

A game under way, with the steps of `movPlayer` for every player: `Step`,
`LookFirst`, `Search`, `Credit`, `Free`, `RemoveGhost` (player_move, check_ghost);
`Status`, `CountGhosts`, `EndGame`, `Best`, `Compare`, `Announce` (the end and
getWinner); `SweepFirst`, `Sweep`, `Turn`, `Shift`, `Look`, `Return`, `SweepNext`
(movGhost, ghost_move, no_collision, with the stack of nested calls); `Quit` and
`Leave`. The locals of a thread are a record; they are set back when a function
returns. Granularity: the two coordinates of an entity are read in one step, and
a comparison without the lock and the locked step to the next element are one
step. Reading or freeing freed memory, following NULL and reading the map out of
its bounds set `corrupted`, and the behaviour ends.

### Labyrinth

`createMap` as a sequential machine: `Init` draws the labels, `Draw` decides
whether a block is visited, `Join` treats one side of it, `Update` is one pass
of `updateMap` (`Pass`: rows, `PassRow`, of cells that are changed under the
pass), `NextBlock` is the loop and `Trim` the end of `fillMap`. A map has at
least two rows and two columns, so that it has a block (`LabyrinthAssumption`;
`new_game` always asks for 11 x 11).

### Liste and Suite

`Liste` is one list of the server at the level of its pointers. `LinkAfter` and
`LinkFront` are the two ways of `addEl`, `Unlink` what `removeEl` does under the
lock, `Free` what it does afterwards. The callers are threads that read `last`
(`ReadLast`) before `addEl` takes the lock (`Add`), later look for their element
one pointer at a time (`WalkFirst`, `Test`, `Walk`; `WalkNot` is the shortcut of
quit_game for the last player) and remove it (`RemoveEl`); readers only walk.
Two kinds of loop occur: a `while` that ends at one's element (the search for a
player in func_unreg) and a `for` up to the current length (quit_game, the
searches in `games`, the readers). The list may be `games` or the `joueurs` of a
game, so a thread of the model may do what the users of either do. `ordre`,
`avant` and `manque` are history: the sequence of elements from `first` to
`last`, what was in it when a thread read `last`, and what a reader has yet to
see. At the start a player is in the list of a game once (`ListeAssumption`):
register_game is reached only by a thread whose player is in no game. A thread that follows NULL or touches freed memory, or is about to link or
unlink at an element that has left the list, stops the model (`GoAstray`).

`Suite` is what the users take a list for: a sequence to which a call adds an
element behind all those that were there when the call began. It says nothing
of the order of two calls that overlap, because addEl links the second one
*before* the first when both have read the same `last`. `Implements` maps the
calls in progress to the threads at `add`.

### Session

One connection, seen from both ends. The client is `status` (which menu of
`PlayerTCP.run` is shown), `asking` (whose answer is being read) and `toread`
(the messages of a list still to come); the server is `at` (where `client_thread`
and the reply it is sending are), `me`, and the locals of the loops that send
lists (`i`, `ptr`, `games_waiting`). `requests` and `replies` are the two
directions of the stream. `Menu` is what the user does, `Reader` the readers of
`MessagePlayer`, `Server` the thread and `Environment` the threads of the other
players, of which only what they do to the list of games matters. A list is sent
one message at a time, so the others act between any two of them.

* A reply is its first five letters and its last one-byte field. The latter
  matters twice: it announces how many messages follow, and a field of 42 is the
  byte `*`, so `readFirstMessage`, which stops at the third `*` in a row, leaves
  one behind (`left`).
* Taken in one step each: the handlers that keep the lock or touch only one game
  (their interleavings are in Lobby), and what a client reads of one message.
* `Faults` are the ways in which the two sides can part: another player acts
  while a list is sent ("race"), recv returns a part of a request ("short"), a
  message has more bytes than characters ("long"). `astray` becomes TRUE at the
  first one, at a field of 42, when func_send_games meets a game that has begun
  in front of one that waits, and at NoStart. The properties of Session are about
  what happens up to then: that these *are* all the ways is what they show.

### How they fit

`Placement` establishes what `Init` of `Hunt` assumes (players and ghosts on
different cells of the floor), `Labyrinth` what `Placement` assumes about the
floor (enough free cells), `Liste` what `Lobby` and `Hunt` assume of addEl and
removeEl; `Session` composes the client with the handlers of `Lobby`, of which it
keeps the effect on the list of games. `Hunt` details the steps `CatchGhosts`
and `EndGame` of `Lobby`: both implement `Partie`, which has the counter of ghosts and
the phase in common.

## 3. Runs

| Run | Instance | What it shows |
|---|---|---|
| LobbySafety | 3 clients, 3 addresses, ids 1..3, 1 ghost | `SeatedOnce`, `StartCountsStarters`, `EndedMeansCaught`, `BeginNeedsTwo` and `TypeOK`, whatever registers, leaves, validates and quits in between; `AbandonedIsFreed`; and `Lobby` implements `Partie` at every address |
| LobbyProgress | 3 clients, none of which leaves before the start, 2 addresses | `ReadyGameBegins` under fairness |
| LobbyLeaver | as above, one client may leave, 1 address | **violation**: two ready players wait for ever after the third has left |
| LobbyWelcome | 1 address | **violation**: a player that validated is never welcomed |
| LobbyFreed | 1 address | **violation**: a freed game is used |
| Placement | up to 3 ghosts on 4 cells, 2 nested calls; behind one ghost 3 players, 1 nested call | `GhostsApart`, `PlacedApart`, `PlacedOffGhosts`, and the inductive invariant `IInv` |
| HuntAlone | 2 players of which 1 moves, 2 ghosts, 5 cells around a wall, moves of 0..2 cells, 2 nested calls | `GhostsOnFloor`, `ScoresAddUp`, `TypeOK` |
| HuntTogether | 2 players that move and leave, 2 ghosts, a corridor of 4 cells that ends at a wall, moves of 0..1 cell, 1 nested call | `PlayersOnFloor`, `OneGhostPerCell`, `NoGhostUnderfoot`, `EndgaNamesBest`, `SweepInList`, `FinalScores`, and `Hunt` implements the running game of `Partie` (`PlaysPartie`) |
| ListeWalk | 3 threads, two of which search with a `while` and one with a `for`, 1 reader, 3 elements; empty at the start | `WellLinked`, `WalkStaysInList`, `LeftMeansGone`, `MissNobody`, and `Liste` implements `Suite` |
| Session | ids 1 and 42, up to 3 players in a game, all faults | `InStep`, `StatusAgrees`, `NoMutualWait`, `TypeOK`, and `Answered` under fairness |
| SessionListing | ids 1 and 2, up to 2 players, no fault | **violation**: a list that was announced does not arrive |
| Labyrinth | maps of 5 x 7 and 4 x 6 cells, labels 1..3 on 6 blocks | `FloorInOnePiece`, `TouchingAgree`, `EnoughFloor`, `TypeOK`; `NearerEnd`, and `MapGetsDone` under fairness |

**Bounds and why they are enough.** Two threads are enough for every race found
here; the third client of Lobby is the one that registers, or leaves, between
two others, and makes `start` and the length differ in both directions. Three
addresses let two live games share an id. In Placement three players on three
free cells make nested calls collide again; the constraint `GhostAtTheEnd` ends
the behaviours in which somebody begins behind other ghosts, since a player sees
of them only which cells they haunt. Two ghosts are needed for a ghost
to collide with a ghost, and a third thread in Hunt matters only for getWinner
(see the hazard on `game.c:102`). The corridor of HuntTogether makes every
move collide sooner or later, and the wall at its end is where a ghost that two
threads push ends up. Six blocks close a loop around two cells, three labels
make a label spread twice; the second size exercises the even row and column
that are cleared. In Liste three threads are enough for two of them to
read the same `last`, and for an element between two others to be removed; an
address is given out once, which bounds the run and hides no reuse of memory that
the model would have to follow, since the first use of freed memory ends it.
In Session two ids make two games, of which one has
begun and the other waits, and 42 is one of them; three players give a list of
players that grows and shrinks while it is sent. `MaxBacklog = 0` keeps a client
with unread messages from asking again: `InStep` says that before a fault it has
none. The constraint `UntilRead` ends a behaviour some steps after its first
fault (the walk under way, or the bytes left over, are followed); the properties
say nothing of what comes later. Outside the runs, quitting goes wrong from
four players on: two that leave during the search of a third, and the one that is
removed in its place (`Four` and `OneEach` of MCListe are that instance).
`MaxAppels` and `MaxCalls` cut behaviours with more nested
calls than that; they restrict the stack only.

**Deadlock** is not checked in any run: threads end, games end, and users may
stop sending.

**Fairness.** Lobby: weak fairness of the server's part of every thread, since
the operating system runs every thread; none of the user's part, since nobody
has to type a command. Session: weak fairness of the reader and of the server's
thread, none of the user nor of the other players. Labyrinth: weak fairness of the only thread. The other
modules state no liveness: a walk of no_collision ends only with luck in its
draws, which weak fairness does not express.

### What the violations show

* *Two ready players wait* (`funct_aux.c:230`): only START tests whether
  everybody has validated. When the last one that has not leaves instead, nobody
  repeats the test.
* *Never welcomed* (`server.c:158-162`): `encours` is read by the busy wait and
  again by the branch behind it. A game that ends in between is not noticed, the
  thread waits for its client to speak, and the client for WELCO.
* *Freed games* (`funct_aux.c:269, 487`): the game a thread looked up, or is
  about to unlink, is freed by another.
* *A list that does not arrive* (`funct_aux.c:33-56`): the first loop of
  func_send_games counts the games that wait, the second one moves to the next
  game only behind one that waits. Behind a game that has begun the announced
  messages are never sent, and the client reads on for ever, at the start of its
  connection or after GAME?.

Seen in the models and not a run of its own: two players that quit at once both
count two, so that nobody frees the game (`funct_aux.c:470`; `AbandonedIsFreed` is
about games that have not begun, where func_unreg removes before it counts); a
game that is over is set running again by a late StartSet (`funct_aux.c:232`);
register_game appends a player to a
game that has begun meanwhile, and lets a game that is over pass
(`funct_aux.c:158`); the loop of quit_game, whose bound others make smaller during
the search, can stop at somebody else's element, which is unlinked and freed
(`funct_aux.c:494`); GOBYE in answer to SEND? is printed and forgotten, so that the
client stays at the menu of a game that is over (`MessagePlayer.java:340`); after
an UNROK of game 42, which is misread, the client offers START to a thread whose
`me` is NULL (`funct_aux.c:222`).

Two results hold in HuntAlone and not when two players move: `ScoresAddUp`
(`entity_position.c:14-17` finds a ghost without the lock, so both players are
credited with it, and both free it) and `GhostsOnFloor`
(`entity_position.c:229`: both test the next cell of a ghost and both move it).
In Liste, `last` is an argument of addEl that is read before the lock is taken
(`funct_aux.c:127, 171`): where func_unreg has removed that element since, the
model stops.

## 4. Proofs

`LobbyProofs`, `PlacementProofs`, `HuntProofs`, `HuntCellsProofs`,
`ListeProofs`, `SessionProofs` and `LabyrinthProofs` are checked by TLAPS for
every value of the constants that satisfies the assumption of the module;
`Inductions` has what they share. A behaviour of Hunt, Liste or Lobby ends at the
first use of freed memory (`corrupted`, `GoAstray`, `crashed`): the theorems say
what holds up to there. Where a property does not hold without a condition, the
theorem names the condition (`[]CountedFinds`, `[]ShortList`, `[]OneShift`,
`[]OneCatcher`, `AllStay`), and a corollary names an instance in which it is met.

Every invariant and every action property that a passing run checks, and every
refinement, has a theorem, some of them on such a condition. The liveness
properties have none (see the end of this section).

* **Inductions.** The induction theorems of the library have an operator as a
  parameter, which the provers cannot instantiate. `NatInd` and `SubsetInduction`
  say the same of *sets* of numbers and of subsets; both follow from the library's
  theorem that a well-founded order has minima. From them follow what changing,
  removing or adding one value does to `SumFunction` (`SumChange`, `SumRemove`,
  `SumMore`), and that a function defined by a recursion that goes down exists
  (`DescentEnds`) and keeps what each of its steps keeps (`DescentKeeps`).
* **LobbyProofs.** The inductive invariant `IInv` adds three parts to the
  properties: `PointersOK` (what a thread's position says of its pointers),
  `FreshOK` (a game that is allocated and not yet linked is seen by its creator
  only) and `ProgressOK` (only threads that have left the command loop have
  validated; a thread that sets `encours` has seen two starts). They are needed
  because `SeatedOnce` is broken by a thread with a stale pointer to a fresh
  game, and `StartCountsStarters` by a player that validates twice or leaves
  after it has. `BeginNeedsTwo` follows from it: at the step that sets
  `encours`, `start` is above 1 and counts the starters. `IInv` is checked by TLC
  in the same instances before it is proved.

  *The life of a game.* Both results rest on `IInv`. `ImplementsHolds` sorts the
  steps of a thread: those that no game can notice stutter (`UnnoticedStutters`), those on one game stutter for every other
  (`ElsewhereStutters`), and each of the rest is one action of `Partie`. It needs
  of the invariant that a thread about to set `encours` has itself validated, and
  that a game in front of `new_game` is still unused. `AbandonedIsFreedHolds` adds
  two invariants: `Minded` says that a game nobody is in, and that has not begun,
  has a thread in func_unreg minding it (it is about to count, or to free), one
  that is about to join it, or a twin; `AimOK` that func_unreg has looked up the
  game its player leaves, or one that has been freed since (the thread gets no
  further), unless that game has a twin.
* **PlacementProofs.** Of the ghosts, `Creation!WalkSees` says that the one being
  placed is on none of the cells its present walk has passed; it is inductive
  because a nested call ends only at the end of its own walk, when the ghost is apart
  from all, so that the outer one can go on from anywhere. Of the players,
  `SomeoneWillSee` says that two players that have looked at
  each other since they last moved are apart; `WalkSees` says that whoever a walk
  has passed has been looked at. Together they are inductive, and a player that
  is placed has looked at everybody: the argument of Dekker's algorithm, for any
  number of players, any map and any depth of recursion. `Invariance` states that
  conjunction, which the run checks as `IInv`.
* **HuntProofs.** `FinalScores` needs that a capture cannot outlive the game.
  `ListedOrFreed` says that a ghost off the list was freed, `ThreadsKnow` what a
  thread at each of its locations may assume of the ghost it holds and of the
  list, `OverWhenCaught` that the game is over only with an empty list. A thread
  that is about to credit a ghost after the end therefore holds a freed one: it
  reads freed memory, which stops the model, but credits nobody in it.
  `PlayersOnFloor` needs the typing of what the threads hold (whoever moves or
  frees an entity holds a ghost), and `Present`, that a player leaves only once.
  `WithoutElements` is the lemma about removeEl that all of this rests on.
  `PlaysPartieHolds` adds that no player is twice in the list (`Once`), so that a
  departure takes one player out and no more; a capture leaves one ghost fewer,
  and while there is one to remove the game is not over (`OverWhenCaught`).
  `SweepInListHolds` rests on `Counted`: a thread in the loop of movGhost has counted
  at least the ghosts in front of the one it is at, since removals only move a ghost
  to the front (`WithoutPlace`), so that at the end of the list its counter has
  reached the length. `EndgaNamesBest` is about getWinner, which walks a list that
  players leave. The ranking itself changes nothing, since scores are final by then
  (`RankedOver`, `NoMorePoints`); what can go wrong is the walk, and the two theorems say
  when it does not. Of two players (`EndgaNamesBestOfTwo`) there is one comparison,
  between the only two that can be in the list (`OfTwo`). Of any number
  (`EndgaNamesBestOfAll`) the walk is right if nobody leaves while it lasts (`AllStay`):
  the players it has passed have no more points than the best so far (`OfAll`). From
  three players on a departure during the walk can make it miss one (the hazard on
  `game.c:102`).
  `ScoresAddUp` is about a sum over the players and one over the ghosts. A credit adds the
  points of a ghost to a player (`CreditedStep`), every other step leaves both sums
  alone (`OtherSteps`); so they stay equal (`PInv`) if the ghost was not credited
  before. That is `OneCatcher`: nobody credits a ghost between the moment another
  thread has added its points and the moment it is freed. check_ghost does not
  guarantee it when two players find one ghost; `ScoresAddUpAlone` shows that one
  mover alone meets it, because nobody else is inside check_ghost (`Idle`).
* **HuntCellsProofs.** `OneGhostPerCell` and `NoGhostUnderfoot` speak of moments at
  which every thread is between two requests; in between ghosts do share cells. The
  inductive invariant `CInv` says who is still at work then. `GhostsWatched`: two
  ghosts are on one cell only while a thread that moves one of them has the other
  still ahead of it in the walk of no_collision. `PlayersWatched`: a ghost is on the cell
  of a player only while a thread is in front of a loop over all the ghosts
  (`Walking`: whoever has moved a player moves the ghosts next), or in that loop with
  the ghost still ahead (`Reaches`), or has moved it and has the player ahead
  (`Catches`). A removal may push a ghost in front of the loop of another thread;
  who removes it has itself a loop to make, and that covers the case. `FreedLeaves`
  (a freed ghost in the list is about to leave it) lets the invariant speak of the
  ghosts that are left. No condition on the number of movers is needed.
  `GhostsOnFloor` needs one: two threads that have both tested the next cell of one
  ghost push it two cells. `GhostsOnFloorHolds` shows that this is the only way into a
  wall, which is what `OneShift` excludes; `GhostsOnFloorAlone` that one mover alone never does it.

* **ListeProofs.** The lemmas `ChainAfter`, `ChainFront` and `ChainOut` are about
  pointers and a sequence alone: what linking behind an element, linking in front
  and unlinking do to their agreement. `IInv` adds to `WellLinked` that no element
  is listed twice, that listed elements are in use and those about to be freed are
  not listed, and `Behind`: nothing that was in the list when a thread read `last`
  is behind that element now. `Behind` is what makes an addition at a stale `last`
  a step of `Suite`; it holds because others only go behind that element, and are
  new. `ImplementsHolds` maps every step to a step of `Suite` or none.

  *The searches and walks.* A thread that looks for its element with a `while` and no test
  for NULL relies on it being ahead. `OnTrack` is what makes that inductive: there is
  a set of elements that contains the one the thread is at, none of which is behind
  its own in the list, and that elements removed from the list (while the thread stood at
  them) point into, so that whoever follows `next` stays in it. `OneOwn` counts the elements of
  a thread: one in the list between addEl and removeEl, none before and after. Both hold only
  as long as nobody takes the element of somebody else, which the counting loop of
  quit_game can do (see above); so the theorems assume `CountedFinds`, and
  `LobbySearches` shows that func_unreg needs no such condition where nobody
  counts, as before a game begins.
  `MissNobodyHolds` is about readers: the next element a reader has yet to see is at most as many
  steps away as its counter has left, because a removal shortens both (`ToSee`). It
  needs a list that a byte can count (`ShortList`): a walk over 256 elements ends
  at once.
* **SessionProofs.** `Typed` are the types: no two games share an id (so that there are
  fewer than a byte counts, by the pigeonhole principle), and the counters of a
  walk stay in the list it sends. `Sync` is what the properties need: until the
  first fault there is either one request under way and nothing else (`Asked`), or
  an answer (`Reading`), of which it says for every reader what the stream holds
  and where the server is. For a list the two are tied by `Rest`, the messages that
  the rest of the loop will send: what is announced, or left to read, is what is in
  the stream plus `Rest`. `WalkOK` makes `Rest` a number: with no game that has
  begun in front of one that waits, the games counted are the first ones of the
  list. `InStep`, `StatusAgrees` and `NoMutualWait` follow.

* **LabyrinthProofs.** `Pass` is a recursive function of the map so far. `LoopEnds`
  says that such a loop is one (by `DescentEnds`), `LoopKeeps` that a relation
  between the map before and after one round holds between the two ends of the
  loop. The relation is `Grow`: labels only grow, to labels that there were, and no
  cell is freed or walled in. Because it is an order, a pass that changes nothing has
  changed nothing in any of its rounds (`LoopRests`): no cell has a neighbour
  with a lower label, and so labels that touch are equal. That is `TouchingAgree`;
  it needs nothing but the types (`Sound`).
  The two other properties rest on the graph whose vertices are the blocks and whose
  edges are the walls between two of them. `Forest` says that it has no loop,
  in the form in which it is used: of any walls of it, two blocks are touched by exactly
  one. A map keeps it (`Shape`): a block is joined to one with a *lower* label, so by
  `TouchingAgree` nothing connects the two, and the new wall is an edge between two
  separate parts (`ForestJoin`). `EnoughFloor` follows by taking the walls away one by
  one, each with a block that no other wall touches (`ForestSmall`).
  `FloorInOnePiece` follows by putting them back: without walls one can walk anywhere
  (`BareFloor`), and around a block that only the new wall touches there is a way
  from one side of that wall to the other (`Corners`, `Detour`), through the
  row or column that is trimmed where the block is in it. `ReachedClosed` ties the
  recursive `Reached` to it. In the instance of the run TLC finds `Sound` and the part of
  `Shape` before the end true of all states.

  `NearerEndHolds` is the part of termination that is not liveness: what is left to do
  gets less with every step, in a lexicographic order of three numbers (blocks ahead,
  sides ahead, labels to spread). A pass that changes a label leaves less to spread
  (`PassSpreads`), since it grows the label to one that there was.

Only model-checked: the liveness properties `ReadyGameBegins`, `Answered` and
`MapGetsDone` (the prover has no fairness reasoning and no ENABLED). Of the last
one `NearerEnd` leaves that some action is possible until then, and that the
thread takes it.

## 5. Not modelled, and why

* The rest of a connection after the first fault: the bytes of a request that is
  read as a command depend on its content. Session follows them up to the next
  answer.
* A client that closes its connection is in Lobby only; Session has a client that
  runs until its last menu.
* The dialogue that asks for a name and a port, and the display.
* Formats that no client of this repository sends, failures of malloc, accept and pthread_create, SIGPIPE.
* The content of datagrams, the display of the client and its saved history.

## 6. Plan

1. Several clients of `Session` against one list of games, with the ids of
   `new_game`.
2. Proofs: of `Answered`, that every step of the server shortens what a client
   waits for; of `ReadyGameBegins`, that a game all of whose players have
   validated has a thread that is about to set `encours`.
