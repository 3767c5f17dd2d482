------------------------------- MODULE Lobby -------------------------------
(***************************************************************************)
(* The life of the games of the Ghostlab server, from NEWPL to GOBYE: one  *)
(* client_thread per connection (server.c), and the handlers of            *)
(* funct_aux.c that create, join, start, leave, end and free a game.       *)
(*                                                                         *)
(* Every handler is cut where another thread can run between two of its    *)
(* reads or writes of shared state.  `verrou' is taken and released around *)
(* single reads, writes and list operations, so each step below is one     *)
(* such critical section, or several of which only one can be observed.    *)
(* What is abstract: the walk of a list is one step, the list `joueurs' is *)
(* the set of its players (its order is only used to pick a winner), and   *)
(* the hunt is reduced to the number of ghosts left.                       *)
(*                                                                         *)
(* A game lives at an address of Slots.  malloc never returns an address   *)
(* that was freed, so a stale pointer always shows: its first use through  *)
(* the overwritten field `joueurs' kills the process (crashed), whereas    *)
(* encours and start, which free() leaves in place, still read their last  *)
(* value, and game_id, which free() overwrites, reads as anything.         *)
(***************************************************************************)
EXTENDS Integers, Sequences, FiniteSets, SequencesExt

CONSTANTS Clients,    \* connections: one client_thread each
          Leavers,    \* those that may UNREG, drop or send a malformed START
                      \* before the game starts
          Slots,      \* addresses at which new_game allocates a game
          NoGame,     \* NULL
          Ids,        \* the values of a uint8_t game_id that are considered
          MaxGhosts   \* most ghosts of a new game (10 in game.c)

ASSUME LobbyAssumption ==
    /\ IsFiniteSet(Clients)
    /\ Leavers \subseteq Clients
    /\ NoGame \notin Slots
    /\ IsFiniteSet(Slots) /\ Cardinality(Slots) < 256
    /\ Ids \subseteq 0 .. 255
    /\ MaxGhosts \in Nat \ {0}

VARIABLES
    pc,        \* where each client_thread is
    me,        \* me->current, NoGame while `me' is NULL
    leaving,   \* the connection is closed: func_unreg(.., disconnected = 1)
    ptr,       \* the game a handler holds from one step to the next:
               \* `new', `_game' or `game_ptr->data'
    games,     \* the list of all games
    alloc,     \* the state of the memory at each address
    game_id, encours, start, joueurs, fantomes,  \* the fields of a game
    ready,     \* history: the thread has incremented its game's `start'
    crashed    \* the process was killed by a memory error

threadVars == <<pc, me, leaving, ptr, ready>>
fieldVars  == <<game_id, encours, start, joueurs, fantomes>>
shared     == <<games, alloc, fieldVars, crashed>>
vars       == <<threadVars, shared>>

InLobby  == {"lobby", "newpl", "newlink", "regis", "regadd", "unreg",
             "unregremove", "unregcount", "unregfree", "unregunlink", "start"}
Starting == {"startpos", "startcmp", "startset", "waiting"}
InPlay   == {"play", "move", "movecheck", "moveend"}
Quitting == {"nostart", "drain", "quit", "quitlast", "quitwalk",
             "quitunlink", "quitfree", "quitother"}
Locations == InLobby \cup Starting \cup {"woken"} \cup InPlay \cup Quitting
                     \cup {"end"}

Goto(t, l) == pc' = [pc EXCEPT ![t] = l]

\* getListCount of a game's players: the list keeps its length in a uint8_t.
Count(g) == Cardinality(joueurs[g]) % 256

\* The games whose memory is in use.
Live == {g \in Slots : alloc[g] = "live"}

Listed == {games[i] : i \in DOMAIN games}

\* What a walk of `games' may read as the id of each game: garbage once freed.
IdReadings == {seen \in [Listed -> Ids] :
                  \A g \in Listed \cap Live : seen[g] = game_id[g]}

\* The first game of the list that is read with id m (get_game and the loops
\* of func_unreg and quit_game), NoGame when the walk falls off the end.
FirstWithId(seen, m) ==
    LET first == {i \in DOMAIN games :
                     /\ seen[games[i]] = m
                     /\ \A j \in 1 .. i - 1 : seen[games[j]] # m}
    IN  IF first = {} THEN NoGame ELSE games[CHOOSE i \in first : TRUE]

\* A step that only moves thread t: a command taken, a test of shared state.
Jump(t, from, to) ==
    /\ pc[t] = from
    /\ Goto(t, to)
    /\ UNCHANGED <<me, leaving, ptr, ready, shared>>

-----------------------------------------------------------------------------
(* The commands a user sends while its thread waits for the next one.      *)

\* Mutant: REGIS is taken from a player that is registered already.
SendRegisTwice(t) == Jump(t, "lobby", "regis")

\* An address is kept for every thread that is about to allocate a game.
SendNewpl(t) ==
    /\ me[t] = NoGame
    /\ Cardinality({g \in Slots : alloc[g] = "none"})
          > Cardinality({u \in Clients : pc[u] = "newpl"})
    /\ Jump(t, "lobby", "newpl")

SendRegis(t) == me[t] = NoGame /\ Jump(t, "lobby", "regis")

SendUnreg(t) == t \in Leavers /\ me[t] # NoGame /\ Jump(t, "lobby", "unreg")

SendStart(t) == me[t] # NoGame /\ Jump(t, "lobby", "start")

\* START with a wrong end: DUNNO, but the command loop is left all the same.
SendBadStart(t) ==
    t \in Leavers /\ me[t] # NoGame /\ Jump(t, "lobby", "waiting")

\* recv returns 0.  A registered player is unregistered on the way out.
Disconnect(t) ==
    /\ t \in Leavers
    /\ pc[t] = "lobby"
    /\ IF me[t] = NoGame
       THEN Goto(t, "end") /\ UNCHANGED leaving
       ELSE Goto(t, "unreg") /\ leaving' = [leaving EXCEPT ![t] = TRUE]
    /\ UNCHANGED <<me, ptr, ready, shared>>

\* In the game the thread looks at encours once the header is read, before it
\* looks at the command or at the end of the connection.
SendMove(t)      == Jump(t, "play", "move") /\ encours[me[t]] # 2
SendIquit(t)     == Jump(t, "play", "quit") /\ encours[me[t]] # 2
SendTooLate(t)   == Jump(t, "play", "drain") /\ encours[me[t]] = 2
PlayHangUp(t)    == Jump(t, "play", "drain") /\ encours[me[t]] # 2

\* A client that was not welcomed sends nothing: its thread only leaves
\* recv(poubelle) when the connection is closed.
HangUp(t) == Jump(t, "nostart", "quit")

-----------------------------------------------------------------------------
(* NEWPL: new_game.                                                        *)

\* The id of a new game, from the walk that read the ids `seen': the next one
\* if the last game has the highest, else the first position whose game has
\* another id.  Nothing assigns it if every position is right: any byte.
NewIds(seen) ==
    LET n     == Len(games) % 256
        first == {i \in 1 .. n : /\ seen[games[i]] # i
                                 /\ \A j \in 1 .. i - 1 : seen[games[j]] = j}
    IN  IF n = 0 THEN {1}
        ELSE IF seen[Last(games)] = n THEN {(n + 1) % 256}
        ELSE IF first = {} THEN 0 .. 255
        ELSE first

\* The game is filled in, its ghosts placed and its id chosen...
NewAllocate(t) ==
    /\ pc[t] = "newpl"
    /\ \E g \in Slots, n \in 1 .. MaxGhosts, seen \in IdReadings :
          /\ alloc[g] = "none"
          /\ alloc' = [alloc EXCEPT ![g] = "live"]
          /\ \E m \in NewIds(seen) : game_id' = [game_id EXCEPT ![g] = m]
          /\ fantomes' = [fantomes EXCEPT ![g] = n]
          /\ ptr' = [ptr EXCEPT ![t] = g]
    /\ Goto(t, "newlink")
    /\ UNCHANGED <<me, leaving, ready, games, encours, start, joueurs, crashed>>

\* ... before it is appended to the list, with its creator as first player.
NewLink(t) ==
    /\ pc[t] = "newlink"
    /\ joueurs' = [joueurs EXCEPT ![ptr[t]] = {t}]
    /\ games' = Append(games, ptr[t])
    /\ me' = [me EXCEPT ![t] = ptr[t]]
    /\ ptr' = [ptr EXCEPT ![t] = NoGame]
    /\ Goto(t, "lobby")
    /\ UNCHANGED <<leaving, ready, alloc, game_id, encours, start, fantomes,
                   crashed>>

-----------------------------------------------------------------------------
(* REGIS m: register_game.                                                 *)

\* REGNO when no game has the id, or when it is being played.
RegisLookup(t) ==
    /\ pc[t] = "regis"
    /\ \E m \in Ids, seen \in IdReadings :
          LET g == FirstWithId(seen, m)
          IN  IF g = NoGame \/ encours[g] = 1
              THEN Goto(t, "lobby") /\ UNCHANGED ptr
              ELSE Goto(t, "regadd") /\ ptr' = [ptr EXCEPT ![t] = g]
    /\ UNCHANGED <<me, leaving, ready, shared>>

\* REGOK: the player is added to the game that was found.
RegisAdd(t) ==
    /\ pc[t] = "regadd"
    /\ ptr[t] \in Live
    /\ joueurs' = [joueurs EXCEPT ![ptr[t]] = @ \cup {t}]
    /\ me' = [me EXCEPT ![t] = ptr[t]]
    /\ ptr' = [ptr EXCEPT ![t] = NoGame]
    /\ Goto(t, "lobby")
    /\ UNCHANGED <<leaving, ready, games, alloc, game_id, encours, start,
                   fantomes, crashed>>

-----------------------------------------------------------------------------
(* UNREG***, or the end of the connection: func_unreg.                     *)

\* game_ptr is the first game of the list with the id of the player's game.
UnregLookup(t) ==
    /\ pc[t] = "unreg"
    /\ me[t] \in Live
    /\ \E seen \in IdReadings :
          ptr' = [ptr EXCEPT ![t] = FirstWithId(seen, game_id[me[t]])]
    /\ Goto(t, "unregremove")
    /\ UNCHANGED <<me, leaving, ready, shared>>

UnregRemove(t) ==
    /\ pc[t] = "unregremove"
    /\ me[t] \in Live
    /\ joueurs' = [joueurs EXCEPT ![me[t]] = @ \ {t}]
    /\ Goto(t, "unregcount")
    /\ UNCHANGED <<me, leaving, ptr, ready, games, alloc, game_id, encours,
                   start, fantomes, crashed>>

\* Nobody left: the game is to be freed.  Otherwise UNROK.
UnregEmpty(t) ==
    /\ Jump(t, "unregcount", "unregfree")
    /\ me[t] \in Live /\ Count(me[t]) = 0

\* Mutant: a player whose connection is closed leaves without looking back.
UnregDoneHasty(t) ==
    /\ \/ /\ pc[t] = "unregcount"
          /\ me[t] \in Live
          /\ leaving[t] \/ Count(me[t]) # 0
          /\ UNCHANGED games
       \/ /\ pc[t] = "unregunlink"
          /\ \E i \in DOMAIN games :
                games[i] = ptr[t] /\ games' = RemoveAt(games, i)
    /\ me' = [me EXCEPT ![t] = NoGame]
    /\ ptr' = [ptr EXCEPT ![t] = NoGame]
    /\ Goto(t, IF leaving[t] THEN "end" ELSE "lobby")
    /\ UNCHANGED <<leaving, ready, alloc, fieldVars, crashed>>

UnregDone(t) ==
    /\ \/ /\ pc[t] = "unregcount"
          /\ me[t] \in Live
          /\ Count(me[t]) # 0
          /\ UNCHANGED games
       \/ /\ pc[t] = "unregunlink"
          /\ \E i \in DOMAIN games :
                games[i] = ptr[t] /\ games' = RemoveAt(games, i)
    /\ me' = [me EXCEPT ![t] = NoGame]
    /\ ptr' = [ptr EXCEPT ![t] = NoGame]
    /\ Goto(t, IF leaving[t] THEN "end" ELSE "lobby")
    /\ UNCHANGED <<leaving, ready, alloc, fieldVars, crashed>>

\* freeGame(game_ptr->data), while the game is still in the list.
UnregFree(t) ==
    /\ pc[t] = "unregfree"
    /\ ptr[t] \in Live
    /\ alloc' = [alloc EXCEPT ![ptr[t]] = "freed"]
    /\ Goto(t, "unregunlink")
    /\ UNCHANGED <<me, leaving, ptr, ready, games, fieldVars, crashed>>

-----------------------------------------------------------------------------
(* START***: start_game, then the wait of client_thread.                   *)

StartIncrement(t) ==
    /\ pc[t] = "start"
    /\ me[t] \in Live
    /\ start' = [start EXCEPT ![me[t]] = @ + 1]
    /\ ready' = [ready EXCEPT ![t] = TRUE]
    /\ Goto(t, "startpos")
    /\ UNCHANGED <<me, leaving, ptr, games, alloc, game_id, encours, joueurs,
                   fantomes, crashed>>

\* Mutants: a single start is enough; two are not.
StartPlacedAlone(t) ==
    /\ Jump(t, "startpos", IF start[me[t]] > 0 THEN "startcmp" ELSE "waiting")
    /\ me[t] \in Live

StartPlacedThree(t) ==
    /\ Jump(t, "startpos", IF start[me[t]] > 2 THEN "startcmp" ELSE "waiting")
    /\ me[t] \in Live

\* init_pos_player is done: is there more than one start?
StartPlaced(t) ==
    /\ Jump(t, "startpos", IF start[me[t]] > 1 THEN "startcmp" ELSE "waiting")
    /\ me[t] \in Live

\* Mutant: the command loop goes on after START.
StartCompareNoBreak(t) ==
    /\ pc[t] = "startcmp"
    /\ me[t] \in Live
    /\ Jump(t, "startcmp",
            IF start[me[t]] = Count(me[t]) THEN "startset" ELSE "lobby")

\* Has every player of the list started?
StartCompare(t) ==
    /\ pc[t] = "startcmp"
    /\ me[t] \in Live
    /\ Jump(t, "startcmp",
            IF start[me[t]] = Count(me[t]) THEN "startset" ELSE "waiting")

StartSet(t) ==
    /\ pc[t] = "startset"
    /\ encours' = [encours EXCEPT ![me[t]] = 1]
    /\ Goto(t, "waiting")
    /\ UNCHANGED <<me, leaving, ptr, ready, games, alloc, game_id, start,
                   joueurs, fantomes, crashed>>

\* The busy wait ends at the first reading of encours that is not -1 ...
Wake(t) == Jump(t, "waiting", "woken") /\ encours[me[t]] # -1

\* ... and a second reading decides: WELCO and POSIT, or the way out.
Welcome(t) == Jump(t, "woken", "play") /\ encours[me[t]] = 1
NoStart(t) == Jump(t, "woken", "nostart") /\ encours[me[t]] # 1

-----------------------------------------------------------------------------
(* UPMOV, DOMOV, LEMOV, RIMOV: movPlayer, as far as the game's end goes.   *)

\* Mutant: a ghost may be removed that another player has removed.
CatchGhostsTwice(t) ==
    /\ pc[t] = "move"
    /\ me[t] \in Live
    /\ \E k \in 0 .. MaxGhosts :
          fantomes' = [fantomes EXCEPT ![me[t]] = @ - k]
    /\ Goto(t, "movecheck")
    /\ UNCHANGED <<me, leaving, ptr, ready, games, alloc, game_id, encours,
                   start, joueurs, crashed>>

\* MOVE!: the move catches some of the ghosts, or none.
CatchGhosts(t) ==
    /\ pc[t] = "move"
    /\ me[t] \in Live
    /\ \E k \in 0 .. fantomes[me[t]] :
          fantomes' = [fantomes EXCEPT ![me[t]] = @ - k]
    /\ Goto(t, "movecheck")
    /\ UNCHANGED <<me, leaving, ptr, ready, games, alloc, game_id, encours,
                   start, joueurs, crashed>>

\* Mutant: the move that catches the last but one ends the game.
MoveCheckEarly(t) ==
    /\ pc[t] = "movecheck"
    /\ me[t] \in Live
    /\ Jump(t, "movecheck",
            IF encours[me[t]] = 1 /\ fantomes[me[t]] <= 1
            THEN "moveend" ELSE "play")

\* Were they the last?  If not the ghosts move.
MoveCheck(t) ==
    /\ pc[t] = "movecheck"
    /\ me[t] \in Live
    /\ Jump(t, "movecheck",
            IF encours[me[t]] = 1 /\ fantomes[me[t]] = 0
            THEN "moveend" ELSE "play")

\* The game is over (and ENDGA is multicast).
EndGame(t) ==
    /\ pc[t] = "moveend"
    /\ me[t] \in Live
    /\ encours' = [encours EXCEPT ![me[t]] = 2]
    /\ Goto(t, "play")
    /\ UNCHANGED <<me, leaving, ptr, ready, games, alloc, game_id, start,
                   joueurs, fantomes, crashed>>

-----------------------------------------------------------------------------
(* IQUIT***, or the label nostart: quit_game, GOBYE and the end of the      *)
(* thread.                                                                 *)

\* recv(poubelle): the rest of the command that came too late.
Drain(t) == Jump(t, "drain", "quit")

QuitCount(t) ==
    /\ pc[t] = "quit"
    /\ me[t] \in Live
    /\ Jump(t, "quit", IF Count(me[t]) = 1 THEN "quitlast" ELSE "quitother")

\* Mutant: the last player empties the list.
QuitLastAll(t) ==
    /\ pc[t] = "quitlast"
    /\ me[t] \in Live
    /\ joueurs' = [joueurs EXCEPT ![me[t]] = {}]
    /\ Goto(t, "quitwalk")
    /\ UNCHANGED <<me, leaving, ptr, ready, games, alloc, game_id, encours,
                   start, fantomes, crashed>>

\* The last player removes the first of the list, which is itself: whoever
\* registered since was appended behind it.
QuitLast(t) ==
    /\ pc[t] = "quitlast"
    /\ me[t] \in Live
    /\ joueurs' = [joueurs EXCEPT ![me[t]] = @ \ {t}]
    /\ Goto(t, "quitwalk")
    /\ UNCHANGED <<me, leaving, ptr, ready, games, alloc, game_id, encours,
                   start, fantomes, crashed>>

\* The element to unlink is again the first with the id of the game.
QuitLookup(t) ==
    /\ pc[t] = "quitwalk"
    /\ me[t] \in Live
    /\ \E seen \in IdReadings :
          ptr' = [ptr EXCEPT ![t] = FirstWithId(seen, game_id[me[t]])]
    /\ Goto(t, "quitunlink")
    /\ UNCHANGED <<me, leaving, ready, shared>>

\* removeEl does nothing on NULL.
QuitUnlink(t) ==
    /\ pc[t] = "quitunlink"
    /\ \/ ptr[t] = NoGame /\ UNCHANGED games
       \/ \E i \in DOMAIN games :
             games[i] = ptr[t] /\ games' = RemoveAt(games, i)
    /\ Goto(t, "quitfree")
    /\ UNCHANGED <<me, leaving, ptr, ready, alloc, fieldVars, crashed>>

QuitFree(t) ==
    /\ pc[t] = "quitfree"
    /\ me[t] \in Live
    /\ alloc' = [alloc EXCEPT ![me[t]] = "freed"]
    /\ me' = [me EXCEPT ![t] = NoGame]
    /\ ptr' = [ptr EXCEPT ![t] = NoGame]
    /\ Goto(t, "end")
    /\ UNCHANGED <<leaving, ready, games, fieldVars, crashed>>

\* There were others: only the player leaves the list.
QuitOther(t) ==
    /\ pc[t] = "quitother"
    /\ me[t] \in Live
    /\ joueurs' = [joueurs EXCEPT ![me[t]] = @ \ {t}]
    /\ me' = [me EXCEPT ![t] = NoGame]
    /\ Goto(t, "end")
    /\ UNCHANGED <<leaving, ptr, ready, games, alloc, game_id, encours, start,
                   fantomes, crashed>>

-----------------------------------------------------------------------------
(* The step that kills the process: thread t follows a pointer into a game  *)
(* that was freed, frees a game twice, or unlinks an element twice.         *)

Dangling(t) ==
    \/ /\ pc[t] \in {"unreg", "unregremove", "unregcount", "start", "startpos",
                     "startcmp", "move", "movecheck", "moveend", "quit",
                     "quitlast", "quitwalk", "quitfree", "quitother"}
       /\ me[t] \notin Live
    \/ pc[t] = "regadd" /\ ptr[t] \notin Live
    \/ pc[t] = "unregfree" /\ ptr[t] \notin Live
    \/ pc[t] = "unregunlink" /\ ptr[t] \notin Listed
    \/ pc[t] = "quitunlink" /\ ptr[t] \notin Listed \cup {NoGame}

Crash(t) ==
    /\ Dangling(t)
    /\ crashed' = TRUE
    /\ UNCHANGED <<threadVars, games, alloc, fieldVars>>

-----------------------------------------------------------------------------
Init ==
    /\ pc      = [t \in Clients |-> "lobby"]
    /\ me      = [t \in Clients |-> NoGame]
    /\ leaving = [t \in Clients |-> FALSE]
    /\ ptr     = [t \in Clients |-> NoGame]
    /\ ready   = [t \in Clients |-> FALSE]
    /\ games   = <<>>
    /\ alloc    = [g \in Slots |-> "none"]
    /\ game_id  = [g \in Slots |-> 0]
    /\ encours  = [g \in Slots |-> -1]
    /\ start    = [g \in Slots |-> 0]
    /\ joueurs  = [g \in Slots |-> {}]
    /\ fantomes = [g \in Slots |-> 0]
    /\ crashed = FALSE

\* What the user at the other end of t's connection may do.
User(t) ==
    \/ SendNewpl(t) \/ SendRegis(t) \/ SendUnreg(t)
    \/ SendStart(t) \/ SendBadStart(t) \/ Disconnect(t)
    \/ SendMove(t) \/ SendIquit(t) \/ SendTooLate(t) \/ PlayHangUp(t)
    \/ HangUp(t)

\* What thread t does on its own.
Server(t) ==
    \/ NewAllocate(t) \/ NewLink(t)
    \/ RegisLookup(t) \/ RegisAdd(t)
    \/ UnregLookup(t) \/ UnregRemove(t) \/ UnregEmpty(t) \/ UnregFree(t) \/ UnregDone(t)
    \/ StartIncrement(t) \/ StartPlaced(t) \/ StartCompare(t) \/ StartSet(t)
    \/ Wake(t) \/ Welcome(t) \/ NoStart(t)
    \/ CatchGhosts(t) \/ MoveCheck(t) \/ EndGame(t)
    \/ Drain(t) \/ QuitCount(t) \/ QuitLast(t) \/ QuitLookup(t)
    \/ QuitUnlink(t) \/ QuitFree(t) \/ QuitOther(t)
    \/ Crash(t)

Next == ~crashed /\ \E t \in Clients : User(t) \/ Server(t)

Spec == Init /\ [][Next]_vars

\* The scheduler runs every thread; nothing makes a user send a command.
Fairness == \A t \in Clients : WF_vars(~crashed /\ Server(t))
FairSpec == Spec /\ Fairness

-----------------------------------------------------------------------------
TypeOK ==
    /\ pc \in [Clients -> Locations]
    /\ me \in [Clients -> Slots \cup {NoGame}]
    /\ leaving \in [Clients -> BOOLEAN]
    /\ ptr \in [Clients -> Slots \cup {NoGame}]
    /\ ready \in [Clients -> BOOLEAN]
    /\ games \in Seq(Slots)
    /\ alloc \in [Slots -> {"none", "live", "freed"}]
    /\ game_id \in [Slots -> 0 .. 255]
    /\ encours \in [Slots -> {-1, 1, 2}]
    /\ start \in [Slots -> Nat]
    /\ joueurs \in [Slots -> SUBSET Clients]
    /\ fantomes \in [Slots -> 0 .. MaxGhosts]
    /\ crashed \in BOOLEAN

\* A thread's position tells what its pointers hold and what it has done.
NoPlayerYet == {"newpl", "newlink", "regis", "regadd", "end"}
Seatless    == {"unregcount", "unregfree", "unregunlink",
                "quitwalk", "quitunlink", "quitfree"}

PointersOK ==
    \A t \in Clients :
        /\ pc[t] \in NoPlayerYet => me[t] = NoGame
        /\ pc[t] \notin NoPlayerYet \cup {"lobby"} => me[t] \in Slots
        /\ pc[t] \in {"newlink", "regadd"} => ptr[t] \in Slots
        /\ \A g \in Slots : g \in {me[t], ptr[t]} => alloc[g] # "none"

\* A game that no thread but its creator's can have found is as malloc'ed.
Untouched(g) == joueurs[g] = {} /\ start[g] = 0 /\ encours[g] = -1

FreshOK ==
    /\ \A g \in Listed : alloc[g] # "none"
    /\ \A g \in Slots : alloc[g] = "none" => Untouched(g)
    /\ \A t \in Clients : pc[t] = "newlink" =>
           /\ Untouched(ptr[t]) /\ ptr[t] \notin Listed /\ alloc[ptr[t]] = "live"
           /\ \A u \in Clients \ {t} : ptr[t] \notin {me[u], ptr[u]}

ProgressOK ==
    \A t \in Clients :
        /\ ready[t] => pc[t] \notin InLobby
        /\ pc[t] \in {"startcmp", "startset"} => start[me[t]] > 1
        /\ pc[t] \in {"startpos", "startcmp", "startset"} => ready[t]
        /\ pc[t] \in {"woken"} \cup InPlay \cup Quitting
              => encours[me[t]] # -1
        /\ pc[t] = "moveend" => fantomes[me[t]] = 0

Starters(g) == {t \in joueurs[g] : ready[t]}

\* "Le demarrage d'une partie necessite deux joueurs" (README): when a game
\* begins, whatever registrations, departures and starts race with the test
\* of start_game, two different players of the game have validated it.
BeginNeedsTwo ==
    [][\A g \in Slots :
          encours[g] = -1 /\ encours'[g] = 1
             => \E a, b \in Starters(g) : a # b]_vars

\* start_game compares two counters that are kept apart, start and the
\* length of the list.  Until the game begins, start is the number of players
\* of the list that validated: none of them can have left it.
StartCountsStarters ==
    \A g \in Slots :
        encours[g] = -1 => start[g] = Cardinality(Starters(g))

\* Between registering (NEWPL, REGIS) and being removed (UNREG, IQUIT, end of
\* the connection) a player is in the list of exactly one game, the one its
\* thread points to.
SeatedOnce ==
    \A t \in Clients : \A g \in Slots :
        t \in joueurs[g] <=>
            me[t] = g /\ pc[t] \notin Seatless

\* A thread tests the number of ghosts and only later ends the game: a game
\* that is over has none left all the same.
EndedMeansCaught ==
    \A g \in Slots : encours[g] = 2 => fantomes[g] = 0

\* What makes the safety properties inductive.
IInv ==
    /\ TypeOK /\ PointersOK /\ FreshOK /\ ProgressOK
    /\ SeatedOnce /\ StartCountsStarters /\ EndedMeansCaught

\* Two players or more are registered and all of them have validated.
AllReady(g) ==
    /\ ~crashed
    /\ alloc[g] = "live" /\ encours[g] = -1
    /\ Cardinality(joueurs[g]) > 1
    /\ \A t \in joueurs[g] : ready[t]

\* A game whose players have all validated, two of them at least, begins
\* (start_game), unless somebody registers or the process dies.  It takes that
\* nobody leaves: see the runs.
ReadyGameBegins == \A g \in Slots : AllReady(g) ~> ~AllReady(g)

\* A player that waits while its game begins is answered WELCO, so that its
\* client, which reads until that answer (readyPlay), can play.
ValidatedIsWelcomed ==
    \A t \in Clients :
        pc[t] = "waiting" /\ encours[me[t]] = 1 ~> pc[t] = "play" \/ crashed

\* No thread follows a pointer into a game that another thread has freed.
NoUseAfterFree == ~crashed

\* A game that no player is in, and that no thread has a pointer to.
Abandoned(g) ==
    /\ g \in Listed \cap Live /\ joueurs[g] = {}
    /\ \A t \in Clients : g \notin {me[t], ptr[t]}

\* Another game has, or had before it was freed, the same id.
HasTwin(g) ==
    \E h \in Slots \ {g} : alloc[h] # "none" /\ game_id[h] = game_id[g]

\* Whatever departures race in func_unreg, the last player of a game that has
\* not begun sees that the list is empty and frees the game, unless another
\* game was given the same id.  It takes that the player leaves the list
\* before it counts: quit_game counts first, and two that quit at once leave
\* the game behind.
AbandonedIsFreed ==
    \A g \in Slots : Abandoned(g) /\ encours[g] = -1 => HasTwin(g)

\* The phase of a game in the words of Partie.
Phase(g) == IF alloc[g] # "live" THEN alloc[g]
            ELSE IF encours[g] = -1 THEN "waiting"
            ELSE IF encours[g] = 1 THEN "running" ELSE "over"

\* At every address the threads of the server, all of them together, run the
\* life of one game.
ThePartie(g) == INSTANCE Partie WITH Joueurs  <- Clients,
                                     phase    <- Phase(g),
                                     inscrits <- joueurs[g],
                                     valides  <- Starters(g),
                                     fantomes <- fantomes[g]
Implements ==
    /\ \A g \in Slots : ThePartie(g)!Init
    /\ [][\A g \in Slots : [ThePartie(g)!Next]_(ThePartie(g)!vars)]_vars
=============================================================================
