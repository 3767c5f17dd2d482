------------------------------ MODULE Session ------------------------------
(***************************************************************************)
(* One connection: the menus of the Java client (PlayerTCP), its requests  *)
(* and the readers of their answers (MessagePlayer), against the thread    *)
(* that serves it (client_thread and the replies of funct_aux.c), while    *)
(* the other players create, join, begin, end and leave games.             *)
(*                                                                         *)
(* TCP keeps the order of bytes, and each side counts on it: the client    *)
(* sends a request and takes the next message of the stream for its answer.*)
(* A message ends at the third byte `*' in a row.  A reply is a record of  *)
(* its name h and of its last field n, when that is one byte; an n of 42   *)
(* is a `*', and the reader stops one byte early (left).  A reply that     *)
(* lists something announces how many messages follow.                     *)
(*                                                                         *)
(* Not in this module: the choice of ids, shared ids and freed games       *)
(* (Lobby), the moves (Hunt), and removals under a walk (Liste).           *)
(***************************************************************************)
EXTENDS Integers, Sequences, FiniteSets, SequencesExt

CONSTANTS Ids,         \* the ids of games that are considered
          NoGame,      \* NULL
          MaxJoueurs,  \* bound: most players of a game
          MaxBacklog,  \* bound: a client that has more unread messages than
                       \* this asks for nothing
          Faults       \* "race": other players act while a list is sent;
                       \* "short": recv returns a part of a request;
                       \* "long": a message of more bytes than characters

ASSUME SessionAssumption ==
    /\ Ids \subseteq 0 .. 255 /\ IsFiniteSet(Ids) /\ Cardinality(Ids) < 128
    /\ NoGame \notin Ids
    /\ MaxJoueurs \in 1 .. 126 /\ MaxBacklog \in Nat
    /\ Faults \subseteq {"race", "short", "long"}

VARIABLES
    status,    \* client: 1 no game, 2 registered, 3 playing, 4 the end
    asking,    \* client: whose answer it reads, "none" at a menu
    toread,    \* client: messages of a list that are still to be read
    left,      \* client: a `*' of the last message was not read
    requests, replies,    \* what each side has sent and the other not read
    at,        \* server: where client_thread is
    me,        \* server: me->current, NoGame while `me' is NULL
    i, ptr,    \* server: counter and element of the loop over a list
    games_waiting,        \* server: the local of func_send_games
    games,     \* the list of all games
    astray     \* history: something has happened that may part the two sides

client == <<status, asking, toread, left>>
server == <<at, me, i, ptr, games_waiting>>
vars   == <<client, requests, replies, server, games, astray>>

\* How replies begin.
Heads == {"GAMES", "OGAME", "REGOK", "REGNO", "UNROK", "DUNNO", "SIZE!", "LIST!", "PLAYR",
          "WELCO", "POSIT", "MOVE!", "GLIS!", "GPLYR", "MALL!", "SEND!", "NSEND", "GOBYE"}

Star    == 42
NoReply == [h |-> "DUNNO", n |-> 0]
Junk    == [req |-> "junk", m |-> NoGame]

Listings  == {"GAME?", "LIST?", "GLIS?"}
InLobby   == {"NEWPL", "REGIS", "UNREG", "START", "SIZE?", "LIST?", "GAME?"}
InGame    == {"MOV", "IQUIT", "GLIS?", "MALL?", "SEND?"}
Games     == {"count", "rewind", "ogame"}     \* func_send_games
Ended     == {"closed", "dead"}
Walks     == Games \cup {"playr", "gplyr"}    \* ... send_list, send_glis

Game(m)  == CHOOSE k \in DOMAIN games : games[k].id = m
Exists(m) == \E k \in DOMAIN games : games[k].id = m
Waits(k) == games[k].encours = -1
Unused   == {m \in Ids : ~Exists(m)}

\* A game that has begun is in front of one that waits.
Blocked == \E j, k \in DOMAIN games : j < k /\ ~Waits(j) /\ Waits(k)

\* The first element, the next one: 0 is NULL.
First   == IF games = <<>> THEN 0 ELSE 1
After(k) == IF k < Len(games) THEN k + 1 ELSE 0

\* A player more, or less, in game k; the last to leave frees it.
Joined(k) == [games EXCEPT ![k].joueurs = @ + 1]
Left(k)   == IF games[k].joueurs = 1 THEN RemoveAt(games, k)
             ELSE [games EXCEPT ![k].joueurs = @ - 1]

Send(h, n) == replies' = Append(replies, [h |-> h, n |-> n])

-----------------------------------------------------------------------------
(* The client sends a request.                                             *)

\* Nobody reads what is sent once the connection is closed.
Write(req, bytes) ==
    /\ asking = "none" /\ Len(replies) <= MaxBacklog
    /\ asking' = req
    /\ requests' = IF at \in Ended THEN requests ELSE requests \o bytes
    /\ UNCHANGED <<status, toread, left, replies, server, games>>

Ask(s, req, m) ==
    /\ status \in s /\ UNCHANGED astray
    /\ Write(req, <<[req |-> req, m |-> m]>>)

CreateGame  == Unused # {} /\ Ask({1}, "NEWPL", NoGame)
JoinGame    == \E m \in Ids : Ask({1}, "REGIS", m)
SizeMaze    == \E m \in Ids : Ask({1, 2}, "SIZE?", m)
ListPlayer  == \E m \in Ids : Ask({1, 2}, "LIST?", m)
ListGame    == Ask({1, 2}, "GAME?", NoGame)
UnReadyPlay == Ask({1, 2}, "UNREG", NoGame)
ReadyPlay   == Ask({2}, "START", NoGame)
QuitGame    == Ask({3}, "IQUIT", NoGame)
GoMove      == Ask({3}, "MOV", NoGame)
ListPlayerInGame == Ask({3}, "GLIS?", NoGame)
MessPlayers == \E req \in {"MALL?", "SEND?"} : Ask({3}, req, NoGame)

\* The menu counts 200 characters, the server 200 bytes: the end of a longer
\* message stays in the stream.  (Of the faults the first one is followed.)
MessTooLong ==
    /\ "long" \in Faults /\ ~astray
    /\ status = 3 /\ astray' = TRUE
    /\ \E req \in {"MALL?", "SEND?"} : Write(req, <<[req |-> req, m |-> NoGame], Junk>>)

-----------------------------------------------------------------------------
(* The client reads.                                                       *)

\* readFirstMessage: up to the third `*'.
ReadFirstMessage ==
    /\ replies # <<>>
    /\ replies' = Tail(replies)
    /\ left' = (Head(replies).n = Star)
    /\ astray' = (astray \/ left')
    /\ UNCHANGED <<requests, server, games>>

\* How the message that was read begins.
Got(h) == ~left /\ Head(replies).h = h

\* Mutant: the loop over the entries goes from 1 to n - 1.
ReadEntriesOneLess(n) ==
    /\ toread' = IF n > 0 /\ n < 128 THEN n - 1 ELSE 0
    /\ asking' = IF toread' = 0 THEN "none" ELSE "entries"

\* A list of n messages: n is a byte with a sign.
ReadEntries(n) ==
    /\ toread' = IF n < 128 THEN n ELSE 0
    /\ asking' = IF toread' = 0 THEN "none" ELSE "entries"

\* Mutant: the answer is not looked at.
RegisteredAnyway ==
    /\ asking \in {"NEWPL", "REGIS"} /\ ReadFirstMessage
    /\ asking' = "none" /\ status' = 2
    /\ UNCHANGED toread

ReadRegistration ==
    /\ asking \in {"NEWPL", "REGIS"} /\ ReadFirstMessage
    /\ asking' = "none"
    /\ status' = IF Got("REGOK") THEN 2 ELSE status
    /\ UNCHANGED toread

ReadUnregistration ==
    /\ asking = "UNREG" /\ ReadFirstMessage
    /\ asking' = "none"
    /\ status' = IF Got("UNROK") THEN 1 ELSE status
    /\ UNCHANGED toread

ReadSize ==
    /\ asking = "SIZE?" /\ ReadFirstMessage
    /\ asking' = "none"
    /\ UNCHANGED <<status, toread>>

\* The message says how many others follow: GAMES n, LIST! m n, GLIS! n.
Announced == \/ asking = "GAME?" /\ Got("GAMES")
             \/ asking = "LIST?" /\ Got("LIST!")
             \/ asking = "GLIS?" /\ Got("GLIS!")

ReadList ==
    /\ asking \in Listings /\ ReadFirstMessage
    /\ IF Announced
         THEN ReadEntries(Head(replies).n) /\ UNCHANGED status
         ELSE /\ asking' = "none" /\ UNCHANGED toread
              /\ status' = IF Got("GOBYE") /\ asking = "GLIS?" THEN 4 ELSE status

ReadEntry ==
    /\ asking = "entries" /\ ReadFirstMessage
    /\ toread' = toread - 1
    /\ asking' = IF toread = 1 THEN "none" ELSE "entries"
    /\ UNCHANGED status

\* initPlayer counts the bytes instead: GAMES n, an unsigned byte, and OGAMEs.
InitPlayer ==
    /\ asking \in {"greeting", "greeted"}
    /\ replies # <<>> /\ replies' = Tail(replies)
    /\ toread' = IF asking = "greeting" THEN Head(replies).n ELSE toread - 1
    /\ asking' = IF toread' = 0 THEN "none" ELSE "greeted"
    /\ UNCHANGED <<status, left, requests, server, games, astray>>

\* readyPlay reads until it gets WELCO, getposIT then reads POSIT.
ReadWelcome ==
    /\ asking = "START" /\ ReadFirstMessage
    /\ asking' = IF Got("WELCO") THEN "POSIT" ELSE "START"
    /\ UNCHANGED <<status, toread>>

ReadPosition ==
    /\ asking = "POSIT" /\ ReadFirstMessage
    /\ asking' = "none"
    /\ status' = IF Got("POSIT") THEN 3 ELSE 2
    /\ UNCHANGED toread

\* GOBYE ends the session, wherever it is the answer, except to SEND?.
ReadInGame ==
    /\ asking \in {"IQUIT", "MOV", "MALL?", "SEND?"} /\ ReadFirstMessage
    /\ asking' = "none"
    /\ status' = IF Got("GOBYE") /\ asking # "SEND?" THEN 4 ELSE status
    /\ UNCHANGED toread

\* After the end of the stream every read gives null: the request has failed,
\* but readyPlay goes on reading, and initPlayer and getposIT end the client.
ReadNothing ==
    /\ at \in Ended /\ replies = <<>>
    /\ asking \notin {"none", "START"}
    /\ asking' = "none"
    /\ toread' = 0
    /\ status' = IF asking \in {"POSIT", "greeting", "greeted"} THEN 4 ELSE status
    /\ UNCHANGED <<left, requests, replies, server, games, astray>>

-----------------------------------------------------------------------------
(* The server reads a request and answers.                                 *)

Take(loc, req) ==
    /\ at = loc /\ requests # <<>> /\ Head(requests).req = req
    /\ requests' = Tail(requests)
    /\ UNCHANGED client

\* Most handlers go back to the loop that called them.
Stay == UNCHANGED <<at, me, i, ptr, games_waiting>>
Goto(l) == at' = l /\ UNCHANGED <<me, i, ptr, games_waiting>>

NewGame ==
    /\ Take("lobby", "NEWPL") /\ me = NoGame
    /\ \E m \in Unused :
          /\ games' = Append(games, [id |-> m, encours |-> -1, joueurs |-> 1])
          /\ me' = m
          /\ Send("REGOK", m)
    /\ UNCHANGED <<at, i, ptr, games_waiting, astray>>

\* "block if game already started": one that is over is not blocked.
RegisterGame ==
    /\ Take("lobby", "REGIS") /\ me = NoGame
    /\ LET m == Head(requests).m IN
       IF Exists(m) /\ games[Game(m)].encours # 1
         THEN me' = m /\ games' = Joined(Game(m)) /\ Send("REGOK", m)
         ELSE UNCHANGED <<me, games>> /\ Send("REGNO", 0)
    /\ UNCHANGED <<at, i, ptr, games_waiting, astray>>

\* Mutant: client_thread does not take over the NULL that func_unreg returns.
FuncUnregKeepsMe ==
    /\ Take("lobby", "UNREG")
    /\ IF me = NoGame
         THEN UNCHANGED games /\ Send("DUNNO", 0)
         ELSE games' = Left(Game(me)) /\ Send("UNROK", me)
    /\ UNCHANGED <<me, at, i, ptr, games_waiting, astray>>

FuncUnreg ==
    /\ Take("lobby", "UNREG")
    /\ IF me = NoGame
         THEN UNCHANGED <<me, games>> /\ Send("DUNNO", 0)
         ELSE me' = NoGame /\ games' = Left(Game(me)) /\ Send("UNROK", me)
    /\ UNCHANGED <<at, i, ptr, games_waiting, astray>>

\* start_game follows `me' without a test.
StartGame ==
    /\ Take("lobby", "START")
    /\ Goto(IF me = NoGame THEN "dead" ELSE "waiting")
    /\ UNCHANGED <<replies, games, astray>>

\* Mutant: nothing is sent for a game that does not exist.
SilentSize ==
    /\ Take("lobby", "SIZE?")
    /\ IF Exists(Head(requests).m) THEN Send("SIZE!", 0) ELSE UNCHANGED replies
    /\ Stay /\ UNCHANGED <<games, astray>>

GetSizeMap ==
    /\ Take("lobby", "SIZE?")
    /\ IF Exists(Head(requests).m) THEN Send("SIZE!", 0) ELSE Send("DUNNO", 0)
    /\ Stay /\ UNCHANGED <<games, astray>>

SendList ==
    /\ Take("lobby", "LIST?")
    /\ LET m == Head(requests).m IN
       IF Exists(m)
         THEN /\ at' = "playr" /\ i' = 0 /\ ptr' = Game(m)
              /\ Send("LIST!", games[Game(m)].joueurs)
              /\ UNCHANGED <<me, games_waiting>>
         ELSE Stay /\ Send("DUNNO", 0)
    /\ UNCHANGED <<games, astray>>

\* func_send_games, also called when the connection begins.
SendGames ==
    /\ \/ at = "accept" /\ UNCHANGED <<client, requests>>
       \/ Take("lobby", "GAME?")
    /\ at' = "count" /\ i' = 0 /\ ptr' = First /\ games_waiting' = 0
    /\ astray' = (astray \/ Blocked)
    /\ UNCHANGED <<me, replies, games>>

SendGlis ==
    /\ Take("play", "GLIS?") /\ games[Game(me)].encours # 2
    /\ at' = "gplyr" /\ i' = 0 /\ ptr' = Game(me)
    /\ Send("GLIS!", games[Game(me)].joueurs)
    /\ UNCHANGED <<me, games_waiting, games, astray>>

SendAll ==
    /\ Take("play", "MALL?") /\ games[Game(me)].encours # 2
    /\ Send("MALL!", 0)
    /\ Stay /\ UNCHANGED <<games, astray>>

SendMess ==
    /\ Take("play", "SEND?") /\ games[Game(me)].encours # 2
    /\ Send("SEND!", 0) \/ Send("NSEND", 0)
    /\ Stay /\ UNCHANGED <<games, astray>>

MovPlayer ==
    /\ Take("play", "MOV") /\ games[Game(me)].encours # 2
    /\ Send("MOVE!", 0)
    /\ Stay /\ UNCHANGED <<games, astray>>

\* quit_game: after IQUIT, after any request once the game is over, and at
\* nostart; what else is in the stream is thrown away with the connection.
Quit ==
    /\ at \in {"play", "nostart"} /\ requests # <<>>
    /\ \/ at = "nostart" \/ Head(requests).req = "IQUIT"
       \/ games[Game(me)].encours = 2
    /\ requests' = <<>>
    /\ Send("GOBYE", 0)
    /\ at' = "closed" /\ me' = NoGame /\ games' = Left(Game(me))
    /\ UNCHANGED <<client, i, ptr, games_waiting, astray>>

\* A command that is not one of this loop, or that `me' forbids: its bytes
\* are taken for heads, five at a time; two answers stand for all of them.
Reject ==
    /\ at \in {"lobby", "play"} /\ requests # <<>>
    /\ LET req == Head(requests).req IN
       \/ at = "lobby" /\ req \notin InLobby
       \/ at = "lobby" /\ req \in {"NEWPL", "REGIS"} /\ me # NoGame
       \/ at = "play" /\ req \notin InGame /\ games[Game(me)].encours # 2
    /\ requests' = Tail(requests)
    /\ \E dunnos \in {<<NoReply>>, <<NoReply, NoReply>>} :
          replies' = replies \o dunnos
    /\ UNCHANGED <<client, server, games, astray>>

\* What a handler sends when recv gives less than it asked for.
OnShort(req) ==
    CASE req = "SIZE?" -> {<<NoReply, NoReply>>, <<NoReply, [h |-> "SIZE!", n |-> 0]>>}
      [] req = "MOV"   -> {d \o <<[h |-> "MOVE!", n |-> 0]>> :
                              d \in {<<NoReply>>, <<NoReply, NoReply>>}}
      [] req = "MALL?" -> {<<[h |-> "MALL!", n |-> 0]>>}
      [] req = "SEND?" -> {<<[h |-> "SEND!", n |-> 0]>>, <<[h |-> "NSEND", n |-> 0]>>}
      [] OTHER         -> {<<NoReply>>}

\* The rest of the request is read later, as a command.  A short START leaves
\* the command loop like a good one; a short IQUIT is followed by Quit.
ShortRead ==
    /\ "short" \in Faults /\ ~astray
    /\ at \in {"lobby", "play"} /\ requests # <<>>
    /\ LET req == Head(requests).req IN
       /\ req \in (IF at = "lobby" THEN InLobby ELSE InGame)
       /\ at = "play" => games[Game(me)].encours # 2 /\ req # "IQUIT"
       /\ \E answers \in OnShort(req) : replies' = replies \o answers
       /\ Goto(IF req # "START" THEN at ELSE IF me = NoGame THEN "dead" ELSE "waiting")
    /\ requests' = <<Junk>> \o Tail(requests)
    /\ astray' = TRUE
    /\ UNCHANGED <<client, games>>

-----------------------------------------------------------------------------
(* The server sends a list.                                                *)

\* The counters go out of scope.
LeaveLoop(l) == at' = l /\ i' = 0 /\ ptr' = 0 /\ games_waiting' = 0

\* The first loop of func_send_games: one turn, or GAMES n after the last.
CountGames ==
    /\ at = "count"
    /\ \/ /\ i < Len(games) /\ ptr # 0
          /\ games_waiting' = games_waiting + (IF Waits(ptr) THEN 1 ELSE 0)
          /\ ptr' = After(ptr) /\ i' = i + 1
          /\ UNCHANGED <<at, replies>>
       \/ /\ i < Len(games) /\ ptr = 0
          /\ LeaveLoop("dead") /\ UNCHANGED replies
       \/ /\ i >= Len(games)
          /\ at' = "rewind"
          /\ Send("GAMES", games_waiting)
          /\ UNCHANGED <<i, ptr, games_waiting>>
    /\ UNCHANGED <<client, requests, me, games, astray>>

Rewind ==
    /\ at = "rewind"
    /\ at' = "ogame" /\ i' = 0 /\ ptr' = First
    /\ UNCHANGED <<client, requests, replies, me, games_waiting, games, astray>>

\* The second loop moves on only behind a game that waits.
SendGame ==
    /\ at = "ogame"
    /\ \/ /\ i < Len(games) /\ ptr # 0
          /\ IF Waits(ptr)
               THEN Send("OGAME", games[ptr].joueurs) /\ ptr' = After(ptr)
               ELSE UNCHANGED <<replies, ptr>>
          /\ i' = i + 1 /\ UNCHANGED <<at, games_waiting>>
       \/ /\ i < Len(games) /\ ptr = 0
          /\ LeaveLoop("dead") /\ UNCHANGED replies
       \/ /\ i >= Len(games)
          /\ LeaveLoop("lobby") /\ UNCHANGED replies
    /\ UNCHANGED <<client, requests, me, games, astray>>

\* Mutant: the loop ends one player early.
SendPlayerButLast ==
    /\ at \in {"playr", "gplyr"}
    /\ IF i + 1 < games[ptr].joueurs
         THEN /\ Send(IF at = "playr" THEN "PLAYR" ELSE "GPLYR", 0)
              /\ i' = i + 1 /\ UNCHANGED <<at, ptr, games_waiting>>
         ELSE /\ LeaveLoop(IF at = "playr" THEN "lobby" ELSE "play")
              /\ UNCHANGED replies
    /\ UNCHANGED <<client, requests, me, games, astray>>

\* The loops of send_list and send_glis over the players of a game.
SendPlayer ==
    /\ at \in {"playr", "gplyr"}
    /\ IF i < games[ptr].joueurs
         THEN /\ Send(IF at = "playr" THEN "PLAYR" ELSE "GPLYR", 0)
              /\ i' = i + 1 /\ UNCHANGED <<at, ptr, games_waiting>>
         ELSE /\ LeaveLoop(IF at = "playr" THEN "lobby" ELSE "play")
              /\ UNCHANGED replies
    /\ UNCHANGED <<client, requests, me, games, astray>>

-----------------------------------------------------------------------------
(* After START: the busy wait, and the second reading of encours.          *)

Wake ==
    /\ at = "waiting" /\ ~Waits(Game(me))
    /\ Goto("woken")
    /\ UNCHANGED <<client, requests, replies, games, astray>>

SendWelco ==
    /\ at = "woken" /\ games[Game(me)].encours = 1
    /\ Goto("play")
    /\ replies' = replies \o <<[h |-> "WELCO", n |-> 0], [h |-> "POSIT", n |-> 0]>>
    /\ UNCHANGED <<client, requests, games, astray>>

NoStart ==
    /\ at = "woken" /\ games[Game(me)].encours # 1
    /\ Goto("nostart")
    /\ astray' = TRUE
    /\ UNCHANGED <<client, requests, replies, games>>

-----------------------------------------------------------------------------
(* The threads of the other players.                                       *)

\* They change the list of games: that parts the two sides when the list is
\* being sent.
Others(list) ==
    /\ at \in Walks => "race" \in Faults
    /\ games' = list
    /\ astray' = (astray \/ at \in Walks)
    /\ UNCHANGED <<client, requests, replies, server>>

\* One id is kept for the game that this client may create.
OtherCreates ==
    /\ me = NoGame => Cardinality(Unused) > 1
    /\ \E m \in Unused :
          Others(Append(games, [id |-> m, encours |-> -1, joueurs |-> 1]))

OtherJoins ==
    \E k \in DOMAIN games :
       /\ games[k].encours # 1 /\ games[k].joueurs < MaxJoueurs
       /\ Others(Joined(k))

\* No game is freed under a walk of this thread (that is in Liste).
OtherLeaves ==
    \E k \in DOMAIN games :
       /\ games[k].joueurs > (IF games[k].id = me THEN 1 ELSE 0)
       /\ at \in Walks => games[k].joueurs > 1
       /\ Others(Left(k))

\* A game of two or more begins when all of its players have validated ...
OtherBegins ==
    \E k \in DOMAIN games :
       /\ Waits(k) /\ games[k].joueurs > 1
       /\ games[k].id = me => at = "waiting"
       /\ Others([games EXCEPT ![k].encours = 1])

\* ... and ends with the last ghost.
OtherEnds ==
    \E k \in DOMAIN games :
       /\ games[k].encours = 1
       /\ Others([games EXCEPT ![k].encours = 2])

-----------------------------------------------------------------------------
Init ==
    /\ status = 1 /\ asking = "greeting" /\ toread = 0 /\ left = FALSE
    /\ requests = <<>> /\ replies = <<>>
    /\ at = "accept" /\ me = NoGame /\ i = 0 /\ ptr = 0 /\ games_waiting = 0
    /\ games = <<>>
    /\ astray = FALSE

Menu == \/ CreateGame \/ JoinGame \/ SizeMaze \/ ListPlayer \/ ListGame
        \/ UnReadyPlay \/ ReadyPlay \/ QuitGame \/ GoMove
        \/ ListPlayerInGame \/ MessPlayers \/ MessTooLong

Reader == \/ ReadRegistration \/ ReadUnregistration \/ ReadSize \/ ReadList
          \/ ReadEntry \/ InitPlayer \/ ReadWelcome \/ ReadPosition
          \/ ReadInGame \/ ReadNothing

Server == \/ NewGame \/ RegisterGame \/ FuncUnreg \/ StartGame \/ GetSizeMap
          \/ SendList \/ SendGames \/ SendGlis \/ SendAll \/ SendMess
          \/ MovPlayer \/ Quit \/ Reject \/ ShortRead
          \/ CountGames \/ Rewind \/ SendGame \/ SendPlayer
          \/ Wake \/ SendWelco \/ NoStart

Environment == OtherCreates \/ OtherJoins \/ OtherLeaves \/ OtherBegins \/ OtherEnds

Next == Menu \/ Reader \/ Server \/ Environment

Spec == Init /\ [][Next]_vars
\* Both programs run; nothing makes a user, or another player, act.
FairSpec == Spec /\ WF_vars(Reader) /\ WF_vars(Server)

-----------------------------------------------------------------------------
\* Each side is where its code can be, and the game of a player is in the list.
Message == [h : Heads, n : 0 .. 255]

TypeOK ==
    /\ status \in 1 .. 4
    /\ asking \in InLobby \cup InGame \cup
                  {"none", "greeting", "greeted", "entries", "POSIT"}
    /\ toread \in 0 .. 255 /\ left \in BOOLEAN
    /\ requests \in Seq([req : InLobby \cup InGame \cup {"junk"}, m : Ids \cup {NoGame}])
    /\ replies \in Seq(Message)
    /\ at \in {"accept", "lobby", "play", "waiting", "woken", "nostart"} \cup Walks \cup Ended
    /\ me \in Ids \cup {NoGame}
    /\ i \in 0 .. 255 /\ ptr \in 0 .. Len(games) /\ games_waiting \in 0 .. Len(games)
    /\ games \in Seq([id : Ids, encours : {-1, 1, 2}, joueurs : 1 .. MaxJoueurs + 1])
    /\ me # NoGame => Exists(me)
    /\ astray \in BOOLEAN

\* Request and answer stay in step: a user who is back at a menu has read all
\* that the server will send for what was asked, so that the next message of
\* the stream answers the next request (every reader of MessagePlayer takes
\* the next message for its answer, whatever it is).
InStep ==
    asking = "none" /\ ~astray =>
        replies = <<>> /\ requests = <<>> /\ ~left

\* The menu that PlayerTCP shows is that of the loop client_thread is in, with
\* or without a player: each side keeps its own state and learns that of the
\* other from the answers alone.
StatusAgrees ==
    asking = "none" /\ ~astray =>
        CASE status = 1 -> at \in Games \cup {"lobby", "playr"} /\ me = NoGame
          [] status = 2 -> at \in Games \cup {"lobby", "playr"} /\ me # NoGame
          [] status = 3 -> at \in {"play", "gplyr", "closed"}
          [] status = 4 -> at = "closed"

\* The two sides never wait for each other: the client for a message that the
\* server will not send, the server for a request or dead (start_game follows
\* me, func_send_games ptr, without a test).
NoMutualWait ==
    ~astray => ~ /\ asking # "none" /\ replies = <<>> /\ requests = <<>>
                 /\ at \in {"lobby", "play", "nostart", "dead"}

\* Every request is answered to its end, but START, which waits for the other
\* players: a reader of MessagePlayer has no timeout.
Answered ==
    asking \notin {"none", "START"} ~> asking = "none" \/ astray

\* A list of games that was announced arrives: the readers of initPlayer and
\* listGame come to their end.
ListArrives == asking \in {"greeting", "greeted", "entries"} ~> asking = "none"
=============================================================================
