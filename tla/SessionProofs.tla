--------------------------- MODULE SessionProofs ---------------------------
(***************************************************************************)
(* Proofs about Session, for any set of fewer than 128 ids, any number of  *)
(* games and players that it allows, and any set of faults: its types, and *)
(* that until a fault the two sides are in step, agree on the state of the *)
(* player and never wait for each other.                                   *)
(*                                                                         *)
(* The invariant says, for everything the client may be reading, what the  *)
(* server still has to send for it: the messages of a list that are left   *)
(* (toread) are those in the stream and those of the rest of the loop      *)
(* (Rest).                                                                 *)
(***************************************************************************)
EXTENDS Session, FiniteSetTheorems, TLAPS

-----------------------------------------------------------------------------
(* The list of games.                                                      *)

GameRec == [id : Ids, encours : {-1, 1, 2}, joueurs : 1 .. MaxJoueurs + 1]

\* No two games share an id, the game of the player is listed, and only in
\* that one there may be a player above the bound.
GamesOK(gs, m) ==
    /\ gs \in Seq(GameRec)
    /\ \A j, k \in DOMAIN gs : gs[j].id = gs[k].id => j = k
    /\ \A k \in DOMAIN gs :
          gs[k].id # m => gs[k].joueurs <= MaxJoueurs
    /\ m # NoGame => \E k \in DOMAIN gs : gs[k].id = m

LEMMA RecFacts ==
    ASSUME NEW r \in GameRec
    PROVE  /\ r.id \in Ids /\ r.id # NoGame /\ r.id \in 0 .. 255
           /\ r.joueurs \in 1 .. MaxJoueurs + 1 /\ r.joueurs \in 1 .. 127
           /\ r.encours \in {-1, 1, 2}
<1>1. r.id \in Ids /\ r.joueurs \in 1 .. MaxJoueurs + 1 /\ r.encours \in {-1, 1, 2}
  BY DEF GameRec
<1>2. r.id # NoGame /\ r.id \in 0 .. 255
  BY <1>1, SessionAssumption
<1>3. MaxJoueurs \in 1 .. 126
  BY SessionAssumption
<1>4. r.joueurs \in 1 .. 127
  BY <1>1, <1>3
<1> QED
  BY <1>1, <1>2, <1>4

LEMMA RemoveAtFacts ==
    ASSUME NEW S, NEW s \in Seq(S), NEW k \in DOMAIN s
    PROVE  /\ RemoveAt(s, k) \in Seq(S)
           /\ Len(RemoveAt(s, k)) = Len(s) - 1
           /\ \A j \in 1 .. Len(s) - 1 :
                 RemoveAt(s, k)[j] = IF j < k THEN s[j] ELSE s[j + 1]
<1> DEFINE a == SubSeq(s, 1, k - 1)
           b == SubSeq(s, k + 1, Len(s))
<1>0. k \in 1 .. Len(s) /\ Len(s) \in Nat
  OBVIOUS
<1>1. a \in Seq(S) /\ Len(a) = k - 1 /\ \A j \in 1 .. k - 1 : a[j] = s[j]
  BY <1>0
<1>2. b \in Seq(S) /\ Len(b) = Len(s) - k /\ \A j \in 1 .. Len(s) - k : b[j] = s[k + j]
  BY <1>0
<1>3. RemoveAt(s, k) = a \o b
  BY DEF RemoveAt
<1> HIDE DEF a, b
<1>4. a \o b \in Seq(S) /\ Len(a \o b) = Len(s) - 1
  BY <1>0, <1>1, <1>2
<1>5. ASSUME NEW j \in 1 .. Len(s) - 1
      PROVE  (a \o b)[j] = IF j < k THEN s[j] ELSE s[j + 1]
  <2>1. CASE j < k
    BY <2>1, <1>0, <1>1, <1>2
  <2>2. CASE j >= k
    <3>3. j - (k - 1) \in 1 .. Len(s) - k /\ k + (j - (k - 1)) = j + 1
      BY <2>2, <1>0
    <3>4. j \in 1 .. Len(a) + Len(b) /\ ~(j <= Len(a))
      BY <2>2, <1>0, <1>1, <1>2
    <3>5. a \in Seq(S) /\ b \in Seq(S)
      BY <1>1, <1>2
    <3>6. (a \o b)[j] = b[j - Len(a)]
      BY <3>4, <3>5
    <3>1. (a \o b)[j] = b[j - (k - 1)]
      BY <3>6, <1>1
    <3>2. b[j - (k - 1)] = s[k + (j - (k - 1))]
      BY <3>3, <1>2
    <3> QED
      BY <3>1, <3>2, <3>3, <2>2, <1>0
  <2>3. j < k \/ j >= k
    BY <1>0
  <2> QED
    BY <2>1, <2>2, <2>3, Zenon
<1> QED
  BY <1>3, <1>4, <1>5

\* The ids are different, so that there are fewer games than a byte can count.
LEMMA FewGames ==
    ASSUME NEW gs, NEW m, GamesOK(gs, m)
    PROVE  Len(gs) \in 0 .. 127
<1>1. /\ Len(gs) \in Nat /\ DOMAIN gs = 1 .. Len(gs)
      /\ \A k \in DOMAIN gs : gs[k] \in GameRec
  BY DEF GamesOK
<1>2. IsFiniteSet(1 .. Len(gs)) /\ Cardinality(1 .. Len(gs)) = Len(gs)
  <2> DEFINE n == Len(gs)
  <2>1. n \in Nat
    BY <1>1
  <2> HIDE DEF n
  <2>2. IsFiniteSet(1 .. n) /\ Cardinality(1 .. n) = n
    BY <2>1, FS_Interval
  <2> QED
    BY <2>2 DEF n
<1>3. IsFiniteSet(Ids) /\ Cardinality(Ids) < 128 /\ Cardinality(Ids) \in Nat
  BY SessionAssumption, FS_CardinalityType
<1> DEFINE f == [k \in 1 .. Len(gs) |-> gs[k].id]
<1>5. f \in [1 .. Len(gs) -> Ids]
  BY <1>1, RecFacts
<1>4. ASSUME Len(gs) > 127 PROVE FALSE
  <2>1. Cardinality(Ids) < Cardinality(1 .. Len(gs))
    BY <1>1, <1>2, <1>3, <1>4
  <2> HIDE DEF f
  <2>2. \E x, y \in 1 .. Len(gs) : x # y /\ f[x] = f[y]
    BY <1>2, <1>3, <1>5, <2>1, FS_PigeonHole
  <2> QED
    BY <1>1, <2>2 DEF GamesOK, f
<1>6. Len(gs) \in Nat /\ Len(gs) <= 127
  BY <1>1, <1>4
<1>7. \A n \in Nat : n <= 127 => n \in 0 .. 127
  OBVIOUS
<1> QED
  BY <1>6, <1>7, Zenon

LEMMA GamesCreated ==
    ASSUME NEW gs, NEW m, GamesOK(gs, m), NEW x \in Ids,
           \A k \in DOMAIN gs : gs[k].id # x, NEW y \in {m, x}
    PROVE  GamesOK(Append(gs, [id |-> x, encours |-> -1, joueurs |-> 1]), 
                   IF m = NoGame THEN y ELSE m)
<1> DEFINE r == [id |-> x, encours |-> -1, joueurs |-> 1]
           hs == Append(gs, r)
           mm == IF m = NoGame THEN y ELSE m
<1>1. r \in GameRec /\ r.id = x /\ r.joueurs = 1
  BY SessionAssumption DEF GameRec
<1>2. gs \in Seq(GameRec) /\ DOMAIN gs = 1 .. Len(gs) /\ Len(gs) \in Nat
  BY DEF GamesOK
<1> HIDE DEF r
<1>3. /\ hs \in Seq(GameRec) /\ DOMAIN hs = 1 .. Len(gs) + 1
      /\ hs[Len(gs) + 1] = r /\ \A k \in DOMAIN gs : hs[k] = gs[k]
  BY <1>1, <1>2
<1> HIDE DEF hs
<1>4. \A j, k \in DOMAIN hs : hs[j].id = hs[k].id => j = k
  BY <1>1, <1>2, <1>3 DEF GamesOK
<1>5. ASSUME NEW k \in DOMAIN hs
      PROVE  hs[k].id # mm => hs[k].joueurs <= MaxJoueurs
  <2>1. CASE k = Len(gs) + 1
    <3>1. hs[k].joueurs = 1 /\ MaxJoueurs \in Nat /\ MaxJoueurs >= 1
      BY <2>1, <1>1, <1>3, SessionAssumption
    <3> QED
      BY <3>1
  <2>2. CASE k \in DOMAIN gs
    <3>1. gs[k] \in GameRec
      BY <2>2, <1>2
    <3>4. gs[k].joueurs \in Int /\ gs[k].id \in Ids
      BY <3>1, RecFacts
    <3>2. gs[k].id # m => gs[k].joueurs <= MaxJoueurs
      BY <2>2 DEF GamesOK
    <3>3. gs[k].id = m => mm = m
      BY <3>4, SessionAssumption
    <3> QED
      BY <3>4, <3>2, <3>3, <1>3, <2>2, SessionAssumption
  <2> QED
    BY <2>1, <2>2, <1>2, <1>3
<1>6. mm # NoGame => \E k \in DOMAIN hs : hs[k].id = mm
  BY <1>1, <1>2, <1>3, SessionAssumption DEF GamesOK
<1> QED
  BY <1>3, <1>4, <1>5, <1>6 DEF GamesOK, hs, r

\* One game is changed, but for its id.
LEMMA GamesChanged ==
    ASSUME NEW gs, NEW m, GamesOK(gs, m), NEW n \in Ids \cup {NoGame},
           NEW k \in DOMAIN gs, NEW r \in GameRec, r.id = gs[k].id,
           n \in {m, r.id}, m = NoGame \/ m = n,
           r.id # n => r.joueurs <= MaxJoueurs
    PROVE  GamesOK([gs EXCEPT ![k] = r], n)
<1> DEFINE hs == [gs EXCEPT ![k] = r]
<1>1. gs \in Seq(GameRec) /\ DOMAIN gs = 1 .. Len(gs) /\ Len(gs) \in Nat
  BY DEF GamesOK
<1>2. /\ hs \in Seq(GameRec) /\ DOMAIN hs = DOMAIN gs
      /\ \A j \in DOMAIN gs : hs[j] = IF j = k THEN r ELSE gs[j]
  BY <1>1
<1> HIDE DEF hs
<1>3. \A j \in DOMAIN gs : hs[j].id = gs[j].id
  BY <1>2
<1>9. \A j \in DOMAIN gs : gs[j] \in GameRec
  BY <1>1
<1>4. \A j \in DOMAIN gs : gs[j].id \in Ids /\ gs[j].joueurs \in Int
  BY <1>9, RecFacts
<1>5. ASSUME NEW j \in DOMAIN gs, j # k
      PROVE  gs[j].id # n => gs[j].joueurs <= MaxJoueurs
  <2>1. gs[j].id # m => gs[j].joueurs <= MaxJoueurs
    BY DEF GamesOK
  <2>2. gs[j].id = m => m = n
    BY <1>4, SessionAssumption
  <2> QED
    BY <2>1, <2>2, <1>4, SessionAssumption
<1>6. \A j \in DOMAIN hs : hs[j].id # n => hs[j].joueurs <= MaxJoueurs
  BY <1>2, <1>5
<1>7. n # NoGame => \E j \in DOMAIN hs : hs[j].id = n
  BY <1>2, <1>3 DEF GamesOK
<1>8. \A j, l \in DOMAIN hs : hs[j].id = hs[l].id => j = l
  BY <1>2, <1>3 DEF GamesOK
<1> QED
  BY <1>2, <1>6, <1>7, <1>8 DEF GamesOK, hs

\* The last player of a game leaves, and it is freed.
LEMMA GamesFreed ==
    ASSUME NEW gs, NEW m, GamesOK(gs, m), NEW n \in {m, NoGame},
           NEW k \in DOMAIN gs, gs[k].id # n, m = n \/ gs[k].id = m
    PROVE  GamesOK(RemoveAt(gs, k), n)
<1> DEFINE hs == RemoveAt(gs, k)
           From(j) == IF j < k THEN j ELSE j + 1
<1>1. gs \in Seq(GameRec) /\ DOMAIN gs = 1 .. Len(gs) /\ Len(gs) \in Nat /\ k \in 1 .. Len(gs)
  BY DEF GamesOK
<1>2. /\ hs \in Seq(GameRec) /\ Len(hs) = Len(gs) - 1
      /\ \A j \in 1 .. Len(gs) - 1 : hs[j] = IF j < k THEN gs[j] ELSE gs[j + 1]
  BY <1>1, RemoveAtFacts
<1> HIDE DEF hs
<1>3. DOMAIN hs = 1 .. Len(gs) - 1
  BY <1>1, <1>2
<1>4. /\ \A j \in DOMAIN hs : From(j) \in DOMAIN gs /\ hs[j] = gs[From(j)]
      /\ \A j, l \in DOMAIN hs : From(j) = From(l) => j = l
      /\ \A l \in DOMAIN gs : l # k => \E j \in DOMAIN hs : From(j) = l
  <2>1. \A j \in DOMAIN hs : From(j) \in DOMAIN gs
    BY <1>1, <1>3
  <2>2. \A j \in DOMAIN hs : hs[j] = gs[From(j)]
    BY <1>1, <1>2, <1>3
  <2>3. \A j, l \in DOMAIN hs : From(j) = From(l) => j = l
    BY <1>1, <1>3
  <2>4. ASSUME NEW l \in DOMAIN gs, l # k
        PROVE  \E j \in DOMAIN hs : From(j) = l
    <3>1. CASE l < k
      <4>1. l \in DOMAIN hs /\ From(l) = l
        BY <3>1, <1>1, <1>3
      <4> QED
        BY <4>1
    <3>2. CASE l > k
      <4>1. l - 1 \in DOMAIN hs /\ From(l - 1) = l
        BY <3>2, <1>1, <1>3
      <4> QED
        BY <4>1
    <3> QED
      BY <3>1, <3>2, <2>4, <1>1
  <2> QED
    BY <2>1, <2>2, <2>3, <2>4
<1> HIDE DEF From
<1>5. \A j, l \in DOMAIN hs : hs[j].id = hs[l].id => j = l
  BY <1>4 DEF GamesOK
<1>6. \A j \in DOMAIN gs : gs[j] \in GameRec
  BY <1>1
<1>7. ASSUME NEW j \in DOMAIN hs
      PROVE  hs[j].id # n => hs[j].joueurs <= MaxJoueurs
  <2> DEFINE l == From(j)
  <2>1. l \in DOMAIN gs /\ hs[j] = gs[l] /\ gs[l].joueurs \in Int /\ gs[l].id # NoGame
    BY <1>4, <1>6, RecFacts
  <2> HIDE DEF l
  <2>2. gs[l].id # m => gs[l].joueurs <= MaxJoueurs
    BY <2>1 DEF GamesOK
  <2>3. gs[l].id = m => m = n
    <3>1. SUFFICES ASSUME gs[l].id = m, gs[k].id = m, m # n PROVE FALSE
      OBVIOUS
    <3>2. l = k
      BY <3>1, <2>1 DEF GamesOK
    <3>3. k # From(j)
      BY <1>1, <1>3 DEF From
    <3> QED
      BY <3>2, <3>3 DEF l
  <2> QED
    BY <2>1, <2>2, <2>3, SessionAssumption
<1>8. n # NoGame => \E j \in DOMAIN hs : hs[j].id = n
  <2>1. SUFFICES ASSUME n # NoGame PROVE \E j \in DOMAIN hs : hs[j].id = n
    OBVIOUS
  <2>2. PICK l \in DOMAIN gs : gs[l].id = n
    BY <2>1 DEF GamesOK
  <2>3. l # k
    BY <2>2
  <2> QED
    BY <2>2, <2>3, <1>4
<1> QED
  BY <1>2, <1>5, <1>7, <1>8 DEF GamesOK, hs

-----------------------------------------------------------------------------
(* Types.                                                                  *)

Asks  == InLobby \cup InGame
Ask0  == Asks \cup {"none", "greeting", "greeted", "entries", "POSIT"}
ReqRec == [req : Asks \cup {"junk"}, m : Ids \cup {NoGame}]
Places == {"accept", "lobby", "play", "waiting", "woken", "nostart"} \cup Walks \cup Ended

ClientOK ==
    /\ status \in 1 .. 4 /\ asking \in Ask0 /\ left \in BOOLEAN /\ astray \in BOOLEAN
    /\ toread \in 0 .. 255
    /\ asking \in {"entries", "greeted"} => toread > 0

RequestsOK == requests \in Seq(ReqRec)
RepliesOK  == replies \in Seq(Message)

\* Whoever has left the command loop has a game, and the counters of the loops
\* are in the lists.
ServerOK ==
    /\ at \in Places /\ me \in Ids \cup {NoGame}
    /\ GamesOK(games, me)
    /\ at \in {"waiting", "woken", "play", "nostart", "gplyr"} => me # NoGame
    /\ i \in 0 .. 127 /\ ptr \in 0 .. Len(games) /\ games_waiting \in 0 .. Len(games)
    /\ at \notin Walks => i = 0 /\ ptr = 0 /\ games_waiting = 0
    /\ at \in Games => i <= Len(games)
    /\ at = "count" => games_waiting <= i
    /\ at \in {"playr", "gplyr"} => ptr \in DOMAIN games

Typed == ClientOK /\ RequestsOK /\ RepliesOK /\ ServerOK

LEMMA TypedTypeOK == ASSUME Typed PROVE TypeOK
<1>1. ClientOK /\ RequestsOK /\ RepliesOK
  BY DEF Typed
<1>2. ServerOK /\ GamesOK(games, me)
  BY DEF Typed, ServerOK
<1>3. i \in 0 .. 255
  BY <1>2 DEF ServerOK
<1>4. me # NoGame => Exists(me)
  BY <1>2 DEF GamesOK, Exists
<1>5. games \in Seq([id : Ids, encours : {-1, 1, 2}, joueurs : 1 .. MaxJoueurs + 1])
  BY <1>2 DEF GamesOK, GameRec
<1> QED
  BY <1>1, <1>2, <1>3, <1>4, <1>5
  DEF TypeOK, ClientOK, RequestsOK, RepliesOK, ServerOK, Ask0, Asks, ReqRec, Places

\* The game that is looked up by its id.
LEMMA GameFacts ==
    ASSUME ServerOK, NEW m, Exists(m)
    PROVE  Game(m) \in DOMAIN games /\ games[Game(m)].id = m
BY DEF Exists, Game

LEMMA MyGame ==
    ASSUME ServerOK, me # NoGame
    PROVE  Game(me) \in DOMAIN games /\ games[Game(me)].id = me
BY GameFacts DEF ServerOK, GamesOK, Exists

LEMMA GamesFacts ==
    ASSUME ServerOK
    PROVE  /\ games \in Seq(GameRec) /\ DOMAIN games = 1 .. Len(games) /\ Len(games) \in 0 .. 127
           /\ \A k \in DOMAIN games : games[k] \in GameRec
<1>1. games \in Seq(GameRec) /\ Len(games) \in 0 .. 127
  BY FewGames DEF ServerOK, GamesOK
<1> QED
  BY <1>1

\* What the four groups of actions leave alone.
LEMMA MenuFrame == Menu => UNCHANGED <<status, toread, left, replies, server, games>>
BY DEF Menu, CreateGame, JoinGame, SizeMaze, ListPlayer, ListGame, UnReadyPlay,
       ReadyPlay, QuitGame, GoMove, ListPlayerInGame, MessPlayers, MessTooLong, Ask, Write

LEMMA ReaderFrame == Reader => UNCHANGED <<requests, server, games>>
BY DEF Reader, ReadRegistration, ReadUnregistration, ReadSize, ReadList, ReadEntry,
       InitPlayer, ReadWelcome, ReadPosition, ReadInGame, ReadNothing, ReadFirstMessage

LEMMA ServerFrame == Server => UNCHANGED client
BY DEF Server, NewGame, RegisterGame, FuncUnreg, StartGame, GetSizeMap, SendList,
       SendGames, SendGlis, SendAll, SendMess, MovPlayer, Quit, Reject, ShortRead,
       CountGames, Rewind, SendGame, SendPlayer, Wake, SendWelco, NoStart, Take

LEMMA EnvironmentFrame == Environment => UNCHANGED <<client, requests, replies, server>>
BY DEF Environment, OtherCreates, OtherJoins, OtherLeaves, OtherBegins, OtherEnds, Others

\* Every entry of a menu sends one request, or a message that is too long.
Sends(req, m) ==
    /\ req \in Asks /\ m \in Ids \cup {NoGame}
    /\ asking = "none" /\ asking' = req
    /\ IF at \in Ended THEN requests' = requests
       ELSE \/ requests' = requests \o <<[req |-> req, m |-> m]>>
            \/ astray' = TRUE /\ requests' = requests \o <<[req |-> req, m |-> m], Junk>>
    /\ astray' \in {astray, TRUE}
    /\ req \in {"NEWPL", "REGIS"} => status = 1
    /\ req = "START" => status = 2
    /\ req \in InLobby => status \in {1, 2}
    /\ req \in InGame => status = 3

LEMMA AskSends ==
    ASSUME NEW s, NEW req \in Asks, NEW m \in Ids \cup {NoGame}, Ask(s, req, m),
           req \in {"NEWPL", "REGIS"} => s = {1},
           req = "START" => s = {2},
           req \in InLobby => s \subseteq {1, 2},
           req \in InGame => s = {3}
    PROVE  Sends(req, m)
BY DEF Ask, Write, Sends

LEMMA MenuSends == Menu => \E req, m : Sends(req, m)
<1> USE DEF Asks, InLobby, InGame
<1>1. CreateGame => Sends("NEWPL", NoGame)
  BY AskSends DEF CreateGame
<1>2. JoinGame => \E m : Sends("REGIS", m)
  BY AskSends DEF JoinGame
<1>3. SizeMaze => \E m : Sends("SIZE?", m)
  BY AskSends DEF SizeMaze
<1>4. ListPlayer => \E m : Sends("LIST?", m)
  BY AskSends DEF ListPlayer
<1>5. ListGame => Sends("GAME?", NoGame)
  BY AskSends DEF ListGame
<1>6. UnReadyPlay => Sends("UNREG", NoGame)
  BY AskSends DEF UnReadyPlay
<1>7. ReadyPlay => Sends("START", NoGame)
  BY AskSends DEF ReadyPlay
<1>8. QuitGame => Sends("IQUIT", NoGame)
  BY AskSends DEF QuitGame
<1>9. GoMove => Sends("MOV", NoGame)
  BY AskSends DEF GoMove
<1>10. ListPlayerInGame => Sends("GLIS?", NoGame)
  BY AskSends DEF ListPlayerInGame
<1>11. MessPlayers => \E req : Sends(req, NoGame)
  BY AskSends DEF MessPlayers
<1>12. MessTooLong => \E req : Sends(req, NoGame)
  BY DEF MessTooLong, Write, Sends
<1> QED
  BY <1>1, <1>2, <1>3, <1>4, <1>5, <1>6, <1>7, <1>8, <1>9, <1>10, <1>11, <1>12 DEF Menu

\* A reader takes the first message of the stream, or finds its end.
LEMMA ReadersRead ==
    ASSUME Reader
    PROVE  \/ replies # <<>> /\ replies' = Tail(replies)
           \/ replies = <<>> /\ UNCHANGED replies
BY DEF Reader, ReadRegistration, ReadUnregistration, ReadSize, ReadList, ReadEntry,
       InitPlayer, ReadWelcome, ReadPosition, ReadInGame, ReadNothing, ReadFirstMessage

LEMMA HeadFacts ==
    ASSUME RepliesOK, replies # <<>>
    PROVE  /\ Head(replies) \in Message /\ Head(replies).n \in 0 .. 255
           /\ Tail(replies) \in Seq(Message) /\ Len(Tail(replies)) = Len(replies) - 1
<1>1. Head(replies) \in Message /\ Tail(replies) \in Seq(Message) /\ Len(Tail(replies)) = Len(replies) - 1
  BY DEF RepliesOK
<1> QED
  BY <1>1 DEF Message

LEMMA ClientStep ==
    ASSUME Typed, [Next]_vars
    PROVE  ClientOK'
<1> USE DEF Asks, Ask0, InLobby, InGame
<1>0. ClientOK /\ RepliesOK
  BY DEF Typed
<1>1. CASE Menu
  <2>1. UNCHANGED <<status, toread, left>>
    BY <1>1, MenuFrame
  <2>2. PICK req, m : Sends(req, m)
    BY <1>1, MenuSends
  <2> QED
    BY <1>0, <2>1, <2>2 DEF ClientOK, Sends
<1>2. CASE Reader
  <2> USE DEF ReadFirstMessage, ClientOK
  <2>1. CASE ReadRegistration
    BY <2>1, <1>0 DEF ReadRegistration
  <2>2. CASE ReadUnregistration
    BY <2>2, <1>0 DEF ReadUnregistration
  <2>3. CASE ReadSize
    BY <2>3, <1>0 DEF ReadSize
  <2>4. CASE ReadList
    <3>1. Head(replies).n \in 0 .. 255
      BY <2>4, <1>0, HeadFacts DEF ReadList
    <3>2. CASE Announced
      <4>1. toread' = IF Head(replies).n < 128 THEN Head(replies).n ELSE 0
        BY <3>2, <2>4 DEF ReadList, ReadEntries
      <4>4. toread' \in 0 .. 255
        BY <3>1, <4>1
      <4>2. asking' = IF toread' = 0 THEN "none" ELSE "entries"
        BY <3>2, <2>4 DEF ReadList, ReadEntries
      <4>3. UNCHANGED status /\ left' \in BOOLEAN /\ astray' \in BOOLEAN
        BY <3>2, <2>4, <1>0 DEF ReadList
      <4> QED
        BY <4>4, <4>2, <4>3, <1>0
    <3>3. CASE ~Announced
      BY <3>3, <2>4, <1>0 DEF ReadList
    <3> QED
      BY <3>2, <3>3
  <2>5. CASE ReadEntry
    BY <2>5, <1>0 DEF ReadEntry
  <2>6. CASE InitPlayer
    <3>1. Head(replies).n \in 0 .. 255
      BY <2>6, <1>0, HeadFacts DEF InitPlayer
    <3>2. toread' \in 0 .. 255
      BY <3>1, <2>6, <1>0 DEF InitPlayer
    <3>3. asking' = IF toread' = 0 THEN "none" ELSE "greeted"
      BY <2>6 DEF InitPlayer
    <3>4. UNCHANGED <<status, left, astray>>
      BY <2>6 DEF InitPlayer
    <3> QED
      BY <3>2, <3>3, <3>4, <1>0
  <2>7. CASE ReadWelcome
    BY <2>7, <1>0 DEF ReadWelcome
  <2>8. CASE ReadPosition
    BY <2>8, <1>0 DEF ReadPosition
  <2>9. CASE ReadInGame
    BY <2>9, <1>0 DEF ReadInGame
  <2>10. CASE ReadNothing
    BY <2>10, <1>0 DEF ReadNothing
  <2> QED
    BY <1>2, <2>1, <2>2, <2>3, <2>4, <2>5, <2>6, <2>7, <2>8, <2>9, <2>10 DEF Reader
<1>3. CASE Server
  <2>1. UNCHANGED client
    BY <1>3, ServerFrame
  <2>2. astray' \in BOOLEAN
    BY <1>3, <1>0
    DEF ClientOK, Server, NewGame, RegisterGame, FuncUnreg, StartGame, GetSizeMap, SendList,
        SendGames, SendGlis, SendAll, SendMess, MovPlayer, Quit, Reject, ShortRead,
        CountGames, Rewind, SendGame, SendPlayer, Wake, SendWelco, NoStart
  <2> QED
    BY <2>1, <2>2, <1>0 DEF ClientOK, client
<1>4. CASE Environment
  <2>1. astray' \in BOOLEAN
    BY <1>4, <1>0
    DEF ClientOK, Environment, OtherCreates, OtherJoins, OtherLeaves, OtherBegins, OtherEnds, Others
  <2> QED
    BY <1>4, <1>0, <2>1, EnvironmentFrame DEF ClientOK, client
<1>5. CASE UNCHANGED vars
  BY <1>5, <1>0 DEF ClientOK, vars, client
<1> QED
  BY <1>1, <1>2, <1>3, <1>4, <1>5 DEF Next

LEMMA RequestsStep ==
    ASSUME Typed, [Next]_vars
    PROVE  RequestsOK'
<1>0. RequestsOK /\ Junk \in ReqRec
  BY DEF Typed, Junk, ReqRec
<1>1. CASE Menu
  <2>1. PICK req, m : Sends(req, m)
    BY <1>1, MenuSends
  <2>2. [req |-> req, m |-> m] \in ReqRec
    BY <2>1 DEF Sends, ReqRec
  <2> DEFINE r == [req |-> req, m |-> m]
  <2>3. requests' \in {requests, requests \o <<r>>, requests \o <<r, Junk>>}
    BY <2>1 DEF Sends
  <2>4. r \in ReqRec
    BY <2>2
  <2> HIDE DEF r
  <2>5. requests \o <<r>> \in Seq(ReqRec) /\ requests \o <<r, Junk>> \in Seq(ReqRec)
    BY <2>4, <1>0 DEF RequestsOK
  <2> QED
    BY <2>3, <2>5, <1>0 DEF RequestsOK
<1>2. CASE Reader
  BY <1>2, <1>0, ReaderFrame DEF RequestsOK
<1>3. CASE Server
  <2>1. CASE \E loc, req : Take(loc, req)
    BY <2>1, <1>0 DEF Take, RequestsOK
  <2>2. CASE UNCHANGED requests
    BY <2>2, <1>0 DEF RequestsOK
  <2>3. CASE Quit
    BY <2>3 DEF Quit, RequestsOK
  <2>4. CASE Reject
    BY <2>4, <1>0 DEF Reject, RequestsOK
  <2>5. CASE ShortRead
    <3>1. requests # <<>> /\ requests' = <<Junk>> \o Tail(requests)
      BY <2>5 DEF ShortRead
    <3> QED
      BY <3>1, <1>0 DEF RequestsOK
  <2> QED
    BY <1>3, <2>1, <2>2, <2>3, <2>4, <2>5
    DEF Server, NewGame, RegisterGame, FuncUnreg, StartGame, GetSizeMap, SendList,
        SendGames, SendGlis, SendAll, SendMess, MovPlayer,
        CountGames, Rewind, SendGame, SendPlayer, Wake, SendWelco, NoStart
<1>4. CASE Environment
  BY <1>4, <1>0, EnvironmentFrame DEF RequestsOK
<1>5. CASE UNCHANGED vars
  BY <1>5, <1>0 DEF RequestsOK, vars
<1> QED
  BY <1>1, <1>2, <1>3, <1>4, <1>5 DEF Next

\* What the server adds to the stream are messages.
LEMMA SendTyped ==
    ASSUME RepliesOK, NEW h \in Heads, NEW n \in 0 .. 255, Send(h, n)
    PROVE  RepliesOK'
<1>1. [h |-> h, n |-> n] \in Message
  BY DEF Message
<1> QED
  BY <1>1 DEF Send, RepliesOK

LEMMA ShortTyped == \A req : OnShort(req) \subseteq Seq(Message)
<1>1. /\ NoReply \in Message /\ [h |-> "SIZE!", n |-> 0] \in Message
      /\ [h |-> "MOVE!", n |-> 0] \in Message /\ [h |-> "MALL!", n |-> 0] \in Message
      /\ [h |-> "SEND!", n |-> 0] \in Message /\ [h |-> "NSEND", n |-> 0] \in Message
  BY DEF NoReply, Message, Heads
<1> DEFINE s == [h |-> "SIZE!", n |-> 0]  v == [h |-> "MOVE!", n |-> 0]
           a == [h |-> "MALL!", n |-> 0]  b == [h |-> "SEND!", n |-> 0]
           c == [h |-> "NSEND", n |-> 0]
<1>2. s \in Message /\ v \in Message /\ a \in Message /\ b \in Message /\ c \in Message
  BY <1>1
<1> SUFFICES ASSUME NEW req, NEW x \in OnShort(req) PROVE x \in Seq(Message)
  OBVIOUS
<1>3. x \in {<<NoReply, NoReply>>, <<NoReply, s>>, <<NoReply>> \o <<v>>,
             <<NoReply, NoReply>> \o <<v>>, <<a>>, <<b>>, <<c>>, <<NoReply>>}
  <2>1. CASE req = "SIZE?"
    BY <2>1 DEF OnShort
  <2>2. CASE req = "MOV"
    BY <2>2 DEF OnShort
  <2>3. CASE req = "MALL?"
    BY <2>3 DEF OnShort
  <2>4. CASE req = "SEND?"
    BY <2>4 DEF OnShort
  <2>5. CASE req \notin {"SIZE?", "MOV", "MALL?", "SEND?"}
    BY <2>5 DEF OnShort
  <2> QED
    BY <2>1, <2>2, <2>3, <2>4, <2>5
<1> HIDE DEF s, v, a, b, c
<1>4. /\ <<NoReply, NoReply>> \in Seq(Message) /\ <<NoReply, s>> \in Seq(Message)
      /\ <<NoReply>> \in Seq(Message) /\ <<v>> \in Seq(Message) /\ <<a>> \in Seq(Message)
      /\ <<b>> \in Seq(Message) /\ <<c>> \in Seq(Message)
  BY <1>1, <1>2
<1>5. <<NoReply>> \o <<v>> \in Seq(Message) /\ <<NoReply, NoReply>> \o <<v>> \in Seq(Message)
  BY <1>4
<1> QED
  BY <1>3, <1>4, <1>5

LEMMA RepliesStep ==
    ASSUME Typed, [Next]_vars
    PROVE  RepliesOK'
<1>0. RepliesOK /\ ServerOK
  BY DEF Typed
<1>1. CASE Menu
  BY <1>1, <1>0, MenuFrame DEF RepliesOK
<1>2. CASE Reader
  BY <1>2, <1>0, ReadersRead, HeadFacts DEF RepliesOK
<1>3. CASE Server
  <2>9. {"REGOK", "UNROK", "GAMES"} \subseteq Heads
    BY DEF Heads
  <2>0. \A k \in DOMAIN games : games[k].joueurs \in 0 .. 255
    BY <1>0, GamesFacts, RecFacts
  <2>1. \A m \in Ids : m \in 0 .. 255
    BY SessionAssumption
  <2>2. games_waiting \in 0 .. 255
    <3>1. Len(games) \in 0 .. 127 /\ games_waiting \in 0 .. Len(games)
      BY <1>0, GamesFacts DEF ServerOK
    <3>2. \A n \in 0 .. 127 : 0 .. n \subseteq 0 .. 255
      OBVIOUS
    <3> QED
      BY <3>1, <3>2, Zenon
  <2>3. CASE \E h \in Heads : Send(h, 0)
    BY <2>3, <1>0, SendTyped
  <2>4. CASE \E m \in Ids : Send("REGOK", m) \/ Send("UNROK", m)
    BY <2>4, <2>1, <2>9, <1>0, SendTyped
  <2>5. CASE \E h \in Heads, k \in DOMAIN games : Send(h, games[k].joueurs)
    BY <2>5, <2>0, <1>0, SendTyped
  <2>6. CASE Send("GAMES", games_waiting)
    BY <2>6, <2>2, <2>9, <1>0, SendTyped
  <2>7. CASE UNCHANGED replies
    BY <2>7, <1>0 DEF RepliesOK
  <2> DEFINE Goal == \/ \E h \in Heads : Send(h, 0)
                     \/ \E m \in Ids : Send("REGOK", m) \/ Send("UNROK", m)
                     \/ \E h \in Heads, k \in DOMAIN games : Send(h, games[k].joueurs)
                     \/ Send("GAMES", games_waiting)
                     \/ UNCHANGED replies
  <2>10. NewGame => Goal
    BY DEF NewGame, Unused
  <2>11. RegisterGame => Goal
    <3> SUFFICES ASSUME RegisterGame PROVE Goal
      OBVIOUS
    <3>1. CASE Send("REGNO", 0)
      BY <3>1 DEF Heads
    <3>2. CASE /\ Exists(Head(requests).m) /\ Send("REGOK", Head(requests).m)
      <4>1. Head(requests).m \in Ids
        BY <3>2, <1>0, GamesFacts, RecFacts DEF Exists
      <4> QED
        BY <3>2, <4>1
    <3> QED
      BY <3>1, <3>2 DEF RegisterGame
  <2>12. FuncUnreg => Goal
    BY <1>0 DEF FuncUnreg, ServerOK, Heads
  <2>13. GetSizeMap \/ SendAll \/ SendMess \/ MovPlayer \/ Quit => Goal
    BY DEF GetSizeMap, SendAll, SendMess, MovPlayer, Quit, Heads
  <2>14. SendList => Goal
    <3> SUFFICES ASSUME SendList PROVE Goal
      OBVIOUS
    <3>1. CASE Send("DUNNO", 0)
      BY <3>1 DEF Heads
    <3>2. CASE Exists(Head(requests).m) /\ Send("LIST!", games[Game(Head(requests).m)].joueurs)
      <4>1. Game(Head(requests).m) \in DOMAIN games
        BY <3>2, <1>0, GameFacts
      <4> QED
        BY <3>2, <4>1 DEF Heads
    <3> QED
      BY <3>1, <3>2 DEF SendList
  <2>15. SendGlis => Goal
    <3> SUFFICES ASSUME SendGlis PROVE Goal
      OBVIOUS
    <3>1. Game(me) \in DOMAIN games
      BY <1>0, MyGame DEF SendGlis, Take, ServerOK
    <3> QED
      BY <3>1 DEF SendGlis, Heads
  <2>16. CountGames \/ SendPlayer => Goal
    BY DEF CountGames, SendPlayer, Heads
  <2>17. SendGame => Goal
    <3> SUFFICES ASSUME SendGame PROVE Goal
      OBVIOUS
    <3>1. CASE ptr # 0 /\ Send("OGAME", games[ptr].joueurs)
      <4>1. ptr \in DOMAIN games
        BY <3>1, <1>0, GamesFacts DEF ServerOK
      <4> QED
        BY <3>1, <4>1 DEF Heads
    <3> QED
      BY <3>1 DEF SendGame
  <2>18. StartGame \/ SendGames \/ Rewind \/ Wake \/ NoStart => Goal
    BY DEF StartGame, SendGames, Rewind, Wake, NoStart
  <2> HIDE DEF Goal
  <2>20. Goal => RepliesOK'
    BY <2>3, <2>4, <2>5, <2>6, <2>7 DEF Goal
  <2>21. CASE Reject
    <3>1. NoReply \in Message
      BY DEF NoReply, Message, Heads
    <3>2. replies' \in {replies \o <<NoReply>>, replies \o <<NoReply, NoReply>>}
      BY <2>21 DEF Reject
    <3>3. <<NoReply>> \in Seq(Message) /\ <<NoReply, NoReply>> \in Seq(Message)
      BY <3>1
    <3>4. /\ replies \o <<NoReply>> \in Seq(Message)
          /\ replies \o <<NoReply, NoReply>> \in Seq(Message)
      BY <3>3, <1>0 DEF RepliesOK
    <3> QED
      BY <3>2, <3>4 DEF RepliesOK
  <2>22. CASE ShortRead
    <3>1. PICK x \in OnShort(Head(requests).req) : replies' = replies \o x
      BY <2>22 DEF ShortRead
    <3>2. x \in Seq(Message)
      BY ShortTyped
    <3> QED
      BY <3>1, <3>2, <1>0 DEF RepliesOK
  <2>23. CASE SendWelco
    <3> DEFINE w == [h |-> "WELCO", n |-> 0]
               p == [h |-> "POSIT", n |-> 0]
    <3>1. w \in Message /\ p \in Message
      BY DEF Message, Heads
    <3>2. replies' = replies \o <<w, p>>
      BY <2>23 DEF SendWelco
    <3> HIDE DEF w, p
    <3> QED
      BY <3>1, <3>2, <1>0 DEF RepliesOK
  <2> QED
    BY <1>3, <2>10, <2>11, <2>12, <2>13, <2>14, <2>15, <2>16, <2>17, <2>18, <2>20, <2>21,
       <2>22, <2>23 DEF Server
<1>4. CASE Environment
  BY <1>4, <1>0, EnvironmentFrame DEF RepliesOK
<1>5. CASE UNCHANGED vars
  BY <1>5, <1>0 DEF RepliesOK, vars
<1> QED
  BY <1>1, <1>2, <1>3, <1>4, <1>5 DEF Next

\* What the actions do to the list of games.
LEMMA LeftFacts ==
    ASSUME ServerOK, NEW k \in DOMAIN games, NEW n \in {me, NoGame},
           me = n \/ games[k].id = me,
           games[k].id = n => games[k].joueurs > 1
    PROVE  GamesOK(Left(k), n)
<1>1. GamesOK(games, me) /\ games[k] \in GameRec /\ me \in Ids \cup {NoGame}
  BY GamesFacts DEF ServerOK
<1>2. games[k].joueurs \in 1 .. MaxJoueurs + 1 /\ games[k].id \in Ids /\ games[k].id # NoGame
  BY <1>1, RecFacts
<1>3. CASE games[k].joueurs = 1
  <2>1. Left(k) = RemoveAt(games, k) /\ games[k].id # n
    BY <1>3 DEF Left
  <2> QED
    BY <1>1, <2>1, GamesFreed
<1>4. CASE games[k].joueurs # 1
  <2> DEFINE r == [games[k] EXCEPT !.joueurs = @ - 1]
  <2>1. Left(k) = [games EXCEPT ![k] = r]
    BY <1>4 DEF Left
  <2>2. r \in GameRec /\ r.id = games[k].id /\ r.joueurs = games[k].joueurs - 1
    <3>1. games[k].joueurs - 1 \in 1 .. MaxJoueurs + 1
      BY <1>2, <1>4, SessionAssumption
    <3> QED
      BY <1>1, <3>1 DEF GameRec
  <2>3. games[k].joueurs <= MaxJoueurs + 1
    BY <1>2, SessionAssumption
  <2>4. r.id # n => r.joueurs <= MaxJoueurs
    BY <2>2, <2>3, <1>2, SessionAssumption
  <2> HIDE DEF r
  <2>5. CASE n = me
    <3>1. n \in Ids \cup {NoGame} /\ n \in {me, r.id} /\ (me = NoGame \/ me = n)
      BY <2>5, <1>1
    <3>2. GamesOK([games EXCEPT ![k] = r], n)
      BY <2>2, <2>4, <3>1, <1>1, GamesChanged
    <3> QED
      BY <2>1, <3>2
  <2>6. CASE n # me
    \* GamesChanged keeps or sets the player's game; here it is forgotten.
    <3>1. n = NoGame
      BY <2>6
    <3> DEFINE hs == [games EXCEPT ![k] = r]
    <3>2. games \in Seq(GameRec) /\ DOMAIN games = 1 .. Len(games)
      BY GamesFacts
    <3>3. /\ hs \in Seq(GameRec) /\ DOMAIN hs = DOMAIN games
          /\ \A j \in DOMAIN games : hs[j] = IF j = k THEN r ELSE games[j]
      BY <3>2, <2>2
    <3> HIDE DEF hs
    <3>4. \A j \in DOMAIN games : hs[j].id = games[j].id
      BY <3>3, <2>2
    <3>5. ASSUME NEW j \in DOMAIN games, j # k
          PROVE  games[j].joueurs <= MaxJoueurs
      <4>1. games[j].id # me
        BY <3>5, <2>6, <1>1 DEF GamesOK
      <4>2. games[j].id # me => games[j].joueurs <= MaxJoueurs
        BY <1>1 DEF GamesOK
      <4>3. games[j] \in GameRec /\ MaxJoueurs \in Int
        BY GamesFacts, SessionAssumption
      <4>4. games[j].joueurs \in Int
        BY <4>3, RecFacts
      <4> QED
        BY <4>1, <4>2, <4>3, <4>4
    <3>6. r.joueurs <= MaxJoueurs
      BY <2>2, <2>4, <1>2, <3>1, SessionAssumption
    <3>7. \A j \in DOMAIN hs : hs[j].id # n => hs[j].joueurs <= MaxJoueurs
      <4> SUFFICES ASSUME NEW j \in DOMAIN hs PROVE hs[j].id # n => hs[j].joueurs <= MaxJoueurs
        OBVIOUS
      <4>1. hs[j].joueurs <= MaxJoueurs
        BY <3>3, <3>5, <3>6
      <4>2. hs[j].id # n
        BY <3>1, <3>3, <3>4, GamesFacts, RecFacts
      <4> QED
        BY <4>1, <4>2, SessionAssumption
    <3>8. \A j, l \in DOMAIN hs : hs[j].id = hs[l].id => j = l
      BY <3>3, <3>4, <1>1 DEF GamesOK
    <3> QED
      BY <2>1, <3>1, <3>3, <3>7, <3>8 DEF GamesOK, hs
  <2> QED
    BY <2>5, <2>6
<1> QED
  BY <1>3, <1>4

LEMMA JoinedFacts ==
    ASSUME ServerOK, NEW k \in DOMAIN games, NEW n \in {me, games[k].id},
           me = NoGame \/ me = n,
           games[k].joueurs < MaxJoueurs + 1, games[k].id # n => games[k].joueurs < MaxJoueurs
    PROVE  GamesOK(Joined(k), n)
<1>1. GamesOK(games, me) /\ games[k] \in GameRec /\ me \in Ids \cup {NoGame}
  BY GamesFacts DEF ServerOK
<1>2. games[k].joueurs \in 1 .. MaxJoueurs + 1 /\ games[k].id \in Ids /\ games[k].id # NoGame
  BY <1>1, RecFacts
<1> DEFINE r == [games[k] EXCEPT !.joueurs = @ + 1]
<1>3. Joined(k) = [games EXCEPT ![k] = r]
  BY DEF Joined
<1>4. games[k].joueurs + 1 \in 1 .. MaxJoueurs + 1
  BY <1>2, SessionAssumption
<1>5. r \in GameRec /\ r.id = games[k].id /\ r.joueurs = games[k].joueurs + 1
  BY <1>1, <1>4 DEF GameRec
<1>6. r.id # n => r.joueurs <= MaxJoueurs
  BY <1>2, <1>5, SessionAssumption
<1>7. n \in Ids \cup {NoGame} /\ n \in {me, r.id}
  BY <1>1, <1>2, <1>5
<1> HIDE DEF r
<1>8. GamesOK([games EXCEPT ![k] = r], n)
  BY <1>1, <1>5, <1>6, <1>7, GamesChanged
<1> QED
  BY <1>3, <1>8

LEMMA EncoursFacts ==
    ASSUME ServerOK, NEW k \in DOMAIN games, NEW e \in {1, 2}
    PROVE  GamesOK([games EXCEPT ![k].encours = e], me)
<1>1. GamesOK(games, me) /\ games[k] \in GameRec /\ me \in Ids \cup {NoGame}
  BY GamesFacts DEF ServerOK
<1> DEFINE r == [games[k] EXCEPT !.encours = e]
<1>3. [games EXCEPT ![k].encours = e] = [games EXCEPT ![k] = r]
  OBVIOUS
<1>5. r \in GameRec /\ r.id = games[k].id /\ r.joueurs = games[k].joueurs
  BY <1>1 DEF GameRec
<1>6. r.id # me => r.joueurs <= MaxJoueurs
  BY <1>1, <1>5 DEF GamesOK
<1>7. me \in {me, r.id} /\ (me = NoGame \/ me = me)
  OBVIOUS
<1> HIDE DEF r
<1> QED
  BY <1>1, <1>3, <1>5, <1>6, <1>7, GamesChanged

LEMMA CreatedFacts ==
    ASSUME ServerOK, NEW x \in Unused, NEW n \in {me, x}, me = NoGame \/ me = n
    PROVE  GamesOK(Append(games, [id |-> x, encours |-> -1, joueurs |-> 1]), n)
<1>1. GamesOK(games, me) /\ me \in Ids \cup {NoGame}
  BY DEF ServerOK
<1>2. x \in Ids /\ \A k \in DOMAIN games : games[k].id # x
  BY DEF Unused, Exists
<1>3. CASE me = NoGame
  BY <1>1, <1>2, <1>3, GamesCreated
<1>4. CASE me # NoGame
  BY <1>1, <1>2, <1>4, GamesCreated
<1> QED
  BY <1>3, <1>4

\* A step of which no walk is a part.
LEMMA OutsideWalks ==
    ASSUME ServerOK, at \notin Walks, UNCHANGED <<i, ptr, games_waiting>>,
           at' \in Places \ Walks, me' \in Ids \cup {NoGame}, GamesOK(games', me'),
           at' \in {"waiting", "woken", "play", "nostart"} => me' # NoGame
    PROVE  ServerOK'
<1>1. i' = 0 /\ ptr' = 0 /\ games_waiting' = 0
  BY DEF ServerOK
<1>2. Len(games') \in 0 .. 127
  BY FewGames
<1>3. 0 \in 0 .. Len(games')
  BY <1>2
<1> QED
  BY <1>1, <1>3 DEF ServerOK, Walks, Games

LEMMA EnvironmentStep ==
    ASSUME ServerOK, Environment
    PROVE  GamesOK(games', me) /\ (at \in Walks => Len(games') >= Len(games))
<1>0. /\ games \in Seq(GameRec) /\ DOMAIN games = 1 .. Len(games) /\ Len(games) \in 0 .. 127
      /\ \A k \in DOMAIN games : games[k] \in GameRec
      /\ me \in Ids \cup {NoGame} /\ GamesOK(games, me)
  BY GamesFacts DEF ServerOK
<1>1. CASE OtherCreates
  <2>1. PICK x \in Unused : games' = Append(games, [id |-> x, encours |-> -1, joueurs |-> 1])
    BY <1>1 DEF OtherCreates, Others
  <2>2. Cardinality({x}) = 1 /\ IsFiniteSet({x})
    BY FS_Singleton
  <2>3. GamesOK(games', me)
    <3>1. CASE me = NoGame
      <4>1. me \in {me, x}
        OBVIOUS
      <4> QED
        BY <2>1, <3>1, <4>1, CreatedFacts
    <3>2. CASE me # NoGame
      BY <2>1, <3>2, CreatedFacts
    <3> QED
      BY <3>1, <3>2
  <2>4. Len(games') = Len(games) + 1
    BY <2>1, <1>0
  <2> QED
    BY <2>3, <2>4, <1>0
<1>2. CASE OtherJoins
  <2>1. PICK k \in DOMAIN games : games[k].joueurs < MaxJoueurs /\ games' = Joined(k)
    BY <1>2 DEF OtherJoins, Others
  <2>2. games[k] \in GameRec /\ MaxJoueurs \in Int
    BY <1>0, SessionAssumption
  <2>7. games[k].joueurs \in Int
    BY <2>2, RecFacts
  <2>3. games[k].joueurs < MaxJoueurs + 1
    BY <2>1, <2>2, <2>7
  <2>4. me \in {me, games[k].id} /\ (me = NoGame \/ me = me)
    OBVIOUS
  <2>5. GamesOK(Joined(k), me)
    BY <2>1, <2>3, <2>4, JoinedFacts
  <2>6. Len(games') = Len(games)
    BY <2>1, <1>0 DEF Joined
  <2> QED
    BY <2>1, <2>5, <2>6, <1>0
<1>3. CASE OtherLeaves
  <2>1. PICK k \in DOMAIN games :
          /\ games[k].joueurs > (IF games[k].id = me THEN 1 ELSE 0)
          /\ at \in Walks => games[k].joueurs > 1
          /\ games' = Left(k)
    BY <1>3 DEF OtherLeaves, Others
  <2>2. games[k].joueurs \in Int
    BY <1>0, RecFacts
  <2>3. games[k].id = me => games[k].joueurs > 1
    BY <2>1
  <2>4. GamesOK(Left(k), me)
    BY <2>3, LeftFacts
  <2>5. games[k].joueurs > 1 => Len(games') = Len(games)
    BY <2>1, <2>2, <1>0 DEF Left
  <2> QED
    BY <2>1, <2>4, <2>5, <1>0
<1>4. CASE OtherBegins \/ OtherEnds
  <2>1. PICK k \in DOMAIN games, e \in {1, 2} : games' = [games EXCEPT ![k].encours = e]
    BY <1>4 DEF OtherBegins, OtherEnds, Others
  <2>2. GamesOK(games', me)
    BY <2>1, EncoursFacts
  <2>3. Len(games') = Len(games)
    BY <2>1, <1>0
  <2> QED
    BY <2>2, <2>3, <1>0
<1> QED
  BY <1>1, <1>2, <1>3, <1>4 DEF Environment

\* The answers to a request that change the list of games or the player.
LEMMA LobbyStep ==
    ASSUME ServerOK, NewGame \/ RegisterGame \/ FuncUnreg \/ Quit
    PROVE  ServerOK'
<1>0. /\ games \in Seq(GameRec) /\ \A k \in DOMAIN games : games[k] \in GameRec
      /\ me \in Ids \cup {NoGame} /\ GamesOK(games, me) /\ NoGame \notin Ids
  BY GamesFacts, SessionAssumption DEF ServerOK
<1>1. CASE NewGame
  <2>1. PICK x \in Unused : /\ me = NoGame /\ me' = x
                            /\ games' = Append(games, [id |-> x, encours |-> -1, joueurs |-> 1])
    BY <1>1 DEF NewGame
  <2>2. GamesOK(games', me') /\ me' \in Ids
    BY <2>1, CreatedFacts DEF Unused
  <2> QED
    BY <1>1, <2>2, OutsideWalks DEF NewGame, Take, Places, Walks, Games
<1>2. CASE RegisterGame
  <2> DEFINE x == Head(requests).m
  <2>1. CASE UNCHANGED <<me, games>>
    BY <1>0, <1>2, <2>1, OutsideWalks DEF RegisterGame, Take, Places, Walks, Games
  <2>2. CASE ~ UNCHANGED <<me, games>>
    <3>1. me = NoGame /\ Exists(x) /\ me' = x /\ games' = Joined(Game(x))
      BY <1>2, <2>2 DEF RegisterGame
    <3> HIDE DEF x
    <3>2. Game(x) \in DOMAIN games /\ games[Game(x)].id = x
      BY <3>1, GameFacts
    <3>8. games[Game(x)] \in GameRec /\ MaxJoueurs \in Int
      BY <1>0, <3>2, SessionAssumption
    <3>4. games[Game(x)].joueurs \in Int /\ x \in Ids
      BY <3>2, <3>8, RecFacts
    <3>3. games[Game(x)].id # me /\ MaxJoueurs \in Int
      BY <1>0, <3>1, <3>2, <3>4, <3>8
    <3>5. games[Game(x)].joueurs < MaxJoueurs + 1
      BY <1>0, <3>2, <3>3, <3>4 DEF GamesOK
    <3>6. GamesOK(Joined(Game(x)), x)
      BY <3>1, <3>2, <3>5, JoinedFacts
    <3>7. GamesOK(games', me') /\ me' \in Ids
      BY <3>1, <3>4, <3>6
    <3> QED
      BY <1>2, <3>7, OutsideWalks DEF RegisterGame, Take, Places, Walks, Games
  <2> QED
    BY <2>1, <2>2
<1>3. CASE FuncUnreg \/ Quit
  <2>1. CASE UNCHANGED <<me, games>>
    BY <1>0, <1>3, <2>1, OutsideWalks DEF FuncUnreg, Quit, Take, Places, Walks, Games, Ended
  <2>2. CASE ~ UNCHANGED <<me, games>>
    <3>1. me # NoGame /\ me' = NoGame /\ games' = Left(Game(me))
      BY <1>3, <2>2 DEF FuncUnreg, Quit, ServerOK
    <3>2. Game(me) \in DOMAIN games /\ games[Game(me)].id = me
      BY <3>1, MyGame
    <3>3. GamesOK(Left(Game(me)), NoGame)
      BY <3>1, <3>2, LeftFacts
    <3>4. GamesOK(games', me') /\ me' = NoGame
      BY <3>1, <3>3
    <3> QED
      BY <1>3, <3>4, OutsideWalks DEF FuncUnreg, Quit, Take, Places, Walks, Games, Ended
  <2> QED
    BY <2>1, <2>2
<1> QED
  BY <1>1, <1>2, <1>3

LEMMA WithinList ==
    ASSUME Len(games) \in 0 .. 127
    PROVE  /\ \A p \in 0 .. Len(games) : After(p) \in 0 .. Len(games)
           /\ \A n \in 0 .. 127 : n < Len(games) =>
                 n + 1 \in 0 .. 127 /\ n + 1 <= Len(games) /\ n + 1 \in 0 .. Len(games)
<1> DEFINE l == Len(games)
<1>0. \A n \in 0 .. 127 : n \in Nat /\ n <= 127
  OBVIOUS
<1>1. l \in Nat /\ l <= 127
  BY <1>0, Zenon
<1> HIDE DEF l
<1>2. \A p \in 0 .. l : (IF p < l THEN p + 1 ELSE 0) \in 0 .. l
  BY <1>1
<1>3. \A n \in 0 .. 127 : n < l => n + 1 \in 0 .. 127 /\ n + 1 <= l /\ n + 1 \in 0 .. l
  BY <1>1
<1> QED
  BY <1>2, <1>3 DEF After, l

LEMMA WalkStep ==
    ASSUME ServerOK, 
           SendList \/ SendGames \/ SendGlis \/ CountGames \/ Rewind \/ SendGame \/ SendPlayer
    PROVE  ServerOK'
<1>0. /\ Len(games) \in 0 .. 127 /\ DOMAIN games = 1 .. Len(games)
      /\ \A k \in DOMAIN games : games[k] \in GameRec
      /\ games' = games /\ me' = me
      /\ GamesOK(games', me') /\ me' \in Ids \cup {NoGame}
  BY GamesFacts DEF ServerOK, SendList, SendGames, SendGlis, CountGames, Rewind, SendGame, SendPlayer, Stay
<1>1. CASE SendList
  <2> DEFINE x == Head(requests).m
  <2>1. CASE Exists(x)
    <3>1. /\ at = "lobby" /\ at' = "playr" /\ i' = 0 /\ ptr' = Game(x)
          /\ UNCHANGED games_waiting
      BY <1>1, <2>1 DEF SendList, Take
    <3>2. Game(x) \in DOMAIN games
      BY <2>1, GameFacts
    <3> HIDE DEF x
    <3> QED
      BY <1>0, <3>1, <3>2 DEF ServerOK, Places, Walks, Games
  <2>2. CASE ~Exists(x)
    BY <1>0, <1>1, <2>2 DEF SendList, Take, Stay, ServerOK, Walks, Games
  <2> QED
    BY <2>1, <2>2
<1>2. CASE SendGames
  <2>1. at' = "count" /\ i' = 0 /\ ptr' = First /\ games_waiting' = 0
    BY <1>2 DEF SendGames
  <2>2. ptr' \in 0 .. Len(games)
    BY <2>1, <1>0 DEF First
  <2> QED
    BY <2>1, <2>2, <1>0 DEF ServerOK, Places, Walks, Games
<1>3. CASE SendGlis
  <2>1. /\ at = "play" /\ at' = "gplyr" /\ i' = 0 /\ ptr' = Game(me)
        /\ UNCHANGED games_waiting
    BY <1>3 DEF SendGlis, Take
  <2>2. Game(me) \in DOMAIN games /\ me # NoGame
    BY <2>1, MyGame DEF ServerOK
  <2> QED
    BY <1>0, <2>1, <2>2 DEF ServerOK, Places, Walks, Games
<1>4. CASE CountGames
  <2>0. at = "count" /\ i \in 0 .. 127 /\ ptr \in 0 .. Len(games) /\ games_waiting \in 0 .. Len(games)
        /\ i <= Len(games) /\ games_waiting <= i
    BY <1>4 DEF CountGames, ServerOK, Games
  <2>1. CASE i < Len(games) /\ ptr # 0
    <3>1. /\ at' = at /\ ptr' = After(ptr) /\ i' = i + 1
          /\ games_waiting' = games_waiting + (IF Waits(ptr) THEN 1 ELSE 0)
      BY <1>4, <2>1, <2>0, <1>0 DEF CountGames
    <3>2. ptr' \in 0 .. Len(games) /\ i' \in 0 .. 127 /\ i' <= Len(games)
      BY <3>1, <2>0, <2>1, <1>0, WithinList
    <3>3. games_waiting' \in 0 .. Len(games) /\ games_waiting' <= i'
      BY <3>1, <2>0, <2>1, <1>0
    <3> QED
      BY <3>1, <3>2, <3>3, <2>0, <1>0 DEF ServerOK, Places, Walks, Games
  <2>2. CASE i < Len(games) /\ ptr = 0
    <3>1. at' = "dead" /\ i' = 0 /\ ptr' = 0 /\ games_waiting' = 0
      BY <1>4, <2>2, <2>0, <1>0 DEF CountGames, LeaveLoop
    <3>2. 0 \in 0 .. Len(games)
      BY <1>0
    <3> QED
      BY <3>1, <3>2, <1>0 DEF ServerOK, Places, Walks, Games, Ended
  <2>3. CASE i >= Len(games)
    <3>1. at' = "rewind" /\ UNCHANGED <<i, ptr, games_waiting>>
      BY <1>4, <2>0, <2>3, <1>0 DEF CountGames
    <3> QED
      BY <3>1, <2>0, <1>0 DEF ServerOK, Places, Walks, Games
  <2> QED
    BY <2>0, <2>1, <2>2, <2>3, <1>0
<1>5. CASE Rewind
  <2>1. at = "rewind" /\ at' = "ogame" /\ i' = 0 /\ ptr' = First /\ UNCHANGED games_waiting
    BY <1>5 DEF Rewind
  <2>2. ptr' \in 0 .. Len(games)
    BY <2>1, <1>0 DEF First
  <2> QED
    BY <2>1, <2>2, <1>0 DEF ServerOK, Places, Walks, Games
<1>6. CASE SendGame
  <2>0. at = "ogame" /\ i \in 0 .. 127 /\ ptr \in 0 .. Len(games) /\ games_waiting \in 0 .. Len(games)
        /\ i <= Len(games)
    BY <1>6 DEF SendGame, ServerOK, Games
  <2>1. CASE i < Len(games) /\ ptr # 0
    <3>1. at' = at /\ ptr' \in {ptr, After(ptr)} /\ i' = i + 1 /\ UNCHANGED games_waiting
      BY <1>6, <2>1, <2>0, <1>0 DEF SendGame
    <3>2. ptr' \in 0 .. Len(games) /\ i' \in 0 .. 127 /\ i' <= Len(games)
      BY <3>1, <2>0, <2>1, <1>0, WithinList
    <3> QED
      BY <3>1, <3>2, <2>0, <1>0 DEF ServerOK, Places, Walks, Games
  <2>2. CASE ~(i < Len(games) /\ ptr # 0)
    <3>1. at' \in {"dead", "lobby"} /\ i' = 0 /\ ptr' = 0 /\ games_waiting' = 0
      BY <1>6, <2>2, <2>0, <1>0 DEF SendGame, LeaveLoop
    <3>2. 0 \in 0 .. Len(games)
      BY <1>0
    <3> QED
      BY <3>1, <3>2, <1>0 DEF ServerOK, Places, Walks, Games, Ended
  <2> QED
    BY <2>1, <2>2
<1>7. CASE SendPlayer
  <2>0. at \in {"playr", "gplyr"} /\ i \in 0 .. 127 /\ ptr \in DOMAIN games
    BY <1>7 DEF SendPlayer, ServerOK
  <2>1. games[ptr].joueurs \in 1 .. 127
    BY <2>0, <1>0, RecFacts
  <2>2. CASE i < games[ptr].joueurs
    <3>1. at' = at /\ i' = i + 1 /\ UNCHANGED <<ptr, games_waiting>>
      BY <1>7, <2>2 DEF SendPlayer
    <3>2. i' \in 0 .. 127
      BY <3>1, <2>0, <2>1, <2>2
    <3> QED
      BY <3>1, <3>2, <2>0, <1>0 DEF ServerOK, Places, Walks, Games
  <2>3. CASE ~(i < games[ptr].joueurs)
    <3>1. at' = (IF at = "playr" THEN "lobby" ELSE "play") /\ i' = 0 /\ ptr' = 0 /\ games_waiting' = 0
      BY <1>7, <2>3 DEF SendPlayer, LeaveLoop
    <3>2. 0 \in 0 .. Len(games)
      BY <1>0
    <3> QED
      BY <3>1, <3>2, <2>0, <1>0 DEF ServerOK, Places, Walks, Games, Ended
  <2> QED
    BY <2>2, <2>3
<1> QED
  BY <1>1, <1>2, <1>3, <1>4, <1>5, <1>6, <1>7

LEMMA ServerStep ==
    ASSUME Typed, [Next]_vars
    PROVE  ServerOK'
<1>0. ServerOK /\ GamesOK(games, me) /\ me \in Ids \cup {NoGame} /\ at \in Places
  BY DEF Typed, ServerOK
<1>1. CASE Menu
  BY <1>1, <1>0, MenuFrame DEF ServerOK, server
<1>2. CASE Reader
  BY <1>2, <1>0, ReaderFrame DEF ServerOK, server
<1>3. CASE Server
  <2>1. CASE NewGame \/ RegisterGame \/ FuncUnreg \/ Quit
    BY <2>1, <1>0, LobbyStep
  <2>2. CASE SendList \/ SendGames \/ SendGlis \/ CountGames \/ Rewind \/ SendGame \/ SendPlayer
    BY <2>2, <1>0, WalkStep
  <2>3. CASE GetSizeMap \/ SendAll \/ SendMess \/ MovPlayer \/ Reject
    <3>1. UNCHANGED <<at, me, i, ptr, games_waiting, games>>
      BY <2>3 DEF GetSizeMap, SendAll, SendMess, MovPlayer, Reject, Stay, server
    <3> QED
      BY <3>1, <1>0 DEF ServerOK
  <2>4. CASE StartGame \/ ShortRead
    BY <2>4, <1>0, OutsideWalks
    DEF StartGame, ShortRead, Take, Goto, ServerOK, Places, Walks, Games, Ended
  <2>5. CASE Wake \/ SendWelco \/ NoStart
    BY <2>5, <1>0, OutsideWalks
    DEF Wake, SendWelco, NoStart, Goto, ServerOK, Places, Walks, Games
  <2> QED
    BY <1>3, <2>1, <2>2, <2>3, <2>4, <2>5 DEF Server
<1>4. CASE Environment
  <2>1. UNCHANGED server
    BY <1>4, EnvironmentFrame
  <2>2. GamesOK(games', me) /\ (at \in Walks => Len(games') >= Len(games))
    BY <1>0, <1>4, EnvironmentStep
  <2>3. CASE at \notin Walks
    BY <2>1, <2>2, <2>3, <1>0, OutsideWalks DEF server, ServerOK
  <2>4. CASE at \in Walks
    <3>1. Len(games) \in 0 .. 127 /\ DOMAIN games = 1 .. Len(games)
      BY <1>0, GamesFacts
    <3>2. Len(games') \in Nat /\ DOMAIN games' = 1 .. Len(games') /\ Len(games') >= Len(games)
      BY <2>2, <2>4 DEF GamesOK
    <3> QED
      BY <2>1, <2>2, <3>1, <3>2, <1>0 DEF server, ServerOK, Games
  <2> QED
    BY <2>3, <2>4
<1>5. CASE UNCHANGED vars
  BY <1>5, <1>0 DEF ServerOK, vars, server
<1> QED
  BY <1>1, <1>2, <1>3, <1>4, <1>5 DEF Next

LEMMA InitTyped == Init => Typed
<1> SUFFICES ASSUME Init PROVE Typed
  OBVIOUS
<1>1. games \in Seq(GameRec) /\ Len(games) = 0 /\ DOMAIN games = {}
  BY DEF Init
<1>2. ServerOK
  BY <1>1 DEF Init, ServerOK, GamesOK, Places, Walks, Games
<1>3. ClientOK
  <2>1. status = 1 /\ asking = "greeting" /\ toread = 0 /\ left = FALSE /\ astray = FALSE
    BY DEF Init
  <2>2. status \in 1 .. 4 /\ toread \in 0 .. 255 /\ asking \in Ask0 /\ asking \notin {"entries", "greeted"}
    BY <2>1 DEF Ask0
  <2> QED
    BY <2>1, <2>2, Zenon DEF ClientOK
<1> QED
  BY <1>2, <1>3 DEF Init, Typed, RequestsOK, RepliesOK

LEMMA TypedHolds == Spec => []Typed
<1>1. Typed /\ [Next]_vars => Typed'
  BY ClientStep, RequestsStep, RepliesStep, ServerStep DEF Typed
<1> QED
  BY <1>1, InitTyped, PTL DEF Spec

-----------------------------------------------------------------------------
\* Each side is where its code can be, and the game of a player is in the
\* list: me never outlives the game that it points to.
THEOREM TypeCorrect == Spec => []TypeOK
<1>1. Typed => TypeOK
  BY TypedTypeOK
<1> QED
  BY <1>1, TypedHolds, PTL

-----------------------------------------------------------------------------
(* What the server still has to send.                                      *)

\* Where the loops are: the games that wait are in front, as many as were
\* counted, and ptr is the one that the counter stands for.
WalkOK ==
    /\ at \in Games => ~Blocked
    /\ at = "count" => /\ ptr = IF i < Len(games) THEN i + 1 ELSE 0
                       /\ \A k \in DOMAIN games : k <= i => (Waits(k) <=> k <= games_waiting)
    /\ at \in {"rewind", "ogame"} => \A k \in DOMAIN games : Waits(k) <=> k <= games_waiting
    /\ at = "ogame" => ptr = IF i < games_waiting THEN i + 1
                             ELSE IF games_waiting < Len(games) THEN games_waiting + 1 ELSE 0
    /\ at \in {"playr", "gplyr"} => i <= games[ptr].joueurs

\* The messages that the rest of the loop sends.
Rest == IF at = "rewind" THEN games_waiting
        ELSE IF at = "ogame" THEN (IF i < games_waiting THEN games_waiting - i ELSE 0)
        ELSE IF at \in {"playr", "gplyr"} THEN games[ptr].joueurs - i ELSE 0

LEMMA CounterFacts ==
    ASSUME ServerOK
    PROVE  /\ Len(games) \in Nat /\ Len(games) <= 127 /\ DOMAIN games = 1 .. Len(games)
           /\ i \in Nat /\ i <= 127
           /\ games_waiting \in Nat /\ games_waiting <= Len(games)
<1>1. \A n \in 0 .. 127 : /\ n \in Nat /\ n <= 127
                          /\ \A m \in 0 .. n : m \in Nat /\ m <= n
  OBVIOUS
<1>2. Len(games) \in 0 .. 127 /\ DOMAIN games = 1 .. Len(games)
  BY GamesFacts
<1>3. i \in 0 .. 127 /\ games_waiting \in 0 .. Len(games)
  BY DEF ServerOK
<1> QED
  BY <1>1, <1>2, <1>3, Zenon

LEMMA RestFacts ==
    ASSUME ServerOK, WalkOK
    PROVE  Rest \in Nat /\ (at \notin {"rewind", "ogame", "playr", "gplyr"} => Rest = 0)
<1>1. CASE at \in {"rewind", "ogame"}
  BY <1>1, CounterFacts DEF Rest
<1>2. CASE at \in {"playr", "gplyr"}
  <2>1. ptr \in DOMAIN games /\ i \in 0 .. 127
    BY <1>2 DEF ServerOK
  <2>2. games[ptr] \in GameRec
    BY <2>1, GamesFacts
  <2>3. games[ptr].joueurs \in 1 .. 127 /\ i <= games[ptr].joueurs
    BY <1>2, <2>2, RecFacts DEF WalkOK
  <2> QED
    BY <1>2, <2>1, <2>3 DEF Rest
<1>3. CASE at \notin {"rewind", "ogame", "playr", "gplyr"}
  BY <1>3 DEF Rest
<1> QED
  BY <1>1, <1>2, <1>3

LEMMA WalkFrame ==
    ASSUME WalkOK, UNCHANGED <<server, games>>
    PROVE  WalkOK' /\ Rest' = Rest
BY DEF WalkOK, Rest, server, Blocked, Waits

\* Outside the loops there is nothing to know.
LEMMA WalkOutside ==
    ASSUME at \notin Walks
    PROVE  WalkOK /\ Rest = 0
BY DEF WalkOK, Rest, Walks, Games

\* One turn of a loop: what it sends is no longer to be sent.
Turned ==
    /\ WalkOK'
    /\ Rest' \in Nat /\ Len(replies') + Rest' = Len(replies) + Rest
    /\ \/ UNCHANGED replies
       \/ Rest > 0 /\ \E h \in Heads, n \in 0 .. 255 : Send(h, n)
    /\ at \in {"rewind", "ogame"} => at' \in {"rewind", "ogame", "lobby"}
    /\ at = "playr" => at' \in {"playr", "lobby"}
    /\ at = "gplyr" => at' \in {"gplyr", "play"}

\* SendGames: the first loop is entered.
LEMMA CountBegins ==
    ASSUME ServerOK, ~Blocked, games' = games, at' = "count", i' = 0, ptr' = First, games_waiting' = 0
    PROVE  WalkOK' /\ Rest' = 0
<1>1. ~Blocked' /\ games' = games
  BY DEF Blocked, Waits
<1>2. Len(games) \in 0 .. 127 /\ DOMAIN games = 1 .. Len(games) /\ games \in Seq(GameRec)
  BY GamesFacts
<1>3. ptr' = IF 0 < Len(games) THEN 1 ELSE 0
  BY <1>2 DEF First
<1>4. \A k \in DOMAIN games : ~(k <= 0)
  BY <1>2
<1> QED
  BY <1>1, <1>3, <1>4 DEF WalkOK, Rest, Games

LEMMA CountStep ==
    ASSUME ServerOK, WalkOK, CountGames
    PROVE  /\ WalkOK'
           /\ \/ at' = "count" /\ UNCHANGED replies
              \/ at' = "rewind" /\ Send("GAMES", games_waiting) /\ Rest' = games_waiting
<1>0. /\ at = "count" /\ i <= Len(games) /\ games_waiting <= i /\ ~Blocked
      /\ ptr = IF i < Len(games) THEN i + 1 ELSE 0
      /\ \A k \in DOMAIN games : k <= i => (Waits(k) <=> k <= games_waiting)
      /\ games' = games
  BY DEF CountGames, ServerOK, WalkOK, Games
<1>1. /\ Len(games) \in Nat /\ DOMAIN games = 1 .. Len(games)
      /\ i \in Nat /\ games_waiting \in Nat /\ games_waiting <= Len(games)
  BY CounterFacts
<1>2. ~Blocked' /\ \A k : Waits(k)' <=> Waits(k)
  BY <1>0 DEF Blocked, Waits
<1>3. CASE i < Len(games)
  <2>1. ptr = i + 1 /\ ptr # 0 /\ ptr \in DOMAIN games
    BY <1>0, <1>1, <1>3
  <2>2. /\ at' = "count" /\ UNCHANGED replies /\ ptr' = After(ptr) /\ i' = i + 1
        /\ games_waiting' = games_waiting + (IF Waits(ptr) THEN 1 ELSE 0)
    BY <1>0, <1>1, <1>3, <2>1 DEF CountGames
  <2>3. ptr' = IF i' < Len(games) THEN i' + 1 ELSE 0
    BY <2>1, <2>2, <1>0, <1>1 DEF After
  <2>4. ASSUME NEW k \in DOMAIN games, k <= i'
        PROVE  Waits(k) <=> k <= games_waiting'
    <3>1. CASE Waits(ptr)
      <4>5. \A j \in DOMAIN games : j < ptr => Waits(j)
        BY <3>1, <1>0, <2>1 DEF Blocked
      <4>1. \A j \in DOMAIN games : j <= i => Waits(j)
        BY <4>5, <1>1, <2>1
      <4>2. games_waiting = i
        <5>1. CASE i = 0
          BY <5>1, <1>0, <1>1
        <5>2. CASE i # 0
          <6>1. i \in DOMAIN games
            BY <5>2, <1>0, <1>1
          <6> QED
            BY <6>1, <4>1, <1>0, <1>1
        <5> QED
          BY <5>1, <5>2
      <4>3. games_waiting' = i + 1
        BY <4>2, <3>1, <2>2
      <4> QED
        BY <4>1, <4>3, <3>1, <2>1, <2>2, <2>4, <1>0, <1>1
    <3>2. CASE ~Waits(ptr)
      <4>1. games_waiting' = games_waiting
        BY <3>2, <2>2, <1>0, <1>1
      <4> QED
        BY <4>1, <3>2, <2>1, <2>2, <2>4, <1>0, <1>1
    <3> QED
      BY <3>1, <3>2
  <2> QED
    BY <2>2, <2>3, <2>4, <1>0, <1>2 DEF WalkOK, Games
<1>4. CASE ~(i < Len(games))
  <2>1. \A k \in DOMAIN games : k <= i
    BY <1>1, <1>4
  <2>2. at' = "rewind" /\ Send("GAMES", games_waiting) /\ UNCHANGED <<i, ptr, games_waiting>>
    BY <1>0, <1>1, <1>4 DEF CountGames
  <2>3. \A k \in DOMAIN games : Waits(k) <=> k <= games_waiting
    BY <2>1, <1>0, <1>1
  <2> QED
    BY <2>2, <2>3, <1>0, <1>2 DEF WalkOK, Games, Rest
<1> QED
  BY <1>3, <1>4

LEMMA RewindStep ==
    ASSUME ServerOK, WalkOK, Rewind
    PROVE  Turned
<1>0. /\ at = "rewind" /\ games_waiting \in 0 .. Len(games) /\ ~Blocked
      /\ \A k \in DOMAIN games : Waits(k) <=> k <= games_waiting
      /\ at' = "ogame" /\ i' = 0 /\ ptr' = First
      /\ UNCHANGED <<games, games_waiting, replies>>
  BY DEF Rewind, ServerOK, WalkOK, Games
<1>1. Len(games) \in 0 .. 127 /\ games \in Seq(GameRec) /\ games_waiting \in Nat
  BY GamesFacts, CounterFacts
<1>2. ~Blocked' /\ \A k : Waits(k)' <=> Waits(k)
  BY <1>0 DEF Blocked, Waits
<1>3. ptr' = IF 0 < games_waiting THEN 1
             ELSE IF games_waiting < Len(games) THEN games_waiting + 1 ELSE 0
  BY <1>0, <1>1 DEF First
<1>4. WalkOK'
  BY <1>0, <1>2, <1>3 DEF WalkOK, Games
<1>5. Rest' = games_waiting /\ Rest = games_waiting
  BY <1>0, <1>1 DEF Rest
<1> QED
  BY <1>0, <1>1, <1>4, <1>5 DEF Turned

LEMMA SendGameStep ==
    ASSUME ServerOK, WalkOK, SendGame
    PROVE  Turned
<1>0. /\ at = "ogame" /\ i <= Len(games) /\ ~Blocked
      /\ ptr = IF i < games_waiting THEN i + 1
               ELSE IF games_waiting < Len(games) THEN games_waiting + 1 ELSE 0
      /\ \A k \in DOMAIN games : Waits(k) <=> k <= games_waiting
      /\ games' = games
  BY DEF SendGame, ServerOK, WalkOK, Games
<1>1. /\ Len(games) \in Nat /\ DOMAIN games = 1 .. Len(games)
      /\ i \in Nat /\ games_waiting \in Nat /\ games_waiting <= Len(games)
  BY CounterFacts
<1>2. ~Blocked' /\ \A k : Waits(k)' <=> Waits(k)
  BY <1>0 DEF Blocked, Waits
<1>3. CASE i < games_waiting
  <2>1. ptr = i + 1 /\ ptr # 0 /\ ptr \in DOMAIN games /\ Waits(ptr) /\ i < Len(games)
    BY <1>0, <1>1, <1>3
  <2>2. /\ at' = "ogame" /\ i' = i + 1 /\ ptr' = After(ptr) /\ UNCHANGED games_waiting
        /\ Send("OGAME", games[ptr].joueurs)
    BY <2>1, <1>0, <1>1 DEF SendGame
  <2>3. ptr' = IF i' < games_waiting THEN i' + 1
               ELSE IF games_waiting < Len(games) THEN games_waiting + 1 ELSE 0
    BY <2>1, <2>2, <1>0, <1>1, <1>3 DEF After
  <2>4. WalkOK'
    BY <2>2, <2>3, <1>0, <1>2 DEF WalkOK, Games
  <2>5. Rest = games_waiting - i /\ Rest' = games_waiting - (i + 1) /\ Rest > 0 /\ Rest' \in Nat
    BY <2>2, <1>0, <1>1, <1>3 DEF Rest
  <2>6. games[ptr] \in GameRec
    BY <2>1, GamesFacts
  <2>7. games[ptr].joueurs \in 0 .. 255 /\ "OGAME" \in Heads
    BY <2>6, RecFacts DEF Heads
  <2>8. games_waiting \in Int /\ i \in Int
    BY <1>0, <1>1
  <2>9. Len(replies') = Len(replies) + 1 /\ Len(replies) \in Int
    BY <2>2 DEF Send
  <2>10. Len(replies') + Rest' = Len(replies) + Rest
    <3> DEFINE l == Len(replies)  n == games_waiting
    <3>1. l \in Int /\ n \in Int /\ i \in Int
      BY <2>8, <2>9
    <3> HIDE DEF l, n
    <3>2. (l + 1) + (n - (i + 1)) = l + (n - i)
      BY <3>1
    <3> QED
      BY <2>5, <2>9, <3>2 DEF l, n
  <2>11. \E h \in Heads, n \in 0 .. 255 : Send(h, n)
    BY <2>2, <2>7
  <2> QED
    BY <1>0, <2>2, <2>4, <2>5, <2>10, <2>11 DEF Turned
<1>4. CASE ~(i < games_waiting) /\ i < Len(games)
  <2>1. ptr = games_waiting + 1 /\ ptr # 0 /\ ptr \in DOMAIN games /\ ~Waits(ptr)
    BY <1>0, <1>1, <1>4
  <2>2. at' = "ogame" /\ i' = i + 1 /\ UNCHANGED <<replies, ptr, games_waiting>>
    BY <2>1, <1>0, <1>1, <1>4 DEF SendGame
  <2>3. ~(i' < games_waiting)
    BY <2>2, <1>0, <1>1, <1>4
  <2>4. WalkOK'
    BY <2>2, <2>3, <1>0, <1>2, <1>4 DEF WalkOK, Games
  <2>5. Rest = 0 /\ Rest' = 0
    BY <2>2, <2>3, <1>0, <1>4 DEF Rest
  <2> QED
    BY <1>0, <2>2, <2>4, <2>5 DEF Turned
<1>5. CASE ~(i < Len(games))
  <2>1. at' = "lobby" /\ UNCHANGED replies
    BY <1>0, <1>1, <1>5 DEF SendGame, LeaveLoop
  <2>2. WalkOK' /\ Rest' = 0
    BY <2>1 DEF WalkOK, Rest, Games
  <2>3. Rest = 0
    BY <1>0, <1>1, <1>5 DEF Rest
  <2> QED
    BY <1>0, <2>1, <2>2, <2>3 DEF Turned
<1> QED
  BY <1>3, <1>4, <1>5, <1>0, <1>1

LEMMA SendPlayerStep ==
    ASSUME ServerOK, WalkOK, SendPlayer
    PROVE  Turned
<1>0. /\ at \in {"playr", "gplyr"} /\ i \in 0 .. 127 /\ ptr \in DOMAIN games
      /\ i <= games[ptr].joueurs /\ games' = games
  BY DEF SendPlayer, ServerOK, WalkOK
<1>1. games[ptr] \in GameRec
  BY <1>0, GamesFacts
<1>2. games[ptr].joueurs \in 1 .. 127
  BY <1>1, RecFacts
<1>3. CASE i < games[ptr].joueurs
  <2>1. at' = at /\ i' = i + 1 /\ UNCHANGED ptr /\ \E h \in Heads, n \in 0 .. 255 : Send(h, n)
    BY <1>3 DEF SendPlayer, Heads
  <2>10. \A n \in 1 .. 127, m \in 0 .. 127 : m < n => m + 1 <= n
    OBVIOUS
  <2>7. i + 1 <= games[ptr].joueurs
    BY <2>10, <1>0, <1>2, <1>3
  <2>2. WalkOK'
    BY <2>1, <2>7, <1>0 DEF WalkOK, Games
  <2>9. \A n \in 1 .. 127, m \in 0 .. 127 : m < n => n - m > 0 /\ n - (m + 1) \in Nat
    OBVIOUS
  <2>8. Rest = games[ptr].joueurs - i /\ Rest' = games[ptr].joueurs - (i + 1)
    BY <2>1, <1>0 DEF Rest
  <2>3. Rest = games[ptr].joueurs - i /\ Rest' = games[ptr].joueurs - (i + 1) /\ Rest > 0 /\ Rest' \in Nat
    BY <2>8, <2>9, <1>0, <1>2, <1>3
  <2>4. Len(replies') = Len(replies) + 1 /\ Len(replies) \in Int
    BY <2>1 DEF Send
  <2>6. i \in Int /\ games[ptr].joueurs \in Int
    BY <1>0, <1>2
  <2>5. Len(replies') + Rest' = Len(replies) + Rest
    <3> DEFINE l == Len(replies)  n == games[ptr].joueurs
    <3>1. l \in Int /\ n \in Int /\ i \in Int
      BY <2>4, <2>6
    <3> HIDE DEF l, n
    <3>2. (l + 1) + (n - (i + 1)) = l + (n - i)
      BY <3>1
    <3> QED
      BY <2>3, <2>4, <3>2 DEF l, n
  <2> QED
    BY <1>0, <2>1, <2>2, <2>3, <2>5 DEF Turned
<1>4. CASE ~(i < games[ptr].joueurs)
  <2>1. at' = (IF at = "playr" THEN "lobby" ELSE "play") /\ UNCHANGED replies
    BY <1>4 DEF SendPlayer, LeaveLoop
  <2>2. WalkOK' /\ Rest' = 0
    BY <2>1, <1>0 DEF WalkOK, Rest, Games
  <2>3. Rest = 0
    BY <1>0, <1>2, <1>4 DEF Rest
  <2> QED
    BY <1>0, <2>1, <2>2, <2>3 DEF Turned
<1> QED
  BY <1>3, <1>4

\* SendList, SendGlis: the number of players is announced.
LEMMA PlayersBegin ==
    ASSUME ServerOK, NEW g \in DOMAIN games, games' = games,
           at' \in {"playr", "gplyr"}, i' = 0, ptr' = g
    PROVE  /\ WalkOK' /\ Rest' = games[g].joueurs
           /\ games[g].joueurs \in Nat /\ games[g].joueurs <= 127
<1>1. games[g] \in GameRec
  BY GamesFacts
<1>2. games[g].joueurs \in 1 .. 127
  BY <1>1, RecFacts
<1>3. \A n \in 1 .. 127 : n \in Nat /\ n <= 127 /\ 0 <= n /\ n - 0 = n
  OBVIOUS
<1>4. games[g].joueurs \in Nat /\ games[g].joueurs <= 127 /\ 0 <= games[g].joueurs
      /\ games[g].joueurs - 0 = games[g].joueurs
  BY <1>2, <1>3, Zenon
<1>5. WalkOK' /\ Rest' = games[g].joueurs - 0
  BY <1>4 DEF WalkOK, Rest, Games
<1> QED
  BY <1>4, <1>5

-----------------------------------------------------------------------------
(* The two sides.                                                          *)

\* Both have the same idea of where the player is.
Agree ==
    /\ status = 1 => at \in Games \cup {"accept", "lobby", "playr"} /\ me = NoGame
    /\ status = 2 => at \in Games \cup {"lobby", "playr"} /\ me # NoGame
    /\ status = 3 => at \in {"play", "gplyr", "closed"}
    /\ status = 4 => at = "closed"

\* A request is under way, and nothing else.
Asked ==
    /\ \E m \in Ids \cup {NoGame} : requests = <<[req |-> asking, m |-> m]>>
    /\ asking \in Asks /\ replies = <<>> /\ Rest = 0
    /\ at \notin {"accept", "count", "closed"} /\ Agree
    /\ asking \in {"NEWPL", "REGIS"} => status = 1
    /\ asking = "START" => status = 2
    /\ asking \in InLobby => status \in {1, 2}
    /\ asking \in InGame => status = 3

\* A list is announced with as many messages as follow the announcement.
Follow == Len(replies) - 1 + Rest

\* The request is read: what is still to come, for each reader.
ReadsMenu == replies = <<>> /\ Rest = 0 /\ at \notin {"accept", "count"} /\ Agree

ReadsEntries == at \notin {"accept", "count"} /\ toread = Len(replies) + Rest /\ Agree

ReadsGreeting ==
    /\ status = 1 /\ Agree
    /\ IF at \in {"accept", "count"} THEN replies = <<>>
       ELSE replies # <<>> /\ Head(replies).n = Follow

ReadsList ==
    /\ Agree
    /\ asking # "GLIS?" => status \in {1, 2}
    /\ \/ at = "count" /\ asking = "GAME?" /\ replies = <<>>
       \/ at = "closed" /\ asking = "GLIS?" /\ replies = <<>>
       \/ /\ at \notin {"accept", "count"} /\ replies # <<>>
          /\ IF Announced THEN Head(replies).n = Follow /\ Follow <= 127 ELSE Follow = 0
          /\ Head(replies).h = "GOBYE" => at = "closed" /\ status = 3

ReadsRegistration ==
    /\ at = "lobby" /\ status = 1 /\ Len(replies) = 1
    /\ Head(replies).h = "REGOK" <=> me # NoGame

ReadsUnregistration ==
    /\ at = "lobby" /\ status \in {1, 2} /\ Len(replies) = 1
    /\ IF Head(replies).h = "UNROK" THEN me = NoGame ELSE Agree

ReadsSize == at = "lobby" /\ status \in {1, 2} /\ Len(replies) = 1 /\ Agree

ReadsInGame ==
    /\ at \in {"play", "closed"} /\ status = 3
    /\ replies = <<>> => at = "closed"
    /\ Len(replies) \in {0, 1}
    /\ replies # <<>> /\ Head(replies).h = "GOBYE" => at = "closed"

ReadsWelcome ==
    /\ status = 2 /\ me # NoGame
    /\ \/ at \in {"waiting", "woken"} /\ replies = <<>>
       \/ at = "play" /\ replies = <<[h |-> "WELCO", n |-> 0], [h |-> "POSIT", n |-> 0]>>

ReadsPosition == at = "play" /\ status = 2 /\ replies = <<[h |-> "POSIT", n |-> 0]>>

Reading ==
    /\ requests = <<>>
    /\ asking = "none" => ReadsMenu
    /\ asking \in {"entries", "greeted"} => ReadsEntries
    /\ asking = "greeting" => ReadsGreeting
    /\ asking \in Listings => ReadsList
    /\ asking \in {"NEWPL", "REGIS"} => ReadsRegistration
    /\ asking = "UNREG" => ReadsUnregistration
    /\ asking = "SIZE?" => ReadsSize
    /\ asking \in {"IQUIT", "MOV", "MALL?", "SEND?"} => ReadsInGame
    /\ asking = "START" => ReadsWelcome
    /\ asking = "POSIT" => ReadsPosition

Sync ==
    ~astray => /\ ~left /\ at \notin {"dead", "nostart"} /\ WalkOK
               /\ Asked \/ Reading

Known == Typed /\ Sync /\ ~astray

LEMMA KnownFacts ==
    ASSUME Known
    PROVE  /\ ClientOK /\ RequestsOK /\ RepliesOK /\ ServerOK /\ WalkOK
           /\ ~left /\ at \notin {"dead", "nostart"} /\ (Asked \/ Reading)
           /\ Rest \in Nat /\ (at \notin {"rewind", "ogame", "playr", "gplyr"} => Rest = 0)
           /\ Len(replies) \in Nat /\ (replies = <<>> <=> Len(replies) = 0)
<1>1. ClientOK /\ RequestsOK /\ RepliesOK /\ ServerOK /\ WalkOK
  BY DEF Known, Typed, Sync
<1>2. ~left /\ at \notin {"dead", "nostart"} /\ (Asked \/ Reading)
  BY DEF Known, Sync
<1>3. Rest \in Nat /\ (at \notin {"rewind", "ogame", "playr", "gplyr"} => Rest = 0)
  BY <1>1, RestFacts
<1>4. Len(replies) \in Nat /\ (replies = <<>> <=> Len(replies) = 0)
  BY <1>1 DEF RepliesOK
<1> QED
  BY <1>1, <1>2, <1>3, <1>4

\* A message is there to be read, or the stream is at its end: nothing is
\* asked that is not answered yet.
LEMMA ReadersFind ==
    ASSUME Known, replies # <<>> \/ at \in Ended
    PROVE  Reading
BY KnownFacts DEF Asked, Ended

\* A request is there to be read: it is the one the client waits for.
LEMMA RequestFound ==
    ASSUME Known, requests # <<>>
    PROVE  /\ Asked /\ Head(requests).req = asking /\ Tail(requests) = <<>>
<1>1. Asked
  BY KnownFacts DEF Reading
<1>2. PICK m \in Ids \cup {NoGame} : requests = <<[req |-> asking, m |-> m]>>
  BY <1>1 DEF Asked
<1> DEFINE r == [req |-> asking, m |-> m]
<1>3. r.req = asking /\ requests = <<r>>
  BY <1>2
<1> HIDE DEF r
<1> QED
  BY <1>1, <1>3

LEMMA MenuKeeps ==
    ASSUME Known, Menu, ~astray'
    PROVE  Sync'
<1>1. PICK req, m : Sends(req, m)
  BY MenuSends
<1>2. UNCHANGED <<status, toread, left, replies, server, games>>
  BY MenuFrame
<1>3. Reading /\ asking = "none" /\ ReadsMenu
  BY <1>1, KnownFacts DEF Sends, Asked, Asks, InLobby, InGame, Reading
<1>4. WalkOK' /\ Rest' = Rest
  BY <1>2, KnownFacts, WalkFrame DEF server
<1>5. Agree' /\ Agree
  BY <1>2, <1>3 DEF Agree, ReadsMenu, server
<1>6. CASE at = "closed"
  <2>1. requests' = <<>> /\ asking' = req /\ req \in Asks
    BY <1>1, <1>3, <1>6 DEF Sends, Ended, Reading
  <2>2. status \in {3, 4}
    BY <1>5, <1>6, KnownFacts DEF Agree, ClientOK, Games
  <2>3. req \in InGame /\ req \notin InLobby /\ status = 3
    BY <1>1, <2>2 DEF Sends, Asks
  <2>4. Reading'
    BY <1>2, <1>3, <1>5, <1>6, <2>1, <2>3
    DEF Reading, ReadsMenu, ReadsList, ReadsInGame, InGame, InLobby, Listings, server
  <2> QED
    BY <2>4, <1>2, <1>4, KnownFacts DEF Sync, server
<1>7. CASE at # "closed"
  <2>1. requests' = <<[req |-> req, m |-> m]>>
    BY <1>1, <1>3, <1>7, KnownFacts DEF Sends, Ended, Reading
  <2>2. Asked'
    BY <1>1, <1>2, <1>3, <1>4, <1>5, <1>7, <2>1 DEF Asked, Sends, ReadsMenu, server
  <2> QED
    BY <2>2, <1>2, <1>4, KnownFacts DEF Sync, server
<1> QED
  BY <1>6, <1>7

LEMMA FirstRead ==
    ASSUME Known, ReadFirstMessage, ~astray'
    PROVE  /\ ~left' /\ replies # <<>> /\ replies' = Tail(replies)
           /\ Len(replies') = Len(replies) - 1 /\ Len(replies') \in Nat
           /\ Len(replies) = 1 => replies' = <<>>
           /\ UNCHANGED <<requests, server, games>>
<1>1. /\ ~left' /\ replies # <<>> /\ replies' = Tail(replies)
      /\ UNCHANGED <<requests, server, games>>
  BY KnownFacts DEF ReadFirstMessage, ClientOK
<1>2. replies \in Seq(Message)
  BY KnownFacts DEF RepliesOK
<1>3. Len(replies') = Len(replies) - 1 /\ Len(replies') \in Nat /\ (Len(replies) = 1 => replies' = <<>>)
  BY <1>1, <1>2
<1> QED
  BY <1>1, <1>3

\* The client is back at a menu, and nothing is left of the answer.
LEMMA BackToMenu ==
    ASSUME Known, Reading, UNCHANGED <<requests, server, games>>, ~left',
           asking' = "none", replies' = <<>>, Rest = 0, at \notin {"accept", "count"}, Agree'
    PROVE  Sync'
<1>1. WalkOK' /\ Rest' = Rest
  BY KnownFacts, WalkFrame
<1>2. ReadsMenu'
  BY <1>1 DEF ReadsMenu, server
<1>3. Reading'
  BY <1>2 DEF Reading, Listings
<1> QED
  BY <1>1, <1>3, KnownFacts DEF Sync, server

\* The client goes on with the messages that were announced.
LEMMA OnToEntries ==
    ASSUME Known, Reading, UNCHANGED <<requests, server, games, status>>, ~left',
           at \notin {"accept", "count"}, Agree, 
           RepliesOK', Len(replies') = Len(replies) - 1,
           toread' = Len(replies) - 1 + Rest,
           asking' \in {"none", "entries", "greeted"}, asking' = "none" => toread' = 0
    PROVE  Sync'
<1>1. WalkOK' /\ Rest' = Rest /\ Rest \in Nat /\ Len(replies) \in Nat
  BY KnownFacts, WalkFrame
<1>2. Agree'
  BY DEF Agree, server
<1>3. Len(replies') \in Nat /\ (replies' = <<>> <=> Len(replies') = 0)
  BY DEF RepliesOK
<1>4. toread' = Len(replies') + Rest
  BY <1>1
<1>5. CASE asking' = "none"
  <2>1. replies' = <<>> /\ Rest = 0
    BY <1>1, <1>3, <1>4, <1>5
  <2> QED
    BY <2>1, <1>2, <1>5, BackToMenu
<1>6. CASE asking' # "none"
  <2>1. ReadsEntries'
    BY <1>1, <1>2, <1>4 DEF ReadsEntries, server
  <2>2. Reading'
    BY <2>1, <1>6 DEF Reading, Listings
  <2> QED
    BY <2>2, <1>1, KnownFacts DEF Sync, server
<1> QED
  BY <1>5, <1>6

LEMMA ReaderKeeps ==
    ASSUME Known, Reader, ~astray'
    PROVE  Sync'
<1>0. /\ ClientOK /\ ~left /\ Rest \in Nat /\ Len(replies) \in Nat
      /\ replies = <<>> <=> Len(replies) = 0
      /\ at \notin {"rewind", "ogame", "playr", "gplyr"} => Rest = 0
  BY KnownFacts
<1>1. Reading
  BY ReadersFind
  DEF Reader, ReadRegistration, ReadUnregistration, ReadSize, ReadList, ReadEntry,
      InitPlayer, ReadWelcome, ReadPosition, ReadInGame, ReadNothing, ReadFirstMessage
<1>2. UNCHANGED <<requests, server, games>> /\ UNCHANGED <<at, me>>
  BY ReaderFrame DEF server
<1>3. CASE ReadRegistration
  <2>1. ReadsRegistration
    BY <1>1, <1>3 DEF Reading, ReadRegistration
  <2>2. ~left' /\ replies' = <<>>
    BY <1>3, <2>1, FirstRead DEF ReadRegistration, ReadsRegistration
  <2>3. asking' = "none" /\ status' = IF me # NoGame THEN 2 ELSE 1
    BY <1>0, <1>3, <2>1 DEF ReadRegistration, ReadsRegistration, Got
  <2>4. Agree' /\ at = "lobby"
    BY <1>2, <2>1, <2>3 DEF Agree, ReadsRegistration
  <2> QED
    BY <1>0, <1>1, <1>2, <2>2, <2>3, <2>4, BackToMenu
<1>4. CASE ReadUnregistration
  <2>1. ReadsUnregistration
    BY <1>1, <1>4 DEF Reading, ReadUnregistration
  <2>2. ~left' /\ replies' = <<>>
    BY <1>4, <2>1, FirstRead DEF ReadUnregistration, ReadsUnregistration
  <2>3. asking' = "none" /\ status' = IF Head(replies).h = "UNROK" THEN 1 ELSE status
    BY <1>0, <1>4 DEF ReadUnregistration, Got
  <2>4. Agree' /\ at = "lobby"
    BY <1>2, <2>1, <2>3 DEF Agree, ReadsUnregistration
  <2> QED
    BY <1>0, <1>1, <1>2, <2>2, <2>3, <2>4, BackToMenu
<1>5. CASE ReadSize
  <2>1. ReadsSize
    BY <1>1, <1>5 DEF Reading, ReadSize
  <2>2. ~left' /\ replies' = <<>> /\ asking' = "none" /\ status' = status
    BY <1>5, <2>1, FirstRead DEF ReadSize, ReadsSize
  <2>3. Agree' /\ at = "lobby"
    BY <1>2, <2>1, <2>2 DEF Agree, ReadsSize
  <2> QED
    BY <1>0, <1>1, <1>2, <2>2, <2>3, BackToMenu
<1>6. CASE ReadList
  <2>1. /\ ~left' /\ replies # <<>> /\ replies' = Tail(replies) /\ Len(replies') = Len(replies) - 1
        /\ Len(replies') \in Nat
    BY <1>6, FirstRead DEF ReadList
  <2>2. ReadsList
    BY <1>1, <1>6 DEF Reading, ReadList
  <2>3. /\ at \notin {"accept", "count"} /\ Agree
        /\ IF Announced THEN Head(replies).n = Follow /\ Follow <= 127 ELSE Follow = 0
        /\ Head(replies).h = "GOBYE" => at = "closed" /\ status = 3
    BY <2>1, <2>2 DEF ReadsList
  <2>4. CASE Announced
    <3>1. Follow \in Int /\ Follow = Len(replies) - 1 + Rest
      BY <1>0 DEF Follow
    <3>2. toread' = Follow /\ status' = status /\ asking' = IF toread' = 0 THEN "none" ELSE "entries"
      BY <1>6, <2>3, <2>4, <3>1 DEF ReadList, ReadEntries
    <3>3. RepliesOK'
      BY <2>1, HeadFacts, KnownFacts DEF RepliesOK
    <3> QED
      BY <1>1, <1>2, <2>1, <2>3, <3>1, <3>2, <3>3, OnToEntries
  <2>5. CASE ~Announced
    <3>1. Rest = 0 /\ Len(replies') = 0
      BY <1>0, <2>1, <2>3, <2>5 DEF Follow
    <3>2. replies' = <<>>
      BY <1>0, <2>1, <3>1, FirstRead, <1>6 DEF ReadList
    <3>3. asking' = "none" /\ status' \in {status, 4} /\ (status' = 4 => status = 4 \/ at = "closed")
      BY <1>0, <1>6, <2>3, <2>5 DEF ReadList, Got
    <3>4. Agree'
      BY <1>2, <2>3, <3>3 DEF Agree
    <3> QED
      BY <1>1, <1>2, <2>1, <2>3, <3>1, <3>2, <3>3, <3>4, BackToMenu
  <2> QED
    BY <2>4, <2>5
<1>7. CASE ReadEntry
  <2>1. /\ ~left' /\ replies # <<>> /\ replies' = Tail(replies) /\ Len(replies') = Len(replies) - 1
    BY <1>7, FirstRead DEF ReadEntry
  <2>2. ReadsEntries
    BY <1>1, <1>7 DEF Reading, ReadEntry
  <2>3. /\ toread' = toread - 1 /\ status' = status
        /\ asking' = IF toread = 1 THEN "none" ELSE "entries"
    BY <1>7 DEF ReadEntry
  <2>4. toread' = Len(replies) - 1 + Rest /\ (asking' = "none" => toread' = 0)
    BY <1>0, <2>2, <2>3 DEF ReadsEntries
  <2>5. RepliesOK'
    BY <2>1, HeadFacts, KnownFacts DEF RepliesOK
  <2> QED
    BY <1>1, <1>2, <2>1, <2>2, <2>3, <2>4, <2>5, OnToEntries DEF ReadsEntries
<1>8. CASE InitPlayer
  <2>1. /\ replies # <<>> /\ replies' = Tail(replies) /\ ~left' /\ status' = status
        /\ asking' = IF toread' = 0 THEN "none" ELSE "greeted"
    BY <1>0, <1>8 DEF InitPlayer
  <2>2. Len(replies') = Len(replies) - 1 /\ RepliesOK'
    BY <2>1, HeadFacts, KnownFacts DEF RepliesOK
  <2>3. /\ toread' = Len(replies) - 1 + Rest /\ at \notin {"accept", "count"} /\ Agree
    <3>1. CASE asking = "greeting"
      <4>1. ReadsGreeting
        BY <1>1, <3>1 DEF Reading
      <4> QED
        BY <1>8, <2>1, <3>1, <4>1 DEF InitPlayer, ReadsGreeting, Follow
    <3>2. CASE asking = "greeted"
      <4>1. ReadsEntries /\ toread' = toread - 1
        BY <1>1, <1>8, <3>2 DEF Reading, InitPlayer
      <4> QED
        BY <1>0, <4>1 DEF ReadsEntries
    <3> QED
      BY <3>1, <3>2, <1>8 DEF InitPlayer
  <2> QED
    BY <1>1, <1>2, <2>1, <2>2, <2>3, OnToEntries
<1>9. CASE ReadWelcome
  <2> DEFINE w == [h |-> "WELCO", n |-> 0]
             p == [h |-> "POSIT", n |-> 0]
  <2>1. ~left' /\ replies # <<>> /\ replies' = Tail(replies)
    BY <1>9, FirstRead DEF ReadWelcome
  <2>2. at = "play" /\ status = 2 /\ replies = <<w, p>>
    BY <1>1, <1>9, <2>1 DEF Reading, ReadWelcome, ReadsWelcome
  <2>3. w.h = "WELCO"
    OBVIOUS
  <2> HIDE DEF w
  <2>4. replies' = <<p>> /\ Head(replies) = w
    BY <2>1, <2>2
  <2>5. asking' = "POSIT" /\ status' = 2
    BY <1>0, <1>9, <2>2, <2>3, <2>4 DEF ReadWelcome, Got
  <2>6. ReadsPosition'
    BY <1>2, <2>2, <2>4, <2>5 DEF ReadsPosition
  <2>7. Reading'
    BY <1>1, <1>2, <2>5, <2>6 DEF Reading, Listings
  <2> QED
    BY <1>2, <2>1, <2>7, KnownFacts, WalkFrame DEF Sync
<1>10. CASE ReadPosition
  <2> DEFINE p == [h |-> "POSIT", n |-> 0]
  <2>1. ~left' /\ replies' = Tail(replies)
    BY <1>10, FirstRead DEF ReadPosition
  <2>2. at = "play" /\ status = 2 /\ replies = <<p>>
    BY <1>1, <1>10 DEF Reading, ReadPosition, ReadsPosition
  <2>3. p.h = "POSIT"
    OBVIOUS
  <2> HIDE DEF p
  <2>4. replies' = <<>> /\ Head(replies) = p
    BY <2>1, <2>2
  <2>5. asking' = "none" /\ status' = 3
    BY <1>0, <1>10, <2>3, <2>4 DEF ReadPosition, Got
  <2>6. Agree'
    BY <1>2, <2>2, <2>5 DEF Agree
  <2> QED
    BY <1>0, <1>1, <1>2, <2>1, <2>2, <2>4, <2>5, <2>6, BackToMenu
<1>11. CASE ReadInGame
  <2>1. ~left' /\ replies # <<>> /\ (Len(replies) = 1 => replies' = <<>>)
    BY <1>11, FirstRead DEF ReadInGame
  <2>2. ReadsInGame
    BY <1>1, <1>11 DEF Reading, ReadInGame
  <2>3. replies' = <<>>
    BY <1>0, <2>1, <2>2 DEF ReadsInGame
  <2>4. asking' = "none" /\ status' \in {3, 4} /\ (status' = 4 => at = "closed")
    BY <1>0, <1>11, <2>1, <2>2 DEF ReadInGame, ReadsInGame, Got
  <2>5. Agree' /\ at \in {"play", "closed"}
    BY <1>2, <2>2, <2>4 DEF Agree, ReadsInGame
  <2> QED
    BY <1>0, <1>1, <1>2, <2>1, <2>3, <2>4, <2>5, BackToMenu
<1>12. CASE ReadNothing
  <2>1. at = "closed" /\ replies = <<>> /\ asking \notin {"none", "START"} /\ asking' = "none"
    BY <1>12, KnownFacts DEF ReadNothing, Ended
  <2>2. asking \notin {"entries", "greeted"}
    BY <1>0, <1>1, <2>1 DEF Reading, ReadsEntries, ClientOK
  <2>3. asking # "greeting"
    BY <1>1, <2>1 DEF Reading, ReadsGreeting, Agree, Games
  <2>4. asking \in Listings \/ asking \in {"IQUIT", "MOV", "MALL?", "SEND?"}
    BY <1>0, <1>1, <2>1, <2>2, <2>3
    DEF Reading, ReadsRegistration, ReadsUnregistration, ReadsSize, ReadsPosition, ClientOK,
        Ask0, Asks, InLobby, InGame, Listings
  <2>5. status' = status /\ Agree
    BY <1>1, <1>12, <2>1, <2>4 DEF ReadNothing, Reading, ReadsList, ReadsInGame, Agree, Listings
  <2>6. Agree' /\ ~left' /\ replies' = <<>>
    BY <1>0, <1>2, <1>12, <2>1, <2>5 DEF Agree, ReadNothing
  <2> QED
    BY <1>0, <1>1, <1>2, <2>1, <2>6, BackToMenu
<1> QED
  BY <1>3, <1>4, <1>5, <1>6, <1>7, <1>8, <1>9, <1>10, <1>11, <1>12 DEF Reader

\* One turn of a loop keeps what both sides expect.
LEMMA TurnKeeps ==
    ASSUME Known, Turned, at \in {"rewind", "ogame", "playr", "gplyr"},
           UNCHANGED <<client, requests, me>>, Len(replies') \in Nat
    PROVE  Sync'
<1>0. /\ ClientOK /\ ~left /\ Rest \in Nat /\ Len(replies) \in Nat /\ (Asked \/ Reading)
      /\ replies = <<>> <=> Len(replies) = 0
  BY KnownFacts
<1>1. UNCHANGED <<status, asking, toread, left>>
  BY DEF client
<1>2. /\ WalkOK' /\ Rest' \in Nat /\ Len(replies') + Rest' = Len(replies) + Rest
      /\ \/ UNCHANGED replies
         \/ Rest > 0 /\ \E h \in Heads, n \in 0 .. 255 : Send(h, n)
  BY DEF Turned
<1>7. at' \in {"rewind", "ogame", "playr", "gplyr", "lobby", "play"}
  BY DEF Turned
<1>8. /\ Len(replies') - 1 + Rest' = Len(replies) - 1 + Rest
      /\ Len(replies) = 0 /\ Rest = 0 => Rest' = 0
  <2> DEFINE a == Len(replies')  b == Rest'  c == Len(replies)  d == Rest
  <2>1. a \in Nat /\ b \in Nat /\ c \in Nat /\ d \in Nat /\ a + b = c + d
    BY <1>0, <1>2
  <2> HIDE DEF a, b, c, d
  <2>2. a - 1 + b = c - 1 + d /\ (c = 0 /\ d = 0 => b = 0)
    BY <2>1
  <2> QED
    BY <2>2 DEF a, b, c, d
<1>3. Agree => Agree'
  BY <1>1, <1>2, <1>7 DEF Agree, Turned, Games
<1>4. replies # <<>> => replies' # <<>> /\ Head(replies') = Head(replies)
  <2>1. SUFFICES ASSUME replies # <<>>, NEW h, NEW n, Send(h, n)
                 PROVE  replies' # <<>> /\ Head(replies') = Head(replies)
    BY <1>2
  <2> DEFINE r == [h |-> h, n |-> n]
  <2>2. replies' = Append(replies, r)
    BY <2>1 DEF Send
  <2> HIDE DEF r
  <2> QED
    BY <2>1, <2>2, KnownFacts DEF RepliesOK
<1>5. CASE Asked \/ asking = "none"
  <2>1. Rest = 0 /\ replies = <<>>
    BY <1>0, <1>5 DEF Asked, Reading, ReadsMenu, Asks, InLobby, InGame
  <2>2. replies' = <<>>
    BY <2>1, <1>2
  <2>3. Len(replies') = 0 /\ Len(replies) = 0
    BY <2>1, <2>2
  <2>4. Rest' = 0
    BY <2>1, <2>3, <1>8
  <2>5. CASE Asked
    <3>1. Asked'
      BY <1>1, <1>2, <1>7, <1>3, <2>2, <2>4, <2>5 DEF Asked
    <3> QED
      BY <3>1, <1>0, <1>1, <1>2, <1>7 DEF Sync
  <2>6. CASE ~Asked
    <3>1. ReadsMenu' /\ requests' = <<>> /\ asking' = "none"
      BY <1>0, <1>1, <1>2, <1>7, <1>3, <1>5, <2>2, <2>4, <2>6 DEF Reading, ReadsMenu
    <3>2. Reading'
      BY <3>1 DEF Reading, Listings
    <3> QED
      BY <3>2, <1>0, <1>1, <1>2, <1>7 DEF Sync
  <2> QED
    BY <2>5, <2>6
<1>6. CASE Reading /\ asking # "none"
  <2>1. asking \in {"entries", "greeted", "greeting"} \cup Listings
    BY <1>0, <1>6
    DEF Reading, ReadsRegistration, ReadsUnregistration, ReadsSize, ReadsPosition, ReadsInGame,
        ReadsWelcome, ClientOK, Ask0, Asks, InLobby, InGame, Listings
  <2>2. Follow' = Follow
    BY <1>8 DEF Follow
  <2>3. CASE asking \in {"entries", "greeted"}
    <3>1. ReadsEntries'
      BY <1>1, <1>2, <1>7, <1>3, <1>6, <2>3 DEF Reading, ReadsEntries
    <3> QED
      BY <3>1, <2>3, <1>0, <1>1, <1>2, <1>7, <1>6 DEF Reading, Sync, Listings
  <2>4. CASE asking = "greeting"
    <3>1. ReadsGreeting'
      BY <1>1, <1>2, <1>7, <1>3, <1>4, <1>6, <2>2, <2>4 DEF Reading, ReadsGreeting
    <3> QED
      BY <3>1, <2>4, <1>0, <1>1, <1>2, <1>7, <1>6 DEF Reading, Sync, Listings
  <2>5. CASE asking \in Listings
    <3>1. /\ replies # <<>> /\ Agree /\ (asking # "GLIS?" => status \in {1, 2})
          /\ IF Announced THEN Head(replies).n = Follow /\ Follow <= 127 ELSE Follow = 0
          /\ Head(replies).h # "GOBYE"
      BY <1>6, <2>5 DEF Reading, ReadsList
    <3>2. Announced' <=> Announced
      BY <3>1, <1>1, <1>4 DEF Announced, Got
    <3>3. ReadsList'
      BY <3>1, <3>2, <1>1, <1>7, <1>3, <1>4, <2>2 DEF ReadsList
    <3> QED
      BY <3>3, <2>5, <1>0, <1>1, <1>2, <1>7, <1>6 DEF Reading, Sync, Listings
  <2> QED
    BY <2>1, <2>3, <2>4, <2>5
<1> QED
  BY <1>0, <1>5, <1>6

\* A request is read, and answered by the steps that follow.
LEMMA Answers ==
    ASSUME Known, requests # <<>>, requests' = Tail(requests), UNCHANGED client,
           WalkOK', at' \notin {"dead", "nostart"},
           Asked => /\ asking \in Listings => ReadsList'
                    /\ asking \in {"NEWPL", "REGIS"} => ReadsRegistration'
                    /\ asking = "UNREG" => ReadsUnregistration'
                    /\ asking = "SIZE?" => ReadsSize'
                    /\ asking \in {"IQUIT", "MOV", "MALL?", "SEND?"} => ReadsInGame'
                    /\ asking = "START" => ReadsWelcome'
    PROVE  Sync'
<1>1. Asked /\ requests' = <<>>
  BY RequestFound
<1>2. asking' = asking /\ asking \in Asks /\ ~left'
  BY <1>1, KnownFacts DEF Asked, client
<1>3. Reading'
  BY <1>1, <1>2 DEF Reading, Asks, InLobby, InGame, Listings
<1> QED
  BY <1>2, <1>3 DEF Sync

\* The answer is one message.
LEMMA OneReply ==
    ASSUME Known, Asked, NEW h, NEW n, Send(h, n)
    PROVE  /\ replies' # <<>> /\ Len(replies') = 1
           /\ Head(replies').h = h /\ Head(replies').n = n
<1> DEFINE r == [h |-> h, n |-> n]
<1>1. replies' = Append(<<>>, r) /\ r.h = h /\ r.n = n
  BY DEF Asked, Send
<1> HIDE DEF r
<1> QED
  BY <1>1

\* ... and announces how many follow.
LEMMA Announces ==
    ASSUME Known, Asked, NEW h, NEW n, Send(h, n), n \in Nat, n <= 127, Rest' = n
    PROVE  /\ replies' # <<>> /\ Head(replies').h = h
           /\ Head(replies').n = Follow' /\ Follow' <= 127
<1>1. replies' # <<>> /\ Len(replies') = 1 /\ Head(replies').h = h /\ Head(replies').n = n
  BY OneReply
<1>2. Follow' = n
  BY <1>1 DEF Follow
<1> QED
  BY <1>1, <1>2

LEMMA LobbyKeeps ==
    ASSUME Known, NewGame \/ RegisterGame \/ FuncUnreg \/ StartGame \/ GetSizeMap, ~astray'
    PROVE  Sync'
<1>1. /\ at = "lobby" /\ requests # <<>> /\ Head(requests).req \in Asks
      /\ requests' = Tail(requests) /\ UNCHANGED client
  BY DEF NewGame, RegisterGame, FuncUnreg, StartGame, GetSizeMap, Take, Asks, InLobby
<1>2. /\ Asked /\ asking = Head(requests).req /\ replies = <<>> /\ Agree
      /\ UNCHANGED <<status, asking>> /\ ServerOK
  BY <1>1, RequestFound, KnownFacts DEF Asked, client
<1>3. ASSUME at' \notin Walks PROVE WalkOK'
  BY <1>3 DEF WalkOK, Walks, Games
<1>4. CASE NewGame
  <2>1. /\ asking = "NEWPL" /\ at' = "lobby" /\ status' = 1
        /\ \E m \in Unused : me' = m /\ Send("REGOK", m)
    BY <1>2, <1>4 DEF NewGame, Take, Asked
  <2>2. me' # NoGame
    BY <2>1, SessionAssumption DEF Unused
  <2>3. ReadsRegistration'
    BY <1>2, <2>1, <2>2, OneReply DEF ReadsRegistration
  <2> QED
    BY <1>1, <1>3, <2>1, <2>3, Answers DEF Walks, Games, Listings
<1>5. CASE RegisterGame
  <2>1. /\ asking = "REGIS" /\ at' = "lobby" /\ status' = 1 /\ me = NoGame
    BY <1>2, <1>5 DEF RegisterGame, Take, Asked
  <2>2. \/ Send("REGNO", 0) /\ me' = NoGame
        \/ \E m : Exists(m) /\ me' = m /\ Send("REGOK", m)
    BY <1>5, <2>1 DEF RegisterGame
  <2>3. \A m : Exists(m) => m # NoGame
    BY <1>2, GamesFacts, RecFacts DEF Exists
  <2>4. ReadsRegistration'
    BY <1>2, <2>1, <2>2, <2>3, OneReply DEF ReadsRegistration
  <2> QED
    BY <1>1, <1>3, <2>1, <2>4, Answers DEF Walks, Games, Listings
<1>6. CASE FuncUnreg
  <2>1. asking = "UNREG" /\ at' = "lobby" /\ status \in {1, 2}
    BY <1>2, <1>6 DEF FuncUnreg, Take, Asked, InLobby
  <2>2. \/ Send("DUNNO", 0) /\ me' = me
        \/ \E m : Send("UNROK", m) /\ me' = NoGame
    BY <1>6 DEF FuncUnreg
  <2>3. me' = me => Agree'
    BY <1>1, <1>2, <2>1 DEF Agree
  <2>4. ReadsUnregistration'
    BY <1>2, <2>1, <2>2, <2>3, OneReply DEF ReadsUnregistration
  <2> QED
    BY <1>1, <1>3, <2>1, <2>4, Answers DEF Walks, Games, Listings
<1>7. CASE StartGame
  <2>1. asking = "START" /\ status = 2 /\ me # NoGame
    BY <1>2, <1>7 DEF StartGame, Take, Asked, Agree
  <2>2. at' = "waiting" /\ me' = me /\ replies' = <<>>
    BY <1>2, <1>7, <2>1 DEF StartGame, Goto
  <2>3. ReadsWelcome'
    BY <1>2, <2>1, <2>2 DEF ReadsWelcome
  <2> QED
    BY <1>1, <1>3, <2>1, <2>2, <2>3, Answers DEF Walks, Games, Listings
<1>8. CASE GetSizeMap
  <2>1. /\ asking = "SIZE?" /\ at' = "lobby" /\ status \in {1, 2} /\ me' = me
        /\ Send("SIZE!", 0) \/ Send("DUNNO", 0)
    BY <1>1, <1>2, <1>8 DEF GetSizeMap, Take, Asked, InLobby, Stay
  <2>2. Agree'
    BY <1>1, <1>2, <2>1 DEF Agree
  <2>3. ReadsSize'
    BY <1>2, <2>1, <2>2, OneReply DEF ReadsSize
  <2> QED
    BY <1>1, <1>3, <2>1, <2>3, Answers DEF Walks, Games, Listings
<1> QED
  BY <1>4, <1>5, <1>6, <1>7, <1>8

LEMMA ListsKeep ==
    ASSUME Known, SendList \/ SendGames \/ SendGlis, ~astray'
    PROVE  Sync'
<1>0. ServerOK /\ ~left /\ Len(replies) \in Nat /\ (Asked \/ Reading)
  BY KnownFacts
<1>1. CASE at = "accept"
  <2>1. /\ SendGames /\ ~Blocked /\ at' = "count" /\ i' = 0 /\ ptr' = First /\ games_waiting' = 0
        /\ UNCHANGED <<me, replies, games>>
    BY <1>1 DEF SendList, SendGames, SendGlis, Take
  <2>2. UNCHANGED <<requests, status, asking, toread, left>>
    BY <1>1, <2>1 DEF SendGames, Take, client
  <2>3. WalkOK'
    BY <1>0, <2>1, CountBegins
  <2>4. asking = "greeting" /\ Reading
    BY <1>0, <1>1, KnownFacts
    DEF Asked, Reading, ReadsMenu, ReadsEntries, ReadsList, ReadsRegistration, ReadsUnregistration,
        ReadsSize, ReadsInGame, ReadsWelcome, ReadsPosition, ClientOK, Ask0, Asks, InLobby, InGame, Listings
  <2>5. ReadsGreeting'
    BY <1>1, <2>1, <2>2, <2>4 DEF Reading, ReadsGreeting, Agree, Games
  <2>6. Reading'
    BY <2>2, <2>4, <2>5 DEF Reading, Listings
  <2> QED
    BY <1>0, <2>1, <2>2, <2>3, <2>6 DEF Sync
<1>2. CASE at # "accept"
  <2>1. /\ requests # <<>> /\ requests' = Tail(requests) /\ UNCHANGED <<client, me, games>>
        /\ Head(requests).req \in Listings
    BY <1>2 DEF SendList, SendGames, SendGlis, Take, Listings, Stay
  <2>2. /\ Asked /\ asking = Head(requests).req /\ replies = <<>> /\ Agree
        /\ UNCHANGED <<status, asking, left>>
    BY <2>1, RequestFound DEF Asked, client
  <2>3. CASE SendGames
    <3>1. /\ ~Blocked /\ at' = "count" /\ i' = 0 /\ ptr' = First /\ games_waiting' = 0
          /\ UNCHANGED <<replies, games>> /\ asking = "GAME?" /\ at = "lobby"
      BY <1>2, <2>2, <2>3 DEF SendGames, Take
    <3>2. WalkOK'
      BY <1>0, <3>1, CountBegins
    <3>3. status \in {1, 2} /\ Agree'
      BY <2>1, <2>2, <3>1 DEF Asked, InLobby, Agree, Games
    <3>4. ReadsList'
      BY <2>2, <3>1, <3>3 DEF ReadsList
    <3> QED
      BY <2>1, <2>2, <3>1, <3>2, <3>4, Answers DEF Listings
  <2>4. CASE SendList
    <3>1. at = "lobby" /\ asking = "LIST?" /\ status \in {1, 2}
      BY <2>2, <2>4 DEF SendList, Take, Asked, InLobby
    <3>2. CASE Send("DUNNO", 0) /\ at' = "lobby"
      <4>1. WalkOK' /\ Rest' = 0
        BY <3>2 DEF WalkOK, Rest, Games
      <4>2. Follow' = 0 /\ replies' # <<>> /\ Head(replies').h = "DUNNO"
        BY <2>2, <3>2, <4>1, OneReply DEF Follow
      <4>3. Agree'
        BY <2>1, <2>2, <3>1, <3>2 DEF Agree
      <4>4. ReadsList'
        BY <2>2, <3>1, <3>2, <4>2, <4>3 DEF ReadsList, Announced, Got
      <4> QED
        BY <2>1, <2>2, <3>1, <3>2, <4>1, <4>4, Answers DEF Listings
    <3>3. CASE ~(Send("DUNNO", 0) /\ at' = "lobby")
      <4> DEFINE g == Game(Head(requests).m)
      <4>1. /\ Exists(Head(requests).m) /\ at' = "playr" /\ i' = 0 /\ ptr' = g
            /\ Send("LIST!", games[g].joueurs)
        BY <2>4, <3>1, <3>3 DEF SendList, Stay
      <4>2. g \in DOMAIN games
        BY <1>0, <4>1, GameFacts
      <4> HIDE DEF g
      <4>5. /\ WalkOK' /\ Rest' = games[g].joueurs
            /\ games[g].joueurs \in Nat /\ games[g].joueurs <= 127
        BY <1>0, <2>1, <4>1, <4>2, PlayersBegin
      <4>6. /\ replies' # <<>> /\ Head(replies').h = "LIST!"
            /\ Head(replies').n = Follow' /\ Follow' <= 127
        BY <2>2, <4>1, <4>5, Announces
      <4>7. Agree'
        BY <2>1, <2>2, <3>1, <4>1 DEF Agree
      <4>8. ReadsList'
        BY <1>0, <2>2, <3>1, <4>1, <4>6, <4>7 DEF ReadsList, Announced, Got
      <4> QED
        BY <2>1, <2>2, <3>1, <4>1, <4>5, <4>8, Answers DEF Listings
    <3> QED
      BY <3>2, <3>3
  <2>5. CASE SendGlis
    <3> DEFINE g == Game(me)
    <3>1. at = "play" /\ asking = "GLIS?" /\ status = 3 /\ me # NoGame
      BY <1>0, <2>2, <2>5 DEF SendGlis, Take, Asked, InGame, ServerOK
    <3>2. at' = "gplyr" /\ i' = 0 /\ ptr' = g /\ Send("GLIS!", games[g].joueurs)
      BY <2>5 DEF SendGlis
    <3>3. g \in DOMAIN games
      BY <1>0, <3>1, MyGame
    <3> HIDE DEF g
    <3>6. /\ WalkOK' /\ Rest' = games[g].joueurs
          /\ games[g].joueurs \in Nat /\ games[g].joueurs <= 127
      BY <1>0, <2>1, <3>2, <3>3, PlayersBegin
    <3>7. /\ replies' # <<>> /\ Head(replies').h = "GLIS!"
          /\ Head(replies').n = Follow' /\ Follow' <= 127
      BY <2>2, <3>2, <3>6, Announces
    <3>8. Agree'
      BY <2>1, <2>2, <3>1, <3>2 DEF Agree
    <3>9. ReadsList'
      BY <1>0, <2>2, <3>1, <3>2, <3>7, <3>8 DEF ReadsList, Announced, Got
    <3> QED
      BY <2>1, <2>2, <3>1, <3>2, <3>6, <3>9, Answers DEF Listings
  <2> QED
    BY <2>3, <2>4, <2>5
<1> QED
  BY <1>1, <1>2

LEMMA PlayKeeps ==
    ASSUME Known, SendAll \/ SendMess \/ MovPlayer \/ Quit, ~astray'
    PROVE  Sync'
<1>0. ServerOK /\ at \notin {"dead", "nostart"}
  BY KnownFacts
<1>1. at = "play" /\ requests # <<>> /\ UNCHANGED client
  BY <1>0 DEF SendAll, SendMess, MovPlayer, Quit, Take
<1>2. /\ Asked /\ asking = Head(requests).req /\ replies = <<>> /\ Tail(requests) = <<>>
      /\ UNCHANGED <<status, asking, left>> /\ status = 3 /\ asking \in InGame
  <2>1. /\ Asked /\ asking = Head(requests).req /\ replies = <<>> /\ Tail(requests) = <<>> /\ Agree
        /\ UNCHANGED <<status, asking, left>> /\ asking \in Asks
    BY <1>1, RequestFound DEF Asked, client
  <2>2. status = 3
    BY <1>1, <2>1, KnownFacts DEF Agree, ClientOK, Games
  <2>3. asking \in InGame
    BY <2>1, <2>2 DEF Asked, Asks
  <2> QED
    BY <2>1, <2>2, <2>3
<1>3. requests' = Tail(requests)
  BY <1>2 DEF SendAll, SendMess, MovPlayer, Quit, Take
<1>4. at' \notin Walks => WalkOK' /\ Rest' = 0
  BY DEF WalkOK, Rest, Walks, Games
<1>5. CASE SendAll \/ SendMess \/ MovPlayer
  <2>1. /\ asking \in {"MALL?", "SEND?", "MOV"} /\ at' = "play"
        /\ \E h \in {"MALL!", "SEND!", "NSEND", "MOVE!"} : Send(h, 0)
    BY <1>1, <1>2, <1>5 DEF SendAll, SendMess, MovPlayer, Take, Stay
  <2>2. ReadsInGame'
    BY <1>2, <2>1, OneReply DEF ReadsInGame
  <2> QED
    BY <1>1, <1>3, <1>4, <2>1, <2>2, Answers DEF Walks, Games, Listings
<1>6. CASE Quit
  <2>1. Send("GOBYE", 0) /\ at' = "closed"
    BY <1>6 DEF Quit
  <2>2. replies' # <<>> /\ Len(replies') = 1 /\ Head(replies').h = "GOBYE"
    BY <1>2, <2>1, OneReply
  <2>3. ReadsInGame'
    BY <1>2, <2>1, <2>2 DEF ReadsInGame
  <2>4. WalkOK' /\ Rest' = 0
    BY <1>4, <2>1 DEF Walks, Games
  <2>5. asking \in Listings => ReadsList'
    <3>1. Agree' /\ Follow' = 0
      BY <1>2, <2>1, <2>2, <2>4 DEF Agree, Follow
    <3>2. asking \in Listings => asking = "GLIS?"
      BY <1>2 DEF Listings, InGame
    <3> QED
      BY <1>2, <2>1, <2>2, <3>1, <3>2 DEF ReadsList, Announced, Got
  <2>6. asking \notin {"NEWPL", "REGIS", "UNREG", "SIZE?", "START"}
    BY <1>2 DEF InGame
  <2> QED
    BY <1>1, <1>3, <2>1, <2>3, <2>4, <2>5, <2>6, Answers
<1> QED
  BY <1>5, <1>6

\* While the two sides are in step no command is refused.
LEMMA NothingRejected ==
    ASSUME Known PROVE ~Reject
<1> SUFFICES ASSUME Reject PROVE FALSE
  OBVIOUS
<1>1. Asked /\ Head(requests).req = asking /\ asking \in Asks /\ Agree
  BY RequestFound DEF Reject, Asked
<1>2. status \in 1 .. 4
  BY KnownFacts DEF ClientOK
<1>3. CASE at = "lobby"
  <2>1. status \in {1, 2}
    BY <1>1, <1>2, <1>3 DEF Agree
  <2>2. asking \in InLobby
    BY <1>1, <2>1 DEF Asked, Asks
  <2>3. asking \in {"NEWPL", "REGIS"} => me = NoGame
    BY <1>1 DEF Asked, Agree
  <2> QED
    BY <1>1, <1>3, <2>2, <2>3 DEF Reject
<1>4. CASE at = "play"
  <2>1. status = 3
    BY <1>1, <1>2, <1>4 DEF Agree, Games
  <2>2. asking \in InGame
    BY <1>1, <2>1 DEF Asked, Asks
  <2> QED
    BY <1>1, <1>4, <2>2 DEF Reject
<1> QED
  BY <1>3, <1>4 DEF Reject

LEMMA StartKeeps ==
    ASSUME Known, Wake \/ SendWelco
    PROVE  Sync'
<1>1. /\ at \in {"waiting", "woken"} /\ at' \in {"woken", "play"} /\ ~left
      /\ UNCHANGED <<client, requests, me>>
  BY KnownFacts DEF Wake, SendWelco, Goto
<1>2. UNCHANGED <<status, asking, left>>
  BY <1>1 DEF client
<1>3. status \in 1 .. 4 /\ asking \in Ask0
  BY KnownFacts DEF ClientOK
<1>4. ~Agree
  BY <1>1, <1>3 DEF Agree, Games
<1>5. Reading /\ asking = "START" /\ ReadsWelcome
  BY <1>1, <1>3, <1>4, KnownFacts
  DEF Asked, Reading, ReadsMenu, ReadsEntries, ReadsGreeting, ReadsList, ReadsRegistration, ReadsUnregistration,
      ReadsSize, ReadsInGame, ReadsPosition, Ask0, Asks, InLobby, InGame, Listings
<1>6. ReadsWelcome'
  <2>1. CASE Wake
    BY <1>1, <1>2, <1>5, <2>1 DEF Wake, Goto, ReadsWelcome
  <2>2. CASE SendWelco
    <3> DEFINE w == [h |-> "WELCO", n |-> 0]
               p == [h |-> "POSIT", n |-> 0]
    <3>1. at' = "play" /\ replies = <<>> /\ replies' = replies \o <<w, p>>
      BY <1>1, <1>5, <2>2 DEF SendWelco, Goto, ReadsWelcome
    <3> HIDE DEF w, p
    <3>2. replies' = <<w, p>>
      BY <3>1
    <3> QED
      BY <1>1, <1>2, <1>5, <3>1, <3>2 DEF ReadsWelcome, w, p
  <2> QED
    BY <2>1, <2>2
<1>7. Reading'
  BY <1>1, <1>2, <1>5, <1>6 DEF Reading, Listings
<1>8. WalkOK'
  BY <1>1 DEF WalkOK, Games
<1> QED
  BY <1>1, <1>2, <1>7, <1>8 DEF Sync

LEMMA ServerKeeps ==
    ASSUME Known, Server, ~astray', Typed'
    PROVE  Sync'
<1>1. CASE CountGames
  <2>1. /\ ServerOK /\ WalkOK /\ ~left /\ (Asked \/ Reading) /\ at = "count"
        /\ UNCHANGED <<client, requests, me>>
    BY <1>1, KnownFacts DEF CountGames
  <2>2. UNCHANGED <<status, asking, toread, left>>
    BY <2>1 DEF client
  <2>3. /\ WalkOK'
        /\ \/ at' = "count" /\ UNCHANGED replies
           \/ at' = "rewind" /\ Send("GAMES", games_waiting) /\ Rest' = games_waiting
    BY <1>1, <2>1, CountStep
  <2>4. Reading /\ (asking = "greeting" \/ asking = "GAME?") /\ replies = <<>>
    BY <2>1, KnownFacts
    DEF Asked, Reading, ReadsMenu, ReadsEntries, ReadsGreeting, ReadsList, ReadsRegistration, ReadsUnregistration,
        ReadsSize, ReadsInGame, ReadsWelcome, ReadsPosition, ClientOK, Ask0, Asks, InLobby, InGame, Listings
  <2>5. Agree /\ Agree'
    BY <2>1, <2>2, <2>3, <2>4 DEF Reading, ReadsGreeting, ReadsList, Agree, Games, Listings
  <2>6. at' = "rewind" => /\ replies' # <<>> /\ Head(replies').n = Follow' /\ Follow' <= 127
                          /\ Head(replies').h = "GAMES"
    <3> SUFFICES ASSUME at' = "rewind" 
                 PROVE  /\ replies' # <<>> /\ Head(replies').n = Follow' /\ Follow' <= 127
                        /\ Head(replies').h = "GAMES"
      OBVIOUS
    <3> DEFINE r == [h |-> "GAMES", n |-> games_waiting]
    <3>1. replies' = Append(<<>>, r) /\ r.h = "GAMES" /\ r.n = games_waiting /\ Rest' = games_waiting
      BY <2>3, <2>4 DEF Send
    <3>2. games_waiting \in Nat /\ games_waiting <= 127
      BY <2>1, CounterFacts
    <3> HIDE DEF r
    <3>3. Len(replies') = 1 /\ Head(replies') = r /\ replies' # <<>>
      BY <3>1
    <3> QED
      BY <3>1, <3>2, <3>3 DEF Follow
  <2>7. CASE asking = "greeting"
    <3>1. ReadsGreeting'
      BY <2>2, <2>3, <2>4, <2>5, <2>6, <2>7 DEF Reading, ReadsGreeting
    <3>2. Reading'
      BY <2>1, <2>2, <2>4, <2>7, <3>1 DEF Reading, Listings
    <3> QED
      BY <2>1, <2>2, <2>3, <3>2 DEF Sync
  <2>8. CASE asking = "GAME?"
    <3>1. ReadsList'
      BY <2>2, <2>1, <2>3, <2>4, <2>5, <2>6, <2>8 DEF Reading, ReadsList, Announced, Got, Listings
    <3>2. Reading'
      BY <2>1, <2>2, <2>4, <2>8, <3>1 DEF Reading, Listings
    <3> QED
      BY <2>1, <2>2, <2>3, <3>2 DEF Sync
  <2> QED
    BY <2>4, <2>7, <2>8
<1>2. CASE Rewind \/ SendGame \/ SendPlayer
  <2>1. Turned
    BY <1>2, KnownFacts, RewindStep, SendGameStep, SendPlayerStep
  <2>2. at \in {"rewind", "ogame", "playr", "gplyr"} /\ UNCHANGED <<client, requests, me>>
    BY <1>2 DEF Rewind, SendGame, SendPlayer
  <2>4. Len(replies') \in Nat
    BY DEF Typed, RepliesOK
  <2> QED
    BY <2>1, <2>2, <2>4, TurnKeeps
<1>3. ~ShortRead /\ ~NoStart
  BY DEF ShortRead, NoStart
<1> QED
  BY <1>1, <1>2, <1>3, LobbyKeeps, ListsKeep, PlayKeeps, NothingRejected, StartKeeps DEF Server

LEMMA EnvironmentKeeps ==
    ASSUME Known, Environment, ~astray'
    PROVE  Sync'
<1>1. UNCHANGED <<client, requests, replies, server>>
  BY EnvironmentFrame
<1>2. at \notin Walks
  BY DEF Environment, OtherCreates, OtherJoins, OtherLeaves, OtherBegins, OtherEnds, Others
<1>3. UNCHANGED <<status, asking, toread, left, at, me>>
  BY <1>1 DEF client, server
<1>4. WalkOK' /\ Rest' = Rest
  BY <1>2, <1>3, WalkOutside DEF WalkOK, Rest, Walks, Games
<1>5. (Agree <=> Agree') /\ (Announced <=> Announced') /\ Follow' = Follow
  BY <1>1, <1>3, <1>4 DEF Agree, Announced, Got, Follow
<1>6. Asked => Asked'
  BY <1>1, <1>3, <1>4, <1>5 DEF Asked
<1>7. Reading => Reading'
  BY <1>1, <1>3, <1>4, <1>5
  DEF Reading, ReadsMenu, ReadsEntries, ReadsGreeting, ReadsList, ReadsRegistration, ReadsUnregistration,
      ReadsSize, ReadsInGame, ReadsWelcome, ReadsPosition
<1> QED
  BY <1>3, <1>4, <1>6, <1>7, KnownFacts DEF Sync

LEMMA StepKeeps ==
    ASSUME Typed, Typed', Sync, [Next]_vars
    PROVE  Sync'
<1> SUFFICES ASSUME ~astray' PROVE Sync'
  BY DEF Sync
<1>1. CASE UNCHANGED vars
  <2>1. UNCHANGED <<status, asking, toread, left, requests, replies, at, me, i, ptr,
                    games_waiting, games, astray>>
    BY <1>1 DEF vars, client, server
  <2>2. (WalkOK <=> WalkOK') /\ Rest' = Rest
    BY <2>1 DEF WalkOK, Rest, Blocked, Waits
  <2>3. (Agree <=> Agree') /\ (Announced <=> Announced') /\ Follow' = Follow
    BY <2>1, <2>2 DEF Agree, Announced, Got, Follow
  <2>4. (Asked => Asked') /\ (Reading => Reading')
    BY <2>1, <2>2, <2>3
    DEF Asked, Reading, ReadsMenu, ReadsEntries, ReadsGreeting, ReadsList, ReadsRegistration, ReadsUnregistration,
        ReadsSize, ReadsInGame, ReadsWelcome, ReadsPosition
  <2> QED
    BY <2>1, <2>2, <2>4 DEF Sync
<1>2. CASE Next
  <2>1. ~astray
    <3>1. ClientOK
      BY DEF Typed
    <3>2. CASE Menu
      BY <3>1, <3>2, MenuSends DEF Sends, ClientOK
    <3>3. CASE Reader
      BY <3>3 DEF Reader, ReadRegistration, ReadUnregistration, ReadSize, ReadList, ReadEntry,
                  InitPlayer, ReadWelcome, ReadPosition, ReadInGame, ReadNothing, ReadFirstMessage
    <3>4. CASE Server
      BY <3>4
      DEF Server, NewGame, RegisterGame, FuncUnreg, StartGame, GetSizeMap, SendList,
          SendGames, SendGlis, SendAll, SendMess, MovPlayer, Quit, Reject, ShortRead,
          CountGames, Rewind, SendGame, SendPlayer, Wake, SendWelco, NoStart
    <3>5. CASE Environment
      BY <3>5 DEF Environment, OtherCreates, OtherJoins, OtherLeaves, OtherBegins, OtherEnds, Others
    <3> QED
      BY <1>2, <3>2, <3>3, <3>4, <3>5 DEF Next
  <2>2. Known
    BY <2>1 DEF Known
  <2> QED
    BY <1>2, <2>2, MenuKeeps, ReaderKeeps, ServerKeeps, EnvironmentKeeps DEF Next
<1> QED
  BY <1>1, <1>2

LEMMA InitSync == Init => Sync
<1> SUFFICES ASSUME Init PROVE Sync
  OBVIOUS
<1>1. WalkOK
  BY DEF Init, WalkOK, Games
<1>2. ReadsGreeting
  BY DEF Init, ReadsGreeting, Agree
<1>3. Reading
  BY <1>2 DEF Init, Reading, Listings
<1> QED
  BY <1>1, <1>3 DEF Init, Sync

LEMMA SyncHolds == Spec => [](Typed /\ Sync)
<1>1. Typed /\ Sync /\ [Next]_vars => Typed' /\ Sync'
  BY ClientStep, RequestsStep, RepliesStep, ServerStep, StepKeeps DEF Typed
<1> QED
  BY <1>1, InitTyped, InitSync, PTL DEF Spec

-----------------------------------------------------------------------------
\* Request and answer stay in step until a fault: a user who is back at a menu
\* has read all that the server will ever send for what was asked, whatever
\* lists func_send_games, send_list and send_glis had to walk for it.
THEOREM InStepHolds == Spec => []InStep
<1>1. Typed /\ Sync => InStep
  BY DEF InStep, Sync, Asked, Reading, ReadsMenu, Asks, InLobby, InGame
<1> QED
  BY <1>1, SyncHolds, PTL

\* The menu of PlayerTCP is that of the loop client_thread is in, with or
\* without a player, until a fault.
THEOREM StatusAgreesHolds == Spec => []StatusAgrees
<1>1. Typed /\ Sync => StatusAgrees
  <2> SUFFICES ASSUME Typed, Sync, asking = "none", ~astray PROVE StatusAgrees
    BY DEF StatusAgrees
  <2>1. Agree /\ at # "accept" /\ status \in 1 .. 4
    BY DEF Sync, Asked, Reading, ReadsMenu, Asks, InLobby, InGame, Typed, ClientOK
  <2>2. CASE status = 1
    BY <2>1, <2>2 DEF Agree, StatusAgrees
  <2>3. CASE status = 2
    BY <2>1, <2>3 DEF Agree, StatusAgrees
  <2>4. CASE status = 3
    BY <2>1, <2>4 DEF Agree, StatusAgrees
  <2>5. CASE status = 4
    BY <2>1, <2>5 DEF Agree, StatusAgrees
  <2> QED
    BY <2>1, <2>2, <2>3, <2>4, <2>5
<1> QED
  BY <1>1, SyncHolds, PTL

\* The readers of MessagePlayer and client_thread never wait for each other
\* until a fault.
THEOREM NoMutualWaitHolds == Spec => []NoMutualWait
<1>1. Typed /\ Sync => NoMutualWait
  <2> SUFFICES ASSUME Typed, Sync, ~astray, asking # "none", replies = <<>>, requests = <<>>,
                      at \in {"lobby", "play", "nostart", "dead"}
               PROVE  FALSE
    BY DEF NoMutualWait
  <2>1. Known
    BY DEF Known
  <2>2. Reading /\ Rest = 0 /\ Len(replies) = 0 /\ asking \in Ask0 /\ at \in {"lobby", "play"} /\ ClientOK
    BY <2>1, KnownFacts DEF Asked, ClientOK
  <2>3. asking \notin {"entries", "greeted"}
    BY <2>2 DEF Reading, ReadsEntries, ClientOK
  <2> QED
    BY <2>2, <2>3
    DEF Reading, ReadsGreeting, ReadsList, ReadsRegistration, ReadsUnregistration, ReadsSize,
        ReadsInGame, ReadsWelcome, ReadsPosition, Ask0, Asks, InLobby, InGame, Listings
<1> QED
  BY <1>1, SyncHolds, PTL
=============================================================================
