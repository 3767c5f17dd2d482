---------------------------- MODULE LobbyProofs ----------------------------
(***************************************************************************)
(* Proofs that TLAPS checks about Lobby, for any finite number of          *)
(* connections and of game addresses: the inductive invariant IInv, the    *)
(* safety invariants it implies, and the condition under which a game      *)
(* begins; then the life of each game, whose threads implement Partie at   *)
(* every address and free it when it is abandoned before it begins.        *)
(***************************************************************************)
EXTENDS Lobby, FiniteSetTheorems, SequenceTheorems, TLAPS

-----------------------------------------------------------------------------
(* The helpers of the model.                                               *)

LEMMA ListedAreSlots == ASSUME TypeOK PROVE Listed \subseteq Slots
  BY DEF TypeOK, Listed

\* A walk of the list ends on one of its games or falls off the end.
LEMMA WalkEndsOnGame ==
  ASSUME NEW seen, NEW m
  PROVE  FirstWithId(seen, m) \in Listed \cup {NoGame}
  BY DEF FirstWithId, Listed

\* The remainder of a uint8_t.
LEMMA ModByte == ASSUME NEW x \in Nat PROVE x % 256 \in 0 .. 255
  OBVIOUS
\* The id of a new game is a byte, whatever the walk read.
LEMMA NewIdIsByte ==
  ASSUME TypeOK, NEW seen
  PROVE  NewIds(seen) \subseteq 0 .. 255
<1> DEFINE n == Len(games) % 256
<1>1. n \in 0 .. 255
  BY ModByte, LenProperties DEF TypeOK
<1> HIDE DEF n
<1>2. (n + 1) % 256 \in 0 .. 255
  <2>1. n + 1 \in Nat
    BY <1>1
  <2> QED BY <2>1, ModByte
<1>3. \A x \in NewIds(seen) : x \in {1} \cup {(n + 1) % 256} \cup 0 .. 255 \cup 1 .. n
  BY DEF NewIds, n
<1> QED BY <1>1, <1>2, <1>3


\* Removing an element of a sequence keeps elements of that sequence only.
LEMMA RemoveAtProperties ==
  ASSUME NEW S, NEW s \in Seq(S), NEW i \in 1 .. Len(s)
  PROVE  /\ RemoveAt(s, i) \in Seq(S)
         /\ \A k \in DOMAIN RemoveAt(s, i) :
               \E j \in DOMAIN s : RemoveAt(s, i)[k] = s[j]
<1>0. Len(s) \in Nat /\ (i + 1 <= Len(s) \/ i = Len(s))
  <2> DEFINE n == Len(s)
  <2>1. n \in Nat /\ i \in 1 .. n
    BY LenProperties
  <2> HIDE DEF n
  <2>2. i + 1 <= n \/ i = n
    BY <2>1
  <2> QED BY <2>1, <2>2 DEF n
<1>1. /\ Len(s) \in Nat /\ DOMAIN s = 1 .. Len(s)
      /\ i \in Nat /\ 1 <= i /\ i <= Len(s)
  BY LenProperties
<1> DEFINE left  == SubSeq(s, 1, i - 1)
           right == SubSeq(s, i + 1, Len(s))
<1>2. /\ left \in Seq(S)
      /\ \A k \in 1 .. Len(left) : k \in DOMAIN s /\ left[k] = s[k]
  <2>1. \A k \in 1 .. i - 1 : s[k] \in S
     BY <1>1
  <2>2. i - 1 \in Int /\ i - 1 <= Len(s)
     BY <1>1
  <2>3. /\ left \in Seq(S)
        /\ Len(left) = IF 1 <= i - 1 THEN (i - 1) - 1 + 1 ELSE 0
        /\ \A k \in 1 .. (i - 1) - 1 + 1 : left[k] = s[1 + k - 1]
     BY <2>1, <2>2, SubSeqProperties
  <2> HIDE DEF left
  <2> QED BY <1>1, <2>2, <2>3
<1>3. /\ right \in Seq(S)
      /\ \A k \in 1 .. Len(right) : k + i \in DOMAIN s /\ right[k] = s[k + i]
  <2>1. \A k \in i + 1 .. Len(s) : s[k] \in S
     BY <1>1
  <2>2. i + 1 \in Int /\ Len(s) \in Int
     BY <1>1
  <2>3. /\ right \in Seq(S)
        /\ Len(right) = IF i + 1 <= Len(s) THEN Len(s) - (i + 1) + 1 ELSE 0
        /\ \A k \in 1 .. Len(s) - (i + 1) + 1 : right[k] = s[i + 1 + k - 1]
     BY <2>1, <2>2, SubSeqProperties
  <2> HIDE DEF right
  <2>4. Len(right) = Len(s) - i
     <3>1. CASE i + 1 <= Len(s)
        BY <1>1, <2>3, <3>1
     <3>2. CASE i = Len(s)
        BY <1>1, <2>3, <3>2
     <3> QED BY <1>0, <3>1, <3>2
  <2>5. ASSUME NEW k \in 1 .. Len(right)
        PROVE  k + i \in DOMAIN s /\ right[k] = s[k + i]
     <3>1. k + i \in 1 .. Len(s) /\ i + 1 + k - 1 = k + i
        BY <1>1, <2>4
     <3>2. k \in 1 .. Len(s) - (i + 1) + 1
        BY <1>1, <2>4
     <3>3. right[k] = s[i + 1 + k - 1]
        BY <2>3, <3>2
     <3> QED BY <1>1, <3>1, <3>3
  <2> QED BY <2>3, <2>5
<1>4. RemoveAt(s, i) = left \o right
  BY DEF RemoveAt
<1> HIDE DEF left, right
<1>5. /\ left \o right \in Seq(S)
      /\ Len(left \o right) = Len(left) + Len(right)
      /\ Len(left) \in Nat /\ Len(right) \in Nat
      /\ DOMAIN (left \o right) = 1 .. Len(left) + Len(right)
  BY <1>2, <1>3, ConcatProperties, LenProperties
<1>6. ASSUME NEW k \in 1 .. Len(left) + Len(right)
      PROVE  \E j \in DOMAIN s : (left \o right)[k] = s[j]
  <2>1. CASE k <= Len(left)
    BY <1>2, <1>3, <1>5, <2>1, ConcatProperties
  <2>2. CASE k > Len(left)
    <3>1. k - Len(left) \in 1 .. Len(right)
      BY <1>5, <2>2
    <3>2. (left \o right)[k] = right[k - Len(left)]
      BY <1>2, <1>3, <1>5, <2>2, ConcatProperties
    <3> QED BY <1>3, <3>1, <3>2
  <2> QED BY <1>5, <2>1, <2>2
<1> QED BY <1>4, <1>5, <1>6

\* Unlinking a game leaves a list of some of the other games.
LEMMA UnlinkListed ==
  ASSUME TypeOK, NEW i \in DOMAIN games, games' = RemoveAt(games, i)
  PROVE  games' \in Seq(Slots) /\ Listed' \subseteq Listed
<1>1. i \in 1 .. Len(games)
  BY DEF TypeOK
<1> QED BY <1>1, RemoveAtProperties DEF TypeOK, Listed

\* A step that changes neither start nor the players that validated, in the
\* games that have not begun, keeps the two counts of start_game together.
LEMMA StartersFrame ==
  ASSUME StartCountsStarters,
         \A g \in Slots : encours'[g] = -1 =>
            encours[g] = -1 /\ start'[g] = start[g] /\ Starters(g)' = Starters(g)
  PROVE  StartCountsStarters'
  BY DEF StartCountsStarters

\* What a thread may jump to without anything else changing.
MayGo(t, from, to) ==
    /\ to \in Locations \ {"newlink", "regadd"}
    /\ to \in NoPlayerYet => me[t] = NoGame
    /\ to \notin NoPlayerYet \cup {"lobby"} => me[t] \in Slots
    /\ ready[t] => to \notin InLobby
    /\ to \in {"startcmp", "startset"} => start[me[t]] > 1
    /\ to \in {"startpos", "startcmp", "startset"} => ready[t]
    /\ to \in {"woken"} \cup InPlay \cup Quitting => encours[me[t]] # -1
    /\ to = "moveend" => fantomes[me[t]] = 0
    /\ from \in Seatless <=> to \in Seatless

LEMMA JumpStep ==
  ASSUME IInv, NEW t \in Clients, NEW from, NEW to,
         Jump(t, from, to), MayGo(t, from, to)
  PROVE  IInv'
<1> USE DEF IInv, Jump, Goto, shared, fieldVars, MayGo
<1>1. TypeOK'
  BY DEF TypeOK
<1>2. PointersOK'
  BY DEF TypeOK, PointersOK
<1>3. FreshOK'
  BY DEF TypeOK, FreshOK, Untouched, Listed
<1>4. ProgressOK'
  BY DEF TypeOK, ProgressOK
<1>5. SeatedOnce'
  BY DEF TypeOK, SeatedOnce
<1>6. StartCountsStarters'
  BY StartersFrame DEF Starters
<1>7. EndedMeansCaught'
  BY DEF EndedMeansCaught
<1> QED BY <1>1, <1>2, <1>3, <1>4, <1>5, <1>6, <1>7

-----------------------------------------------------------------------------
(* Every command of a user preserves the invariant.                        *)

LEMMA UserStep ==
  ASSUME IInv, NEW t \in Clients, User(t)
  PROVE  IInv'
<1> USE DEF Locations, InLobby, Starting, InPlay, Quitting, NoPlayerYet, Seatless
<1>1. CASE SendNewpl(t)
  BY <1>1, JumpStep DEF SendNewpl, Jump, MayGo, IInv, TypeOK, PointersOK, FreshOK, ProgressOK
<1>2. CASE SendRegis(t)
  BY <1>2, JumpStep DEF SendRegis, Jump, MayGo, IInv, TypeOK, PointersOK, FreshOK, ProgressOK
<1>3. CASE SendUnreg(t)
  BY <1>3, JumpStep DEF SendUnreg, Jump, MayGo, IInv, TypeOK, PointersOK, FreshOK, ProgressOK
<1>4. CASE SendStart(t)
  BY <1>4, JumpStep DEF SendStart, Jump, MayGo, IInv, TypeOK, PointersOK, FreshOK, ProgressOK
<1>5. CASE SendBadStart(t)
  BY <1>5, JumpStep DEF SendBadStart, Jump, MayGo, IInv, TypeOK, PointersOK, FreshOK, ProgressOK
<1>6. CASE SendMove(t)
  BY <1>6, JumpStep DEF SendMove, Jump, MayGo, IInv, TypeOK, PointersOK, FreshOK, ProgressOK
<1>7. CASE SendIquit(t)
  BY <1>7, JumpStep DEF SendIquit, Jump, MayGo, IInv, TypeOK, PointersOK, FreshOK, ProgressOK
<1>8. CASE SendTooLate(t)
  BY <1>8, JumpStep DEF SendTooLate, Jump, MayGo, IInv, TypeOK, PointersOK, FreshOK, ProgressOK
<1>9. CASE PlayHangUp(t)
  BY <1>9, JumpStep DEF PlayHangUp, Jump, MayGo, IInv, TypeOK, PointersOK, FreshOK, ProgressOK
<1>10. CASE HangUp(t)
  BY <1>10, JumpStep DEF HangUp, Jump, MayGo, IInv, TypeOK, PointersOK, FreshOK, ProgressOK
<1>11. CASE Disconnect(t)
  <2> USE <1>11 DEF IInv, Disconnect, Goto, shared, fieldVars
  <2>1. TypeOK'
    BY DEF TypeOK
  <2>2. PointersOK' /\ ProgressOK'
    BY DEF TypeOK, PointersOK, ProgressOK
  <2>3. FreshOK'
    BY DEF TypeOK, FreshOK, Untouched, Listed
  <2>4. SeatedOnce'
    <3>1. \A u \in Clients : pc'[u] \in Seatless <=> pc[u] \in Seatless
      BY DEF TypeOK
    <3>2. joueurs' = joueurs /\ me' = me
      OBVIOUS
    <3> QED BY <3>1, <3>2 DEF SeatedOnce
  <2>5. \A g \in Slots : Starters(g)' = Starters(g)
    BY DEF Starters
  <2>6. StartCountsStarters' /\ EndedMeansCaught'
    BY <2>5, StartersFrame DEF EndedMeansCaught
  <2> QED BY <2>1, <2>2, <2>3, <2>4, <2>6
<1> QED BY <1>1, <1>2, <1>3, <1>4, <1>5, <1>6, <1>7, <1>8, <1>9, <1>10, <1>11 DEF User

-----------------------------------------------------------------------------
(* Every step of a thread preserves the invariant.                         *)

LEMMA ServerStep ==
  ASSUME IInv, NEW t \in Clients, Server(t)
  PROVE  IInv'
<1> USE LobbyAssumption
    DEF Locations, InLobby, Starting, InPlay, Quitting, NoPlayerYet, Seatless
<1>1. CASE NewAllocate(t)
  <2> USE <1>1 DEF IInv, NewAllocate, Goto, shared, fieldVars
  <2>1. PICK s \in Slots, seen \in IdReadings :
           \E m \in NewIds(seen) : game_id' = [game_id EXCEPT ![s] = m]
    OBVIOUS
  <2>2. NewIds(seen) \subseteq 0 .. 255
    BY NewIdIsByte
  <2>3. game_id' \in [Slots -> 0 .. 255]
    <3>1. PICK m \in 0 .. 255 : game_id' = [game_id EXCEPT ![s] = m]
      BY <2>1, <2>2
    <3>2. game_id \in [Slots -> 0 .. 255]
      BY DEF TypeOK
    <3> QED BY <3>1, <3>2
  <2>4. fantomes' \in [Slots -> 0 .. MaxGhosts]
    BY DEF TypeOK
  <2>5. TypeOK'
    <3>1. /\ alloc' \in [Slots -> {"none", "live", "freed"}]
          /\ ptr' \in [Clients -> Slots \cup {NoGame}]
      BY DEF TypeOK
    <3>2. pc' \in [Clients -> Locations]
      BY DEF TypeOK
    <3> QED BY <2>3, <2>4, <3>1, <3>2 DEF TypeOK
  <2>6. PointersOK'
    BY <2>3, <2>4 DEF TypeOK, PointersOK, FreshOK
  <2>7. FreshOK'
    <3>1. PICK h \in Slots :
             /\ alloc[h] = "none" /\ alloc' = [alloc EXCEPT ![h] = "live"]
             /\ ptr' = [ptr EXCEPT ![t] = h]
      OBVIOUS
    <3>2. /\ pc' = [pc EXCEPT ![t] = "newlink"]
          /\ UNCHANGED <<games, me, joueurs, start, encours>>
      OBVIOUS
    <3>3. FreshOK /\ PointersOK /\ TypeOK
      OBVIOUS
    <3> HIDE DEF IInv, NewAllocate
    <3>4. /\ h \notin Listed /\ Untouched(h)
          /\ \A u \in Clients : h \notin {me[u], ptr[u]}
      BY <3>1, <3>3 DEF FreshOK, PointersOK
    <3>5. \A u \in Clients : pc'[u] = "newlink" =>
             /\ Untouched(ptr'[u]) /\ ptr'[u] \notin Listed /\ alloc'[ptr'[u]] = "live"
             /\ \A v \in Clients \ {u} : ptr'[u] \notin {me[v], ptr'[v]}
      <4> SUFFICES ASSUME NEW u \in Clients, pc'[u] = "newlink"
                   PROVE  /\ Untouched(ptr'[u]) /\ ptr'[u] \notin Listed
                          /\ alloc'[ptr'[u]] = "live"
                          /\ \A v \in Clients \ {u} : ptr'[u] \notin {me[v], ptr'[v]}
        OBVIOUS
      <4>1. CASE u = t
        BY <3>1, <3>3, <3>4, <4>1 DEF TypeOK
      <4>2. CASE u # t
        <5>1. pc[u] = "newlink" /\ ptr'[u] = ptr[u]
          BY <3>1, <3>2, <3>3, <4>2 DEF TypeOK
        <5>2. /\ Untouched(ptr[u]) /\ ptr[u] \notin Listed /\ alloc[ptr[u]] = "live"
              /\ \A v \in Clients \ {u} : ptr[u] \notin {me[v], ptr[v]}
          BY <3>3, <5>1 DEF FreshOK
        <5>3. ptr[u] \in Slots /\ ptr[u] # h
          BY <3>3, <3>4, <5>1 DEF PointersOK
        <5> QED BY <3>1, <3>3, <4>2, <5>1, <5>2, <5>3 DEF TypeOK
      <4> QED BY <4>1, <4>2
    <3>6. Listed' = Listed /\ \A g : Untouched(g)' = Untouched(g)
      BY <3>2 DEF Listed, Untouched
    <3>7. Listed \subseteq Slots
      BY <3>3, ListedAreSlots
    <3>8. \A g \in Slots : alloc'[g] = IF g = h THEN "live" ELSE alloc[g]
      BY <3>1, <3>3 DEF TypeOK
    <3>9. \A g \in Listed' : alloc'[g] # "none"
      BY <3>3, <3>4, <3>6, <3>7, <3>8 DEF FreshOK
    <3>10. \A g \in Slots : alloc'[g] = "none" => Untouched(g)'
      BY <3>3, <3>6, <3>8 DEF FreshOK
    <3>11. \A u \in Clients : pc'[u] = "newlink" =>
             (/\ Untouched(ptr[u]) /\ ptr[u] \notin Listed /\ alloc[ptr[u]] = "live"
              /\ \A v \in Clients \ {u} : ptr[u] \notin {me[v], ptr[v]})'
      BY <3>2, <3>5, <3>6
    <3> QED BY <3>9, <3>10, <3>11 DEF FreshOK
  <2>8. ProgressOK'
    BY <2>3, <2>4 DEF TypeOK, PointersOK, FreshOK, Untouched, ProgressOK
  <2>9. SeatedOnce'
    <3>1. \A u \in Clients : pc'[u] \in Seatless <=> pc[u] \in Seatless
      BY DEF TypeOK
    <3>2. joueurs' = joueurs /\ me' = me
      OBVIOUS
    <3> QED BY <3>1, <3>2 DEF SeatedOnce
  <2>10. \A g \in Slots : encours'[g] = -1 => Starters(g)' = Starters(g)
    BY DEF TypeOK, PointersOK, ProgressOK, FreshOK, Untouched, Starters
  <2>11. StartCountsStarters'
    BY <2>10, StartersFrame DEF TypeOK
  <2>12. EndedMeansCaught'
    BY DEF TypeOK, PointersOK, FreshOK, Untouched, ProgressOK, EndedMeansCaught
  <2> QED BY <2>5, <2>6, <2>7, <2>8, <2>9, <2>11, <2>12
<1>2. CASE NewLink(t)
  <2> USE <1>2 DEF IInv, NewLink, Goto, shared, fieldVars
  <2>1. TypeOK'
    BY DEF TypeOK, PointersOK
  <2>2. PointersOK'
    BY DEF TypeOK, PointersOK, FreshOK
  <2>3. FreshOK'
    <3>1. /\ pc[t] = "newlink" /\ pc' = [pc EXCEPT ![t] = "lobby"]
          /\ joueurs' = [joueurs EXCEPT ![ptr[t]] = {t}]
          /\ games' = Append(games, ptr[t])
          /\ me' = [me EXCEPT ![t] = ptr[t]]
          /\ ptr' = [ptr EXCEPT ![t] = NoGame]
          /\ UNCHANGED <<alloc, start, encours>>
      OBVIOUS
    <3>2. FreshOK /\ PointersOK /\ TypeOK
      OBVIOUS
    <3> HIDE DEF IInv, NewLink
    <3>3. /\ ptr[t] \in Slots /\ alloc[ptr[t]] = "live"
          /\ \A u \in Clients \ {t} : ptr[t] \notin {me[u], ptr[u]}
      BY <3>1, <3>2 DEF FreshOK, PointersOK
    <3>4. Listed' \subseteq Listed \cup {ptr[t]}
      BY <3>1, <3>2, <3>3 DEF TypeOK, Listed
    <3>5. ASSUME NEW u \in Clients, pc'[u] = "newlink"
          PROVE  /\ Untouched(ptr[u])' /\ ptr'[u] = ptr[u] /\ u # t
                 /\ ptr[u] \notin Listed' /\ alloc'[ptr[u]] = "live"
                 /\ \A v \in Clients \ {u} : ptr[u] \notin {me'[v], ptr'[v]}
      <4>1. u # t /\ pc[u] = "newlink" /\ ptr'[u] = ptr[u]
        BY <3>1, <3>2, <3>5 DEF TypeOK
      <4>2. /\ Untouched(ptr[u]) /\ ptr[u] \notin Listed /\ alloc[ptr[u]] = "live"
            /\ \A v \in Clients \ {u} : ptr[u] \notin {me[v], ptr[v]}
            /\ ptr[u] \in Slots
        BY <3>2, <4>1 DEF FreshOK, PointersOK
      <4>3. Untouched(ptr[u])'
        BY <3>1, <3>2, <3>3, <4>1, <4>2 DEF Untouched, TypeOK
      <4>4. \A v \in Clients \ {u} : ptr[u] \notin {me'[v], ptr'[v]}
        BY <3>1, <3>2, <4>1, <4>2, LobbyAssumption DEF TypeOK
      <4> QED BY <3>1, <3>4, <4>1, <4>2, <4>3, <4>4
    <3>6. \A g \in Slots : alloc[g] = "none" => Untouched(g)'
      BY <3>1, <3>2, <3>3 DEF FreshOK, Untouched, TypeOK
    <3>7. Listed' \subseteq Slots
      BY <3>2, <3>3, <3>4, ListedAreSlots
    <3>8. \A u \in Clients : pc'[u] = "newlink" =>
             (/\ Untouched(ptr[u]) /\ ptr[u] \notin Listed /\ alloc[ptr[u]] = "live"
              /\ \A v \in Clients \ {u} : ptr[u] \notin {me[v], ptr[v]})'
      BY <3>1, <3>5 DEF Untouched
    <3> QED BY <3>1, <3>2, <3>3, <3>4, <3>6, <3>8 DEF FreshOK, Untouched
  <2>4. ProgressOK'
    BY DEF TypeOK, PointersOK, FreshOK, Untouched, ProgressOK
  <2>5. SeatedOnce'
    BY DEF TypeOK, PointersOK, FreshOK, Untouched, SeatedOnce
  <2>6. \A g \in Slots : encours'[g] = -1 => Starters(g)' = Starters(g)
    BY DEF TypeOK, PointersOK, ProgressOK, FreshOK, Untouched, Starters
  <2>7. StartCountsStarters'
    BY <2>6, StartersFrame DEF TypeOK
  <2>8. EndedMeansCaught'
    BY DEF TypeOK, PointersOK, FreshOK, Untouched, ProgressOK, EndedMeansCaught
  <2> QED BY <2>1, <2>2, <2>3, <2>4, <2>5, <2>7, <2>8
<1>3. CASE RegisLookup(t)
  <2> USE <1>3 DEF IInv, RegisLookup, Goto, shared, fieldVars
  <2>1. PICK m \in Ids, seen \in IdReadings : LET g == FirstWithId(seen, m)
         IN  IF g = NoGame \/ encours[g] = 1
             THEN Goto(t, "lobby") /\ UNCHANGED ptr
             ELSE Goto(t, "regadd") /\ ptr' = [ptr EXCEPT ![t] = g]
    OBVIOUS
  <2>2. \/ pc' = [pc EXCEPT ![t] = "lobby"] /\ ptr' = ptr
        \/ /\ pc' = [pc EXCEPT ![t] = "regadd"]
           /\ \E g \in Listed : ptr' = [ptr EXCEPT ![t] = g]
    BY <2>1, WalkEndsOnGame
  <2>3. Listed \subseteq Slots
    BY ListedAreSlots
  <2>4. ptr' \in [Clients -> Slots \cup {NoGame}]
    <3>1. CASE ptr' = ptr
      BY <3>1 DEF TypeOK
    <3>2. ASSUME NEW g \in Listed, ptr' = [ptr EXCEPT ![t] = g]
          PROVE  ptr' \in [Clients -> Slots \cup {NoGame}]
      BY <3>2, <2>3 DEF TypeOK
    <3> QED BY <3>1, <3>2, <2>2
  <2>5. TypeOK'
    <3>1. TypeOK /\ UNCHANGED <<me, leaving, ready, shared>>
      OBVIOUS
    <3> HIDE DEF IInv, RegisLookup, shared
    <3>2. pc \in [Clients -> Locations]
      BY <3>1 DEF TypeOK
    <3> HIDE DEF Locations
    <3>3. "lobby" \in Locations /\ "regadd" \in Locations
      BY DEF Locations
    <3>4. pc' \in [Clients -> Locations]
      BY <2>2, <3>2, <3>3
    <3> QED BY <2>4, <3>1, <3>4 DEF TypeOK, shared
  <2>6. PointersOK'
    BY <2>2, <2>3, <2>4 DEF TypeOK, PointersOK, FreshOK
  <2>7. FreshOK'
    <3>1. UNCHANGED <<games, alloc, joueurs, start, encours, me>>
      OBVIOUS
    <3>2. \A u \in Clients :
             /\ pc'[u] = "newlink" => pc[u] = "newlink" /\ ptr'[u] = ptr[u]
             /\ ptr'[u] \in {ptr[u]} \cup Listed
      BY <2>2 DEF TypeOK
    <3> QED BY <3>1, <3>2 DEF FreshOK, Untouched, Listed
  <2>8. ProgressOK'
    BY <2>2, <2>3, <2>4 DEF TypeOK, PointersOK, FreshOK, Untouched, ProgressOK
  <2>9. SeatedOnce'
    <3>1. \A u \in Clients : pc'[u] \in Seatless <=> pc[u] \in Seatless
      BY <2>2 DEF TypeOK
    <3>2. joueurs' = joueurs /\ me' = me
      OBVIOUS
    <3> QED BY <3>1, <3>2 DEF SeatedOnce
  <2>10. \A g \in Slots : encours'[g] = -1 => Starters(g)' = Starters(g)
    BY DEF TypeOK, PointersOK, ProgressOK, FreshOK, Untouched, Starters
  <2>11. StartCountsStarters'
    BY <2>10, StartersFrame DEF TypeOK
  <2>12. EndedMeansCaught'
    BY DEF TypeOK, PointersOK, FreshOK, Untouched, ProgressOK, EndedMeansCaught
  <2> QED BY <2>5, <2>6, <2>7, <2>8, <2>9, <2>11, <2>12
<1>4. CASE RegisAdd(t)
  <2> USE <1>4 DEF IInv, RegisAdd, Goto, shared, fieldVars
  <2>1. TypeOK'
    <3>1. /\ TypeOK /\ ptr[t] \in Slots
          /\ pc' = [pc EXCEPT ![t] = "lobby"]
          /\ me' = [me EXCEPT ![t] = ptr[t]] /\ ptr' = [ptr EXCEPT ![t] = NoGame]
          /\ joueurs' = [joueurs EXCEPT ![ptr[t]] = @ \cup {t}]
          /\ UNCHANGED <<leaving, ready, games, alloc, game_id, encours, start,
                         fantomes, crashed>>
      BY DEF PointersOK
    <3> HIDE DEF IInv, RegisAdd
    <3>2. pc' \in [Clients -> Locations]
      BY <3>1 DEF TypeOK
    <3> HIDE DEF Locations
    <3>3. /\ me' \in [Clients -> Slots \cup {NoGame}]
          /\ ptr' \in [Clients -> Slots \cup {NoGame}]
          /\ joueurs' \in [Slots -> SUBSET Clients]
      BY <3>1 DEF TypeOK
    <3> QED BY <3>1, <3>2, <3>3 DEF TypeOK
  <2>2. PointersOK'
    BY DEF TypeOK, PointersOK, FreshOK
  <2>3. FreshOK'
    BY DEF TypeOK, PointersOK, FreshOK, Untouched, Listed
  <2>4. ProgressOK'
    BY DEF TypeOK, PointersOK, FreshOK, Untouched, ProgressOK
  <2>5. SeatedOnce'
    BY DEF TypeOK, PointersOK, FreshOK, Untouched, SeatedOnce
  <2>6. \A g \in Slots : encours'[g] = -1 => Starters(g)' = Starters(g)
    BY DEF TypeOK, PointersOK, ProgressOK, FreshOK, Untouched, Starters
  <2>7. StartCountsStarters'
    BY <2>6, StartersFrame DEF TypeOK
  <2>8. EndedMeansCaught'
    BY DEF TypeOK, PointersOK, FreshOK, Untouched, ProgressOK, EndedMeansCaught
  <2> QED BY <2>1, <2>2, <2>3, <2>4, <2>5, <2>7, <2>8
<1>5. CASE UnregLookup(t)
  <2> USE <1>5 DEF IInv, UnregLookup, Goto, shared, fieldVars
  <2>1. ptr'[t] \in Listed \cup {NoGame} /\ \A u \in Clients \ {t} : ptr'[u] = ptr[u]
    BY WalkEndsOnGame DEF TypeOK
  <2>2. Listed \subseteq Slots
    BY ListedAreSlots
  <2>3. ptr' \in [Clients -> Slots \cup {NoGame}]
    BY <2>1, <2>2 DEF TypeOK
  <2>4. TypeOK'
    BY <2>1, <2>2, <2>3 DEF TypeOK, PointersOK
  <2>5. PointersOK'
    BY <2>1, <2>2, <2>3 DEF TypeOK, PointersOK, FreshOK
  <2>6. FreshOK'
    <3>1. UNCHANGED <<games, alloc, joueurs, start, encours, me>>
      OBVIOUS
    <3>2. \A u \in Clients :
             /\ pc'[u] = "newlink" => pc[u] = "newlink" /\ ptr'[u] = ptr[u]
             /\ ptr'[u] \in {ptr[u], NoGame} \cup Listed
      BY <2>1 DEF TypeOK
    <3>3. \A u \in Clients : pc[u] = "newlink" => ptr[u] # NoGame
      BY LobbyAssumption DEF PointersOK
    <3>4. FreshOK
      OBVIOUS
    <3> HIDE DEF IInv, UnregLookup
    <3> QED BY <3>1, <3>2, <3>3, <3>4 DEF FreshOK, Untouched, Listed
  <2>7. ProgressOK'
    BY <2>1, <2>2, <2>3 DEF TypeOK, PointersOK, FreshOK, Untouched, ProgressOK
  <2>8. SeatedOnce'
    BY <2>1, <2>2, <2>3 DEF TypeOK, PointersOK, FreshOK, Untouched, SeatedOnce
  <2>9. \A g \in Slots : encours'[g] = -1 => Starters(g)' = Starters(g)
    BY DEF TypeOK, PointersOK, ProgressOK, FreshOK, Untouched, Starters
  <2>10. StartCountsStarters'
    BY <2>9, StartersFrame DEF TypeOK
  <2>11. EndedMeansCaught'
    BY DEF TypeOK, PointersOK, FreshOK, Untouched, ProgressOK, EndedMeansCaught
  <2> QED BY <2>4, <2>5, <2>6, <2>7, <2>8, <2>10, <2>11
<1>6. CASE UnregRemove(t)
  <2> USE <1>6 DEF IInv, UnregRemove, Goto, shared, fieldVars
  <2>1. TypeOK'
    BY DEF TypeOK, PointersOK
  <2>2. PointersOK'
    BY DEF TypeOK, PointersOK, FreshOK
  <2>3. FreshOK'
    BY DEF TypeOK, PointersOK, FreshOK, Untouched, Listed
  <2>4. ProgressOK'
    BY DEF TypeOK, PointersOK, FreshOK, Untouched, ProgressOK
  <2>5. SeatedOnce'
    BY DEF TypeOK, PointersOK, FreshOK, Untouched, SeatedOnce
  <2>6. \A g \in Slots : encours'[g] = -1 => Starters(g)' = Starters(g)
    BY DEF TypeOK, PointersOK, ProgressOK, FreshOK, Untouched, Starters
  <2>7. StartCountsStarters'
    BY <2>6, StartersFrame DEF TypeOK
  <2>8. EndedMeansCaught'
    BY DEF TypeOK, PointersOK, FreshOK, Untouched, ProgressOK, EndedMeansCaught
  <2> QED BY <2>1, <2>2, <2>3, <2>4, <2>5, <2>7, <2>8
<1>7. CASE UnregEmpty(t)
  BY <1>7, JumpStep DEF UnregEmpty, Jump, MayGo, IInv, TypeOK, PointersOK, FreshOK, ProgressOK
<1>8. CASE UnregFree(t)
  <2> USE <1>8 DEF IInv, UnregFree, Goto, shared, fieldVars
  <2>1. TypeOK'
    BY DEF TypeOK, PointersOK
  <2>2. PointersOK'
    BY DEF TypeOK, PointersOK, FreshOK
  <2>3. FreshOK'
    BY DEF TypeOK, PointersOK, FreshOK, Untouched, Listed
  <2>4. ProgressOK'
    BY DEF TypeOK, PointersOK, FreshOK, Untouched, ProgressOK
  <2>5. SeatedOnce'
    BY DEF TypeOK, PointersOK, FreshOK, Untouched, SeatedOnce
  <2>6. \A g \in Slots : encours'[g] = -1 => Starters(g)' = Starters(g)
    BY DEF TypeOK, PointersOK, ProgressOK, FreshOK, Untouched, Starters
  <2>7. StartCountsStarters'
    BY <2>6, StartersFrame DEF TypeOK
  <2>8. EndedMeansCaught'
    BY DEF TypeOK, PointersOK, FreshOK, Untouched, ProgressOK, EndedMeansCaught
  <2> QED BY <2>1, <2>2, <2>3, <2>4, <2>5, <2>7, <2>8
<1>9. CASE UnregDone(t)
  <2> USE <1>9 DEF IInv, UnregDone, Goto, shared, fieldVars
  <2>1. games' = games \/ \E i \in DOMAIN games : games' = RemoveAt(games, i)
    OBVIOUS
  <2>2. games' \in Seq(Slots) /\ Listed' \subseteq Listed
    <3>1. CASE games' = games
      BY <3>1 DEF TypeOK, Listed
    <3>2. CASE \E i \in DOMAIN games : games' = RemoveAt(games, i)
      BY <3>2, UnlinkListed
    <3> QED BY <2>1, <3>1, <3>2
  <2>3. TypeOK'
    BY <2>2 DEF TypeOK, PointersOK
  <2>4. PointersOK'
    BY <2>2 DEF TypeOK, PointersOK, FreshOK
  <2>5. FreshOK'
    BY <2>2 DEF TypeOK, PointersOK, FreshOK, Untouched
  <2>6. ProgressOK'
    BY <2>2 DEF TypeOK, PointersOK, FreshOK, Untouched, ProgressOK
  <2>7. SeatedOnce'
    BY <2>2 DEF TypeOK, PointersOK, FreshOK, Untouched, SeatedOnce
  <2>8. \A g \in Slots : encours'[g] = -1 => Starters(g)' = Starters(g)
    BY DEF TypeOK, PointersOK, ProgressOK, FreshOK, Untouched, Starters
  <2>9. StartCountsStarters'
    BY <2>8, StartersFrame DEF TypeOK
  <2>10. EndedMeansCaught'
    BY DEF TypeOK, PointersOK, FreshOK, Untouched, ProgressOK, EndedMeansCaught
  <2> QED BY <2>3, <2>4, <2>5, <2>6, <2>7, <2>9, <2>10
<1>10. CASE StartIncrement(t)
  <2> USE <1>10 DEF IInv, StartIncrement, Goto, shared, fieldVars
  <2>1. start' \in [Slots -> Nat]
    <3>1. me[t] \in Slots /\ start \in [Slots -> Nat]
      BY DEF TypeOK, PointersOK
    <3>2. start[me[t]] + 1 \in Nat
      BY <3>1
    <3>3. start' = [start EXCEPT ![me[t]] = start[me[t]] + 1]
      OBVIOUS
    <3> QED BY <3>1, <3>2, <3>3
  <2>2. TypeOK'
    BY <2>1 DEF TypeOK, PointersOK
  <2>3. PointersOK'
    BY <2>1 DEF TypeOK, PointersOK, FreshOK
  <2>4. FreshOK'
    BY <2>1 DEF TypeOK, PointersOK, FreshOK, Untouched, Listed
  <2>5. ProgressOK'
    BY <2>1 DEF TypeOK, PointersOK, FreshOK, Untouched, ProgressOK
  <2>6. SeatedOnce'
    BY <2>1 DEF TypeOK, PointersOK, FreshOK, Untouched, SeatedOnce
  <2>7. StartCountsStarters'
    <3> DEFINE g == me[t]
    <3>1. g \in Slots /\ t \in joueurs[g] /\ ~ ready[t]
      BY DEF TypeOK, PointersOK, ProgressOK, SeatedOnce
    <3>2. /\ Starters(g)' = Starters(g) \cup {t}
          /\ t \notin Starters(g)
      BY <3>1 DEF Starters, TypeOK
    <3>3. IsFiniteSet(Starters(g))
      BY <3>1, FS_Subset DEF Starters, TypeOK
    <3>4. Cardinality(Starters(g)') = Cardinality(Starters(g)) + 1
      BY <3>2, <3>3, FS_AddElement
    <3>5. \A h \in Slots \ {g} : /\ Starters(h)' = Starters(h)
                               /\ start'[h] = start[h]
      BY <3>1 DEF Starters, TypeOK, SeatedOnce
    <3>6. start'[g] = start[g] + 1 /\ encours' = encours
      BY <3>1 DEF TypeOK
    <3> QED BY <3>1, <3>4, <3>5, <3>6 DEF StartCountsStarters
  <2>8. EndedMeansCaught'
    BY DEF TypeOK, PointersOK, FreshOK, Untouched, ProgressOK, EndedMeansCaught
  <2> QED BY <2>2, <2>3, <2>4, <2>5, <2>6, <2>7, <2>8
<1>11. CASE StartPlaced(t)
  BY <1>11, JumpStep DEF StartPlaced, Jump, MayGo, IInv, TypeOK, PointersOK, FreshOK, ProgressOK
<1>12. CASE StartCompare(t)
  BY <1>12, JumpStep DEF StartCompare, Jump, MayGo, IInv, TypeOK, PointersOK, FreshOK, ProgressOK
<1>13. CASE StartSet(t)
  <2> USE <1>13 DEF IInv, StartSet, Goto, shared, fieldVars
  <2>1. TypeOK'
    BY DEF TypeOK, PointersOK
  <2>2. PointersOK'
    BY DEF TypeOK, PointersOK, FreshOK
  <2>3. FreshOK'
    BY DEF TypeOK, PointersOK, FreshOK, Untouched, Listed
  <2>4. ProgressOK'
    BY DEF TypeOK, PointersOK, FreshOK, Untouched, ProgressOK
  <2>5. SeatedOnce'
    BY DEF TypeOK, PointersOK, FreshOK, Untouched, SeatedOnce
  <2>6. \A g \in Slots : encours'[g] = -1 => Starters(g)' = Starters(g)
    BY DEF TypeOK, PointersOK, ProgressOK, FreshOK, Untouched, Starters
  <2>7. StartCountsStarters'
    BY <2>6, StartersFrame DEF TypeOK
  <2>8. EndedMeansCaught'
    BY DEF TypeOK, PointersOK, FreshOK, Untouched, ProgressOK, EndedMeansCaught
  <2> QED BY <2>1, <2>2, <2>3, <2>4, <2>5, <2>7, <2>8
<1>14. CASE Wake(t)
  BY <1>14, JumpStep DEF Wake, Jump, MayGo, IInv, TypeOK, PointersOK, FreshOK, ProgressOK
<1>15. CASE Welcome(t)
  BY <1>15, JumpStep DEF Welcome, Jump, MayGo, IInv, TypeOK, PointersOK, FreshOK, ProgressOK
<1>16. CASE NoStart(t)
  BY <1>16, JumpStep DEF NoStart, Jump, MayGo, IInv, TypeOK, PointersOK, FreshOK, ProgressOK
<1>17. CASE CatchGhosts(t)
  <2> USE <1>17 DEF IInv, CatchGhosts, Goto, shared, fieldVars
  <2>1. PICK k \in 0 .. fantomes[me[t]] : fantomes' = [fantomes EXCEPT ![me[t]] = @ - k]
    OBVIOUS
  <2>2. fantomes[me[t]] \in 0 .. MaxGhosts /\ me[t] \in Slots
    BY DEF TypeOK, PointersOK
  <2>3. fantomes[me[t]] - k \in 0 .. MaxGhosts
    BY <2>2
  <2>4. fantomes' \in [Slots -> 0 .. MaxGhosts]
    BY <2>1, <2>2, <2>3 DEF TypeOK
  <2>5. TypeOK'
    BY <2>4 DEF TypeOK, PointersOK
  <2>6. PointersOK'
    BY <2>4 DEF TypeOK, PointersOK, FreshOK
  <2>7. FreshOK'
    BY <2>4 DEF TypeOK, PointersOK, FreshOK, Untouched, Listed
  <2>8. ProgressOK'
    BY <2>4 DEF TypeOK, PointersOK, FreshOK, Untouched, ProgressOK
  <2>9. SeatedOnce'
    BY <2>4 DEF TypeOK, PointersOK, FreshOK, Untouched, SeatedOnce
  <2>10. \A g \in Slots : encours'[g] = -1 => Starters(g)' = Starters(g)
    BY DEF TypeOK, PointersOK, ProgressOK, FreshOK, Untouched, Starters
  <2>11. StartCountsStarters'
    BY <2>10, StartersFrame DEF TypeOK
  <2>12. EndedMeansCaught'
    BY DEF TypeOK, PointersOK, FreshOK, Untouched, ProgressOK, EndedMeansCaught
  <2> QED BY <2>5, <2>6, <2>7, <2>8, <2>9, <2>11, <2>12
<1>18. CASE MoveCheck(t)
  BY <1>18, JumpStep DEF MoveCheck, Jump, MayGo, IInv, TypeOK, PointersOK, FreshOK, ProgressOK
<1>19. CASE EndGame(t)
  <2> USE <1>19 DEF IInv, EndGame, Goto, shared, fieldVars
  <2>1. TypeOK'
    BY DEF TypeOK, PointersOK
  <2>2. PointersOK'
    BY DEF TypeOK, PointersOK, FreshOK
  <2>3. FreshOK'
    BY DEF TypeOK, PointersOK, FreshOK, Untouched, Listed
  <2>4. ProgressOK'
    BY DEF TypeOK, PointersOK, FreshOK, Untouched, ProgressOK
  <2>5. SeatedOnce'
    BY DEF TypeOK, PointersOK, FreshOK, Untouched, SeatedOnce
  <2>6. \A g \in Slots : encours'[g] = -1 => Starters(g)' = Starters(g)
    BY DEF TypeOK, PointersOK, ProgressOK, FreshOK, Untouched, Starters
  <2>7. StartCountsStarters'
    BY <2>6, StartersFrame DEF TypeOK
  <2>8. EndedMeansCaught'
    BY DEF TypeOK, PointersOK, FreshOK, Untouched, ProgressOK, EndedMeansCaught
  <2> QED BY <2>1, <2>2, <2>3, <2>4, <2>5, <2>7, <2>8
<1>20. CASE Drain(t)
  BY <1>20, JumpStep DEF Drain, Jump, MayGo, IInv, TypeOK, PointersOK, FreshOK, ProgressOK
<1>21. CASE QuitCount(t)
  BY <1>21, JumpStep DEF QuitCount, Jump, MayGo, IInv, TypeOK, PointersOK, FreshOK, ProgressOK
<1>22. CASE QuitLast(t)
  <2> USE <1>22 DEF IInv, QuitLast, Goto, shared, fieldVars
  <2>1. TypeOK'
    BY DEF TypeOK, PointersOK
  <2>2. PointersOK'
    BY DEF TypeOK, PointersOK, FreshOK
  <2>3. FreshOK'
    BY DEF TypeOK, PointersOK, FreshOK, Untouched, Listed
  <2>4. ProgressOK'
    BY DEF TypeOK, PointersOK, FreshOK, Untouched, ProgressOK
  <2>5. SeatedOnce'
    BY DEF TypeOK, PointersOK, FreshOK, Untouched, SeatedOnce
  <2>6. \A g \in Slots : encours'[g] = -1 => Starters(g)' = Starters(g)
    BY DEF TypeOK, PointersOK, ProgressOK, FreshOK, Untouched, Starters
  <2>7. StartCountsStarters'
    BY <2>6, StartersFrame DEF TypeOK
  <2>8. EndedMeansCaught'
    BY DEF TypeOK, PointersOK, FreshOK, Untouched, ProgressOK, EndedMeansCaught
  <2> QED BY <2>1, <2>2, <2>3, <2>4, <2>5, <2>7, <2>8
<1>23. CASE QuitLookup(t)
  <2> USE <1>23 DEF IInv, QuitLookup, Goto, shared, fieldVars
  <2>1. ptr'[t] \in Listed \cup {NoGame} /\ \A u \in Clients \ {t} : ptr'[u] = ptr[u]
    BY WalkEndsOnGame DEF TypeOK
  <2>2. Listed \subseteq Slots
    BY ListedAreSlots
  <2>3. ptr' \in [Clients -> Slots \cup {NoGame}]
    BY <2>1, <2>2 DEF TypeOK
  <2>4. TypeOK'
    BY <2>1, <2>2, <2>3 DEF TypeOK, PointersOK
  <2>5. PointersOK'
    BY <2>1, <2>2, <2>3 DEF TypeOK, PointersOK, FreshOK
  <2>6. FreshOK'
    <3>1. UNCHANGED <<games, alloc, joueurs, start, encours, me>>
      OBVIOUS
    <3>2. \A u \in Clients :
             /\ pc'[u] = "newlink" => pc[u] = "newlink" /\ ptr'[u] = ptr[u]
             /\ ptr'[u] \in {ptr[u], NoGame} \cup Listed
      BY <2>1 DEF TypeOK
    <3>3. \A u \in Clients : pc[u] = "newlink" => ptr[u] # NoGame
      BY LobbyAssumption DEF PointersOK
    <3>4. FreshOK
      OBVIOUS
    <3> HIDE DEF IInv, QuitLookup
    <3> QED BY <3>1, <3>2, <3>3, <3>4 DEF FreshOK, Untouched, Listed
  <2>7. ProgressOK'
    BY <2>1, <2>2, <2>3 DEF TypeOK, PointersOK, FreshOK, Untouched, ProgressOK
  <2>8. SeatedOnce'
    BY <2>1, <2>2, <2>3 DEF TypeOK, PointersOK, FreshOK, Untouched, SeatedOnce
  <2>9. \A g \in Slots : encours'[g] = -1 => Starters(g)' = Starters(g)
    BY DEF TypeOK, PointersOK, ProgressOK, FreshOK, Untouched, Starters
  <2>10. StartCountsStarters'
    BY <2>9, StartersFrame DEF TypeOK
  <2>11. EndedMeansCaught'
    BY DEF TypeOK, PointersOK, FreshOK, Untouched, ProgressOK, EndedMeansCaught
  <2> QED BY <2>4, <2>5, <2>6, <2>7, <2>8, <2>10, <2>11
<1>24. CASE QuitUnlink(t)
  <2> USE <1>24 DEF IInv, QuitUnlink, Goto, shared, fieldVars
  <2>1. games' = games \/ \E i \in DOMAIN games : games' = RemoveAt(games, i)
    OBVIOUS
  <2>2. games' \in Seq(Slots) /\ Listed' \subseteq Listed
    <3>1. CASE games' = games
      BY <3>1 DEF TypeOK, Listed
    <3>2. CASE \E i \in DOMAIN games : games' = RemoveAt(games, i)
      BY <3>2, UnlinkListed
    <3> QED BY <2>1, <3>1, <3>2
  <2>3. TypeOK'
    BY <2>2 DEF TypeOK, PointersOK
  <2>4. PointersOK'
    BY <2>2 DEF TypeOK, PointersOK, FreshOK
  <2>5. FreshOK'
    BY <2>2 DEF TypeOK, PointersOK, FreshOK, Untouched
  <2>6. ProgressOK'
    BY <2>2 DEF TypeOK, PointersOK, FreshOK, Untouched, ProgressOK
  <2>7. SeatedOnce'
    BY <2>2 DEF TypeOK, PointersOK, FreshOK, Untouched, SeatedOnce
  <2>8. \A g \in Slots : encours'[g] = -1 => Starters(g)' = Starters(g)
    BY DEF TypeOK, PointersOK, ProgressOK, FreshOK, Untouched, Starters
  <2>9. StartCountsStarters'
    BY <2>8, StartersFrame DEF TypeOK
  <2>10. EndedMeansCaught'
    BY DEF TypeOK, PointersOK, FreshOK, Untouched, ProgressOK, EndedMeansCaught
  <2> QED BY <2>3, <2>4, <2>5, <2>6, <2>7, <2>9, <2>10
<1>25. CASE QuitFree(t)
  <2> USE <1>25 DEF IInv, QuitFree, Goto, shared, fieldVars
  <2>1. TypeOK'
    BY DEF TypeOK, PointersOK
  <2>2. PointersOK'
    BY DEF TypeOK, PointersOK, FreshOK
  <2>3. FreshOK'
    BY DEF TypeOK, PointersOK, FreshOK, Untouched, Listed
  <2>4. ProgressOK'
    BY DEF TypeOK, PointersOK, FreshOK, Untouched, ProgressOK
  <2>5. SeatedOnce'
    BY DEF TypeOK, PointersOK, FreshOK, Untouched, SeatedOnce
  <2>6. \A g \in Slots : encours'[g] = -1 => Starters(g)' = Starters(g)
    BY DEF TypeOK, PointersOK, ProgressOK, FreshOK, Untouched, Starters
  <2>7. StartCountsStarters'
    BY <2>6, StartersFrame DEF TypeOK
  <2>8. EndedMeansCaught'
    BY DEF TypeOK, PointersOK, FreshOK, Untouched, ProgressOK, EndedMeansCaught
  <2> QED BY <2>1, <2>2, <2>3, <2>4, <2>5, <2>7, <2>8
<1>26. CASE QuitOther(t)
  <2> USE <1>26 DEF IInv, QuitOther, Goto, shared, fieldVars
  <2>1. TypeOK'
    BY DEF TypeOK, PointersOK
  <2>2. PointersOK'
    BY DEF TypeOK, PointersOK, FreshOK
  <2>3. FreshOK'
    BY DEF TypeOK, PointersOK, FreshOK, Untouched, Listed
  <2>4. ProgressOK'
    BY DEF TypeOK, PointersOK, FreshOK, Untouched, ProgressOK
  <2>5. SeatedOnce'
    BY DEF TypeOK, PointersOK, FreshOK, Untouched, SeatedOnce
  <2>6. \A g \in Slots : encours'[g] = -1 => Starters(g)' = Starters(g)
    BY DEF TypeOK, PointersOK, ProgressOK, FreshOK, Untouched, Starters
  <2>7. StartCountsStarters'
    BY <2>6, StartersFrame DEF TypeOK
  <2>8. EndedMeansCaught'
    BY DEF TypeOK, PointersOK, FreshOK, Untouched, ProgressOK, EndedMeansCaught
  <2> QED BY <2>1, <2>2, <2>3, <2>4, <2>5, <2>7, <2>8
<1>27. CASE Crash(t)
  <2> USE <1>27 DEF IInv, Crash, Goto, shared, fieldVars, threadVars
  <2>1. TypeOK'
    BY DEF TypeOK, PointersOK
  <2>2. PointersOK'
    BY DEF TypeOK, PointersOK, FreshOK
  <2>3. FreshOK'
    BY DEF TypeOK, PointersOK, FreshOK, Untouched, Listed
  <2>4. ProgressOK'
    BY DEF TypeOK, PointersOK, FreshOK, Untouched, ProgressOK
  <2>5. SeatedOnce'
    BY DEF TypeOK, PointersOK, FreshOK, Untouched, SeatedOnce
  <2>6. \A g \in Slots : encours'[g] = -1 => Starters(g)' = Starters(g)
    BY DEF TypeOK, PointersOK, ProgressOK, FreshOK, Untouched, Starters
  <2>7. StartCountsStarters'
    BY <2>6, StartersFrame DEF TypeOK
  <2>8. EndedMeansCaught'
    BY DEF TypeOK, PointersOK, FreshOK, Untouched, ProgressOK, EndedMeansCaught
  <2> QED BY <2>1, <2>2, <2>3, <2>4, <2>5, <2>7, <2>8
<1> QED BY <1>1, <1>2, <1>3, <1>4, <1>5, <1>6, <1>7, <1>8, <1>9, <1>10, <1>11, <1>12, <1>13, <1>14,
          <1>15, <1>16, <1>17, <1>18, <1>19, <1>20, <1>21, <1>22, <1>23, <1>24, <1>25, <1>26, <1>27 DEF Server

-----------------------------------------------------------------------------
(* The theorems.                                                           *)

LEMMA InitInvariant == ASSUME Init PROVE IInv
<1> USE LobbyAssumption DEF Init
<1>1. TypeOK
  <2>1. /\ pc \in [Clients -> Locations]
        /\ me \in [Clients -> Slots \cup {NoGame}]
        /\ leaving \in [Clients -> BOOLEAN]
        /\ ptr \in [Clients -> Slots \cup {NoGame}]
        /\ ready \in [Clients -> BOOLEAN]
        /\ crashed \in BOOLEAN
    BY DEF Locations, InLobby
  <2>2. /\ games \in Seq(Slots)
        /\ alloc \in [Slots -> {"none", "live", "freed"}]
        /\ joueurs \in [Slots -> SUBSET Clients]
    OBVIOUS
  <2>3. /\ game_id \in [Slots -> 0 .. 255]
        /\ encours \in [Slots -> {-1, 1, 2}]
        /\ start \in [Slots -> Nat]
        /\ fantomes \in [Slots -> 0 .. MaxGhosts]
    OBVIOUS
  <2> QED BY <2>1, <2>2, <2>3 DEF TypeOK
<1>2. PointersOK /\ FreshOK /\ ProgressOK
  BY DEF PointersOK, FreshOK, ProgressOK, Untouched, Listed, NoPlayerYet,
         InLobby, InPlay, Quitting
<1>3. SeatedOnce /\ EndedMeansCaught
  BY DEF SeatedOnce, EndedMeansCaught
<1>4. ASSUME NEW g \in Slots PROVE start[g] = Cardinality(Starters(g))
  <2>1. Starters(g) = {}
    BY DEF Starters
  <2> QED BY <2>1, FS_EmptySet
<1> QED BY <1>1, <1>2, <1>3, <1>4 DEF IInv, StartCountsStarters

LEMMA NextInvariant == ASSUME IInv, [Next]_vars PROVE IInv'
<1>1. CASE Next
  BY <1>1, UserStep, ServerStep DEF Next
<1>2. CASE UNCHANGED vars
  <2> USE <1>2 DEF vars, threadVars, shared, fieldVars, IInv
  <2>1. TypeOK'
    BY DEF TypeOK
  <2>2. PointersOK' /\ ProgressOK'
    BY DEF PointersOK, ProgressOK
  <2>3. FreshOK'
    BY DEF FreshOK, Untouched, Listed
  <2>4. SeatedOnce' /\ EndedMeansCaught'
    BY DEF SeatedOnce, EndedMeansCaught
  <2>5. \A g \in Slots : Starters(g)' = Starters(g)
    BY DEF Starters
  <2>6. StartCountsStarters'
    BY <2>5, StartersFrame
  <2> QED BY <2>1, <2>2, <2>3, <2>4, <2>6
<1> QED BY <1>1, <1>2

\* The inductive invariant holds whatever the threads of the server and the
\* users do.
THEOREM Invariance == Spec => []IInv
<1> QED BY InitInvariant, NextInvariant, PTL DEF Spec

\* The fields of every game and the position of every thread stay in range:
\* no interleaving makes the number of ghosts negative or mixes up ids.
THEOREM TypeCorrect == Spec => []TypeOK
<1>1. IInv => TypeOK
  BY DEF IInv
<1> QED BY Invariance, <1>1, PTL

\* A registered player is in the list of the one game it points to.
THEOREM SeatedOnceHolds == Spec => []SeatedOnce
<1>1. IInv => SeatedOnce
  BY DEF IInv
<1> QED BY Invariance, <1>1, PTL

\* Until a game begins, the counter `start' that start_game compares with the
\* length of the list is the number of players of the list that validated.
THEOREM StartCountsStartersHolds == Spec => []StartCountsStarters
<1>1. IInv => StartCountsStarters
  BY DEF IInv
<1> QED BY Invariance, <1>1, PTL

\* A game that is over has no ghost left, however late ENDGA was decided.
THEOREM EndedMeansCaughtHolds == Spec => []EndedMeansCaught
<1>1. IInv => EndedMeansCaught
  BY DEF IInv
<1> QED BY Invariance, <1>1, PTL

\* A game begins only with two different players that validated, although
\* start_game tests the counter, tests it again and sets encours in three
\* critical sections.
THEOREM BeginNeedsTwoHolds == Spec => BeginNeedsTwo
<1> DEFINE Begins(g) == encours[g] = -1 /\ encours'[g] = 1
           Two(g) == \E a, b \in Starters(g) : a # b
<1>1. ASSUME IInv, [Next]_vars, NEW g \in Slots, Begins(g)
      PROVE  Two(g)
  <2>1. PICK t \in Clients : StartSet(t) /\ me[t] = g
    <3>1. encours' # encours
      BY <1>1
    <3>2. PICK t \in Clients : User(t) \/ Server(t)
      BY <1>1, <3>1 DEF Next, vars, shared, fieldVars
    <3>3. StartSet(t) \/ EndGame(t)
      BY <3>1, <3>2 DEF User, Server, SendNewpl, SendRegis, SendUnreg,
         SendStart, SendBadStart, Disconnect, SendMove, SendIquit,
         SendTooLate, PlayHangUp, HangUp, NewAllocate, NewLink, RegisLookup,
         RegisAdd, UnregLookup, UnregRemove, UnregEmpty, UnregFree, UnregDone,
         StartIncrement, StartPlaced, StartCompare, Wake, Welcome, NoStart,
         CatchGhosts, MoveCheck, Drain, QuitCount, QuitLast, QuitLookup,
         QuitUnlink, QuitFree, QuitOther, Crash, Jump, shared, fieldVars
    <3>4. ~ EndGame(t) /\ me[t] = g
      BY <1>1, <3>3 DEF StartSet, EndGame, IInv, TypeOK
    <3> QED BY <3>3, <3>4
  <2>2. start[g] > 1
    BY <1>1, <2>1 DEF IInv, ProgressOK, StartSet
  <2>3. start[g] = Cardinality(Starters(g))
    BY <1>1 DEF IInv, StartCountsStarters
  <2>4. IsFiniteSet(Starters(g))
    <3>1. Starters(g) \subseteq Clients
      BY <1>1 DEF IInv, TypeOK, Starters
    <3> QED BY <3>1, FS_Subset, LobbyAssumption
  <2>5. Starters(g) # {}
    BY <2>2, <2>3, FS_EmptySet
  <2>6. PICK a : a \in Starters(g)
    BY <2>5
  <2>7. Starters(g) # {a}
    BY <2>2, <2>3, FS_Singleton
  <2> QED BY <2>6, <2>7
<1>2. ASSUME IInv, [Next]_vars
      PROVE  [\A g \in Slots : Begins(g) => Two(g)]_vars
  BY <1>1, <1>2
<1> QED BY Invariance, <1>2, PTL DEF Spec, BeginNeedsTwo


-----------------------------------------------------------------------------
(* Lobby implements Partie.                                                *)

\* The steps of a thread that a game can notice.
Noticed(t) ==
    \/ NewAllocate(t) \/ NewLink(t) \/ RegisAdd(t) \/ UnregRemove(t)
    \/ UnregFree(t) \/ StartIncrement(t) \/ StartSet(t) \/ CatchGhosts(t)
    \/ EndGame(t) \/ QuitLast(t) \/ QuitFree(t) \/ QuitOther(t)

Unnoticed == UNCHANGED <<alloc, encours, start, joueurs, fantomes, ready>>

LEMMA OthersUnnoticed ==
  ASSUME NEW t \in Clients, User(t) \/ Server(t)
  PROVE  Noticed(t) \/ Unnoticed
<1>1. CASE User(t)
  BY <1>1 DEF User, SendNewpl, SendRegis, SendUnreg, SendStart, SendBadStart,
     Disconnect, SendMove, SendIquit, SendTooLate, PlayHangUp, HangUp, Jump,
     shared, fieldVars, Unnoticed
<1>2. CASE Server(t)
  BY <1>2 DEF Server, Noticed, Unnoticed, RegisLookup, UnregLookup, UnregEmpty,
     UnregDone, StartPlaced, StartCompare, Wake, Welcome, NoStart, MoveCheck,
     Drain, QuitCount, QuitLookup, QuitUnlink, Crash, Jump, shared, fieldVars,
     threadVars
<1> QED BY <1>1, <1>2

LEMMA UnnoticedStutters ==
  ASSUME NEW g \in Slots, Unnoticed
  PROVE  UNCHANGED ThePartie(g)!vars
<1>1. Phase(g)' = Phase(g) /\ Starters(g)' = Starters(g)
  BY DEF Phase, Starters, Unnoticed
<1> QED BY <1>1 DEF ThePartie!vars, Unnoticed

\* A step on game h is noticed by no other game g.
Elsewhere(g) ==
    /\ alloc'[g] = alloc[g] /\ encours'[g] = encours[g]
    /\ joueurs'[g] = joueurs[g] /\ fantomes'[g] = fantomes[g]
    /\ Starters(g)' = Starters(g)

LEMMA ElsewhereStutters ==
  ASSUME NEW g \in Slots, Elsewhere(g)
  PROVE  UNCHANGED ThePartie(g)!vars
<1>1. Phase(g)' = Phase(g)
  BY DEF Phase, Elsewhere
<1> QED BY <1>1 DEF ThePartie!vars, Elsewhere

LEMMA TwoMembers ==
  ASSUME NEW S, IsFiniteSet(S), Cardinality(S) > 1
  PROVE  \E a, b \in S : a # b
<1>1. PICK a : a \in S
  BY FS_EmptySet
<1>2. S # {a}
  BY FS_Singleton
<1> QED BY <1>1, <1>2

LEMMA PhaseInUse ==
  ASSUME IInv, NEW g \in Slots
  PROVE  /\ alloc[g] = "live" =>
              /\ ThePartie(g)!InUse
              /\ encours[g] = -1 <=> Phase(g) = "waiting"
              /\ encours[g] = 1  <=> Phase(g) = "running"
              /\ encours[g] = 2  <=> Phase(g) = "over"
         /\ alloc[g] # "live" => Phase(g) = alloc[g]
<1> USE DEF IInv, TypeOK
<1>1. encours[g] \in {-1, 1, 2}
  OBVIOUS
<1> QED BY <1>1 DEF Phase, ThePartie!InUse

LEMMA NoticedStep ==
  ASSUME IInv, NEW t \in Clients, Noticed(t), NEW g \in Slots
  PROVE  [ThePartie(g)!Next]_(ThePartie(g)!vars)
<1> USE PhaseInUse DEF Goto
<1>1. CASE NewAllocate(t)
  <2>1. PICK h \in Slots, n \in 1 .. MaxGhosts :
           /\ alloc[h] = "none" /\ alloc' = [alloc EXCEPT ![h] = "live"]
           /\ fantomes' = [fantomes EXCEPT ![h] = n]
           /\ UNCHANGED <<encours, joueurs, ready>>
    BY <1>1 DEF NewAllocate
  <2>2. Starters(g)' = Starters(g)
    BY <2>1 DEF Starters
  <2>3. CASE g # h
    BY <2>1, <2>2, <2>3, ElsewhereStutters DEF Elsewhere, IInv, TypeOK
  <2>4. CASE g = h
    <3>1. Phase(g) = "none" /\ encours[g] = -1
      BY <2>1, <2>4 DEF IInv, FreshOK, Untouched
    <3>2. Phase(g)' = "waiting" /\ fantomes'[g] = n
      BY <2>1, <2>4, <3>1 DEF Phase, IInv, TypeOK
    <3>3. n \in Nat \ {0}
      BY LobbyAssumption
    <3>4. ThePartie(g)!Open
      BY <2>1, <2>2, <3>1, <3>2, <3>3 DEF ThePartie!Open
    <3> QED BY <3>4 DEF ThePartie!Next
  <2> QED BY <2>3, <2>4
<1>2. CASE NewLink(t)
  <2> DEFINE h == ptr[t]
  <2>1. /\ h \in Slots /\ alloc[h] = "live" /\ joueurs[h] = {}
        /\ joueurs' = [joueurs EXCEPT ![h] = {t}] /\ ~ready[t]
        /\ UNCHANGED <<alloc, encours, fantomes, ready>>
    <3>1. /\ h \in Slots /\ alloc[h] = "live" /\ joueurs[h] = {}
      BY <1>2 DEF NewLink, IInv, PointersOK, FreshOK, Untouched
    <3>2. ~ready[t]
      BY <1>2 DEF NewLink, IInv, ProgressOK, InLobby
    <3> QED BY <1>2, <3>1, <3>2 DEF NewLink
  <2> HIDE DEF h
  <2>2. Starters(g)' = Starters(g)
    BY <2>1 DEF Starters, IInv, TypeOK
  <2>3. CASE g # h
    BY <2>1, <2>2, <2>3, ElsewhereStutters DEF Elsewhere, IInv, TypeOK
  <2>4. CASE g = h
    <3>1. Phase(g)' = Phase(g) /\ joueurs'[g] = joueurs[g] \cup {t} /\ t \notin joueurs[g]
      BY <2>1, <2>4 DEF Phase, IInv, TypeOK
    <3>2. ThePartie(g)!Join(t)
      BY <2>1, <2>2, <2>4, <3>1 DEF ThePartie!Join
    <3> QED BY <3>2 DEF ThePartie!Next
  <2> QED BY <2>3, <2>4
<1>3. CASE RegisAdd(t)
  <2> DEFINE h == ptr[t]
  <2>1. /\ h \in Slots /\ alloc[h] = "live" /\ t \notin joueurs[h]
        /\ joueurs' = [joueurs EXCEPT ![h] = @ \cup {t}] /\ ~ready[t]
        /\ UNCHANGED <<alloc, encours, fantomes, ready>>
    <3>1. h \in Slots /\ alloc[h] = "live"
      BY <1>3 DEF RegisAdd, Live
    <3>2. t \notin joueurs[h]
      BY <1>3, <3>1, LobbyAssumption
         DEF RegisAdd, IInv, PointersOK, SeatedOnce, NoPlayerYet
    <3>3. ~ready[t]
      BY <1>3 DEF RegisAdd, IInv, ProgressOK, InLobby
    <3> QED BY <1>3, <3>1, <3>2, <3>3 DEF RegisAdd
  <2> HIDE DEF h
  <2>2. Starters(g)' = Starters(g)
    BY <2>1 DEF Starters, IInv, TypeOK
  <2>3. CASE g # h
    BY <2>1, <2>2, <2>3, ElsewhereStutters DEF Elsewhere, IInv, TypeOK
  <2>4. CASE g = h
    <3>1. Phase(g)' = Phase(g) /\ joueurs'[g] = joueurs[g] \cup {t}
      BY <2>1, <2>4 DEF Phase, IInv, TypeOK
    <3>2. ThePartie(g)!Join(t)
      BY <2>1, <2>2, <2>4, <3>1 DEF ThePartie!Join
    <3> QED BY <3>2 DEF ThePartie!Next
  <2> QED BY <2>3, <2>4
<1>4. CASE UnregRemove(t) \/ QuitLast(t) \/ QuitOther(t)
  <2> DEFINE h == me[t]
  <2>1. /\ h \in Slots /\ alloc[h] = "live" /\ t \in joueurs[h]
        /\ joueurs' = [joueurs EXCEPT ![h] = @ \ {t}]
        /\ UNCHANGED <<alloc, encours, fantomes, ready>>
    BY <1>4 DEF UnregRemove, QuitLast, QuitOther, Live, IInv, TypeOK,
       SeatedOnce, Seatless
  <2> HIDE DEF h
  <2>2. CASE g # h
    <3>1. Starters(g)' = Starters(g)
      BY <2>1, <2>2 DEF Starters, IInv, TypeOK
    <3> QED BY <2>1, <2>2, <3>1, ElsewhereStutters DEF Elsewhere, IInv, TypeOK
  <2>3. CASE g = h
    <3>1. Phase(g)' = Phase(g) /\ joueurs'[g] = joueurs[g] \ {t}
      BY <2>1, <2>3 DEF Phase, IInv, TypeOK
    <3>2. Starters(g)' = Starters(g) \ {t}
      BY <2>1, <3>1 DEF Starters
    <3>3. ThePartie(g)!Leave(t)
      BY <2>1, <2>3, <3>1, <3>2 DEF ThePartie!Leave
    <3> QED BY <3>3 DEF ThePartie!Next
  <2> QED BY <2>2, <2>3
<1>5. CASE UnregFree(t) \/ QuitFree(t)
  <2>1. PICK h \in Slots :
           /\ alloc[h] = "live" /\ alloc' = [alloc EXCEPT ![h] = "freed"]
           /\ UNCHANGED <<encours, joueurs, fantomes, ready>>
    BY <1>5 DEF UnregFree, QuitFree, Live, fieldVars
  <2>2. Starters(g)' = Starters(g)
    BY <2>1 DEF Starters
  <2>3. CASE g # h
    BY <2>1, <2>2, <2>3, ElsewhereStutters DEF Elsewhere, IInv, TypeOK
  <2>4. CASE g = h
    <3>1. Phase(g)' = "freed"
      BY <2>1, <2>4 DEF Phase, IInv, TypeOK
    <3>2. ThePartie(g)!Free
      BY <2>1, <2>2, <2>4, <3>1 DEF ThePartie!Free
    <3> QED BY <3>2 DEF ThePartie!Next
  <2> QED BY <2>3, <2>4
<1>6. CASE StartIncrement(t)
  <2> DEFINE h == me[t]
  <2>1. /\ h \in Slots /\ alloc[h] = "live" /\ t \in joueurs[h] /\ ~ready[t]
        /\ ready' = [ready EXCEPT ![t] = TRUE]
        /\ \A s \in Slots \ {h} : t \notin joueurs[s]
        /\ UNCHANGED <<alloc, encours, joueurs, fantomes>>
    BY <1>6 DEF StartIncrement, Live, IInv, TypeOK, SeatedOnce, Seatless,
       ProgressOK, InLobby
  <2> HIDE DEF h
  <2>2. Phase(g)' = Phase(g)
    BY <2>1 DEF Phase
  <2>3. CASE g # h
    <3>1. Starters(g)' = Starters(g)
      BY <2>1, <2>3 DEF Starters, IInv, TypeOK
    <3> QED BY <2>1, <2>3, <3>1, ElsewhereStutters DEF Elsewhere, IInv, TypeOK
  <2>4. CASE g = h
    <3>1. Starters(g)' = Starters(g) \cup {t} /\ t \in joueurs[g] \ Starters(g)
      BY <2>1, <2>4 DEF Starters, IInv, TypeOK
    <3>2. ThePartie(g)!Validate(t)
      BY <2>1, <2>2, <2>4, <3>1 DEF ThePartie!Validate
    <3> QED BY <3>2 DEF ThePartie!Next
  <2> QED BY <2>3, <2>4
<1>7. CASE StartSet(t)
  <2> DEFINE h == me[t]
  <2>1. /\ h \in Slots /\ t \in Starters(h) /\ start[h] > 1
        /\ encours' = [encours EXCEPT ![h] = 1]
        /\ UNCHANGED <<alloc, joueurs, fantomes, ready>>
    BY <1>7 DEF StartSet, Starters, IInv, TypeOK, PointersOK, NoPlayerYet,
       SeatedOnce, Seatless, ProgressOK
  <2> HIDE DEF h
  <2>2. Starters(g)' = Starters(g)
    BY <2>1 DEF Starters
  <2>3. CASE g # h
    BY <2>1, <2>2, <2>3, ElsewhereStutters DEF Elsewhere, IInv, TypeOK
  <2>4. CASE g = h /\ alloc[g] # "live"
    <3>1. Phase(g)' = Phase(g)
      BY <2>1, <2>4 DEF Phase
    <3> QED BY <2>1, <2>2, <3>1 DEF ThePartie!vars
  <2>5. CASE g = h /\ alloc[g] = "live"
    <3>1. Phase(g)' = "running" /\ encours'[g] = 1
      BY <2>1, <2>5 DEF Phase, IInv, TypeOK
    <3>2. CASE encours[g] = 1
      <4>1. Phase(g)' = Phase(g)
        BY <2>5, <3>1, <3>2
      <4> QED BY <2>1, <2>2, <4>1 DEF ThePartie!vars
    <3>3. CASE encours[g] = -1
      <4>1. \E a, b \in Starters(g) : a # b
        <5>1. /\ start[g] = Cardinality(Starters(g)) /\ IsFiniteSet(Starters(g))
              /\ start[g] > 1
          BY <2>1, <2>5, <3>3, FS_Subset, LobbyAssumption
             DEF IInv, TypeOK, StartCountsStarters, Starters
        <5> QED BY <5>1, TwoMembers
      <4>2. ThePartie(g)!Begin
        BY <2>1, <2>2, <2>5, <3>1, <3>3, <4>1 DEF ThePartie!Begin
      <4> QED BY <4>2 DEF ThePartie!Next
    <3>4. CASE encours[g] = 2
      <4>1. ThePartie(g)!Begin
        BY <2>1, <2>2, <2>5, <3>1, <3>4 DEF ThePartie!Begin
      <4> QED BY <4>1 DEF ThePartie!Next
    <3> QED BY <3>2, <3>3, <3>4 DEF IInv, TypeOK
  <2> QED BY <2>3, <2>4, <2>5
<1>8. CASE CatchGhosts(t)
  <2> DEFINE h == me[t]
  <2>1. PICK k \in 0 .. fantomes[h] :
           /\ h \in Slots /\ alloc[h] = "live" /\ encours[h] # -1
           /\ fantomes' = [fantomes EXCEPT ![h] = fantomes[h] - k]
           /\ UNCHANGED <<alloc, encours, joueurs, ready>>
    BY <1>8 DEF CatchGhosts, Live, IInv, TypeOK, ProgressOK, InPlay
  <2> HIDE DEF h
  <2>2. Starters(g)' = Starters(g) /\ Phase(g)' = Phase(g)
    BY <2>1 DEF Starters, Phase
  <2>3. CASE g # h
    BY <2>1, <2>2, <2>3, ElsewhereStutters DEF Elsewhere, IInv, TypeOK
  <2>4. CASE g = h
    <3>1. fantomes[g] \in Nat /\ fantomes'[g] = fantomes[g] - k /\ k \in 0 .. fantomes[g]
      BY <2>1, <2>4, LobbyAssumption DEF IInv, TypeOK
    <3>2. CASE k = 0
      <4>1. fantomes'[g] = fantomes[g]
        BY <3>1, <3>2
      <4> QED BY <2>1, <2>2, <4>1 DEF ThePartie!vars
    <3>3. CASE k # 0
      <4>1. fantomes'[g] \in 0 .. fantomes[g] - 1
        BY <3>1, <3>3
      <4>2. encours[g] = 1
        <5>1. fantomes[g] # 0
          BY <3>1, <3>3
        <5> QED BY <2>1, <2>4, <5>1 DEF IInv, TypeOK, EndedMeansCaught
      <4>3. ThePartie(g)!Catch
        BY <2>1, <2>2, <2>4, <4>1, <4>2 DEF ThePartie!Catch
      <4> QED BY <4>3 DEF ThePartie!Next
    <3> QED BY <3>2, <3>3
  <2> QED BY <2>3, <2>4
<1>9. CASE EndGame(t)
  <2> DEFINE h == me[t]
  <2>1. /\ h \in Slots /\ alloc[h] = "live" /\ fantomes[h] = 0 /\ encours[h] # -1
        /\ encours' = [encours EXCEPT ![h] = 2]
        /\ UNCHANGED <<alloc, joueurs, fantomes, ready>>
    BY <1>9 DEF EndGame, Live, IInv, TypeOK, ProgressOK, InPlay
  <2> HIDE DEF h
  <2>2. Starters(g)' = Starters(g)
    BY <2>1 DEF Starters
  <2>3. CASE g # h
    BY <2>1, <2>2, <2>3, ElsewhereStutters DEF Elsewhere, IInv, TypeOK
  <2>4. CASE g = h
    <3>1. Phase(g)' = "over"
      BY <2>1, <2>4 DEF Phase, IInv, TypeOK
    <3>2. CASE encours[g] = 2
      <4>1. Phase(g)' = Phase(g)
        BY <2>1, <2>4, <3>1, <3>2
      <4> QED BY <2>1, <2>2, <4>1 DEF ThePartie!vars
    <3>3. CASE encours[g] = 1
      <4>1. ThePartie(g)!End
        BY <2>1, <2>2, <2>4, <3>1, <3>3 DEF ThePartie!End
      <4> QED BY <4>1 DEF ThePartie!Next
    <3> QED BY <2>1, <2>4, <3>2, <3>3 DEF IInv, TypeOK
  <2> QED BY <2>3, <2>4
<1> QED BY <1>1, <1>2, <1>3, <1>4, <1>5, <1>6, <1>7, <1>8, <1>9 DEF Noticed

\* Every address begins unused, and every step of the server is a step, or
\* none, of the game at each of them: two different players have validated
\* when a game begins, it is only over without ghosts, nobody is in its list
\* twice or leaves it twice, and nothing happens to a game that was freed.
THEOREM ImplementsHolds == Spec => Implements
<1>1. Init => \A g \in Slots : ThePartie(g)!Init
  <2> SUFFICES ASSUME Init, NEW g \in Slots PROVE ThePartie(g)!Init
    OBVIOUS
  <2>1. Phase(g) = "none" /\ Starters(g) = {}
    BY DEF Init, Phase, Starters
  <2> QED BY <2>1 DEF Init, ThePartie!Init
<1>2. ASSUME IInv, [Next]_vars
      PROVE  [\A g \in Slots : [ThePartie(g)!Next]_(ThePartie(g)!vars)]_vars
  <2> SUFFICES ASSUME Next, NEW g \in Slots
               PROVE  [ThePartie(g)!Next]_(ThePartie(g)!vars)
    BY <1>2
  <2>1. PICK t \in Clients : User(t) \/ Server(t)
    BY DEF Next
  <2>2. CASE Noticed(t)
    BY <1>2, <2>2, NoticedStep
  <2>3. CASE Unnoticed
    BY <2>3, UnnoticedStutters
  <2> QED BY <2>1, <2>2, <2>3, OthersUnnoticed
<1> QED BY <1>1, <1>2, Invariance, PTL DEF Spec, Implements
-----------------------------------------------------------------------------
(* A game that is abandoned before it begins is freed.                     *)

\* The game that waits in the list without a player.
Empty(g) == g \in Listed \cap Live /\ joueurs[g] = {} /\ encours[g] = -1

\* Thread t is about to free it, or to add a player.
Minding(t, g) ==
    \/ pc[t] \in {"unregcount", "unregfree"} /\ me[t] = g
    \/ pc[t] = "regadd" /\ ptr[t] = g

Minded ==
    \A g \in Slots : Empty(g) => HasTwin(g) \/ \E t \in Clients : Minding(t, g)

\* Unless ids collide func_unreg has found the game of its player, or one that
\* was freed: then it will not get past freeGame.
Leaving == {"unregremove", "unregcount", "unregfree"}
Aimed(t) == HasTwin(me[t]) \/ ptr[t] = me[t] \/ ptr[t] \notin Live
AimOK == \A t \in Clients : pc[t] \in Leaving => Aimed(t)

\* A step of thread t leaves the pointers of the others alone.
Alone(t) == \A u \in Clients \ {t} : pc'[u] = pc[u] /\ me'[u] = me[u] /\ ptr'[u] = ptr[u]

LEMMA StepAlone ==
  ASSUME IInv, NEW t \in Clients, User(t) \/ Server(t)
  PROVE  Alone(t)
<1> USE DEF Alone, IInv, TypeOK, Goto
<1>1. CASE User(t)
  BY <1>1 DEF User, SendNewpl, SendRegis, SendUnreg, SendStart, SendBadStart,
     Disconnect, SendMove, SendIquit, SendTooLate, PlayHangUp, HangUp, Jump
<1>2. CASE NewAllocate(t) \/ NewLink(t) \/ RegisLookup(t) \/ RegisAdd(t)
  <2>1. pc' = [pc EXCEPT ![t] = pc'[t]] /\ me' = [me EXCEPT ![t] = me'[t]]
    BY <1>2 DEF NewAllocate, NewLink, RegisLookup, RegisAdd
  <2>2. ptr' = [ptr EXCEPT ![t] = ptr'[t]]
    BY <1>2 DEF NewAllocate, NewLink, RegisLookup, RegisAdd
  <2> QED BY <2>1, <2>2
<1>3. CASE UnregLookup(t) \/ UnregRemove(t) \/ UnregEmpty(t) \/ UnregFree(t) \/ UnregDone(t)
  BY <1>3 DEF UnregLookup, UnregRemove, UnregEmpty, UnregFree, UnregDone, Jump
<1>4. CASE StartIncrement(t) \/ StartPlaced(t) \/ StartCompare(t) \/ StartSet(t)
             \/ Wake(t) \/ Welcome(t) \/ NoStart(t)
             \/ CatchGhosts(t) \/ MoveCheck(t) \/ EndGame(t)
  BY <1>4 DEF StartIncrement, StartPlaced, StartCompare, StartSet, Wake, Welcome,
     NoStart, CatchGhosts, MoveCheck, EndGame, Jump
<1>5. CASE Drain(t) \/ QuitCount(t) \/ QuitLast(t) \/ QuitLookup(t)
             \/ QuitUnlink(t) \/ QuitFree(t) \/ QuitOther(t) \/ Crash(t)
  BY <1>5 DEF Drain, QuitCount, QuitLast, QuitLookup, QuitUnlink, QuitFree,
     QuitOther, Crash, Jump, threadVars
<1> QED BY <1>1, <1>2, <1>3, <1>4, <1>5 DEF Server

\* Addresses are never allocated twice and ids never change.
LEMMA MemoryStep ==
  ASSUME IInv, NEW t \in Clients, User(t) \/ Server(t), NEW g \in Slots
  PROVE  /\ alloc[g] # "none" => alloc'[g] # "none" /\ game_id'[g] = game_id[g]
         /\ alloc'[g] = "live" => alloc[g] = "live" \/ alloc[g] = "none"
<1>1. CASE NewAllocate(t)
  BY <1>1 DEF NewAllocate, IInv, TypeOK
<1>2. CASE UnregFree(t) \/ QuitFree(t)
  BY <1>2 DEF UnregFree, QuitFree, fieldVars, IInv, TypeOK
<1>3. CASE UNCHANGED <<alloc, game_id>>
  BY <1>3 DEF IInv, TypeOK
<1>4. NewAllocate(t) \/ UnregFree(t) \/ QuitFree(t) \/ UNCHANGED <<alloc, game_id>>
  <2>1. CASE User(t)
    BY <2>1 DEF User, SendNewpl, SendRegis, SendUnreg, SendStart, SendBadStart,
       Disconnect, SendMove, SendIquit, SendTooLate, PlayHangUp, HangUp, Jump,
       shared, fieldVars
  <2>2. CASE Server(t)
    BY <2>2 DEF Server, NewLink, RegisLookup, RegisAdd, UnregLookup,
       UnregRemove, UnregEmpty, UnregDone, StartIncrement, StartPlaced,
       StartCompare, StartSet, Wake, Welcome, NoStart, CatchGhosts, MoveCheck,
       EndGame, Drain, QuitCount, QuitLast, QuitLookup, QuitUnlink, QuitOther,
       Crash, Jump, shared, fieldVars
  <2> QED BY <2>1, <2>2
<1> QED BY <1>1, <1>2, <1>3, <1>4

LEMMA TwinStays ==
  ASSUME IInv, NEW t \in Clients, User(t) \/ Server(t),
         NEW g \in Slots, alloc[g] # "none", HasTwin(g)
  PROVE  HasTwin(g)'
<1>1. PICK h \in Slots \ {g} : alloc[h] # "none" /\ game_id[h] = game_id[g]
  BY DEF HasTwin
<1>2. alloc'[h] # "none" /\ game_id'[h] = game_id'[g]
  BY <1>1, MemoryStep
<1> QED BY <1>2 DEF HasTwin

\* What a step may do to the games without players, for the others to be
\* minded still.
LEMMA MindedFrame ==
  ASSUME IInv, Minded, NEW t \in Clients, User(t) \/ Server(t),
         \A g \in Slots : Empty(g)' =>
            HasTwin(g)' \/ Minding(t, g)' \/ (Empty(g) /\ ~Minding(t, g))
  PROVE  Minded'
<1> SUFFICES ASSUME NEW g \in Slots, Empty(g)', ~HasTwin(g)', ~Minding(t, g)'
             PROVE  \E u \in Clients : Minding(u, g)'
  BY DEF Minded
<1>1. Empty(g) /\ ~Minding(t, g)
  OBVIOUS
<1>2. ~HasTwin(g)
  BY <1>1, TwinStays DEF Empty, Live
<1>3. PICK u \in Clients : Minding(u, g)
  BY <1>1, <1>2 DEF Minded
<1>4. Minding(u, g)'
  BY <1>1, <1>3, StepAlone DEF Alone, Minding
<1> QED BY <1>4

LEMMA AimFrame ==
  ASSUME IInv, AimOK, NEW t \in Clients, User(t) \/ Server(t),
         pc'[t] \in Leaving => Aimed(t)'
  PROVE  AimOK'
<1> SUFFICES ASSUME NEW u \in Clients, pc'[u] \in Leaving, u # t
             PROVE  Aimed(u)'
  BY DEF AimOK
<1>1. pc[u] = pc'[u] /\ me'[u] = me[u] /\ ptr'[u] = ptr[u]
  BY StepAlone DEF Alone
<1>2. me[u] \in Slots /\ alloc[me[u]] # "none"
  BY <1>1 DEF IInv, PointersOK, Leaving, NoPlayerYet
<1>3. CASE HasTwin(me[u])
  BY <1>1, <1>2, <1>3, TwinStays DEF Aimed
<1>4. CASE ptr[u] = me[u]
  BY <1>1, <1>4 DEF Aimed
<1>5. CASE ptr[u] \notin Live
  <2>1. ptr[u] \in Slots => alloc[ptr[u]] = "freed"
    BY <1>5 DEF Live, IInv, TypeOK, PointersOK
  <2>2. ptr[u] \in Slots => alloc'[ptr[u]] # "live"
    BY <2>1, MemoryStep
  <2> QED BY <1>1, <2>2 DEF Aimed, Live
<1> QED BY <1>1, <1>3, <1>4, <1>5 DEF AimOK, Aimed

LEMMA WalkFinds ==
  ASSUME NEW seen, NEW m, NEW h, h = FirstWithId(seen, m)
  PROVE  h = NoGame \/ (h \in Listed /\ seen[h] = m)
<1> DEFINE first == {i \in DOMAIN games : /\ seen[games[i]] = m
                                         /\ \A j \in 1 .. i - 1 : seen[games[j]] # m}
<1>1. h = IF first = {} THEN NoGame ELSE games[CHOOSE i \in first : TRUE]
  BY DEF FirstWithId
<1> HIDE DEF first
<1>2. CASE first = {}
  BY <1>1, <1>2
<1>3. CASE first # {}
  <2>1. PICK i \in first : h = games[i]
    BY <1>1, <1>3
  <2> QED BY <2>1 DEF first, Listed
<1> QED BY <1>2, <1>3

LEMMA AimStep ==
  ASSUME IInv, AimOK, NEW t \in Clients, User(t) \/ Server(t)
  PROVE  AimOK'
<1> SUFFICES ASSUME pc'[t] \in Leaving PROVE Aimed(t)'
  BY AimFrame
<1>1. CASE UnregLookup(t)
  <2>1. PICK seen \in IdReadings :
           ptr' = [ptr EXCEPT ![t] = FirstWithId(seen, game_id[me[t]])]
    BY <1>1 DEF UnregLookup
  <2>2. UNCHANGED <<me, alloc, game_id>> /\ me[t] \in Live
    BY <1>1 DEF UnregLookup, shared, fieldVars
  <2>3. ptr'[t] = FirstWithId(seen, game_id[me[t]])
    BY <2>1 DEF IInv, TypeOK
  <2>4. SUFFICES ASSUME ptr'[t] \in Live, ptr'[t] # me[t] PROVE HasTwin(me[t])
    BY <2>2 DEF Aimed, Live, HasTwin
  <2>5. ptr'[t] \in Listed /\ seen[ptr'[t]] = game_id[me[t]]
    BY <2>3, <2>4, WalkFinds, LobbyAssumption DEF Live
  <2>6. game_id[ptr'[t]] = game_id[me[t]]
    BY <2>4, <2>5 DEF IdReadings
  <2> QED BY <2>4, <2>6 DEF HasTwin, Live
<1>2. CASE UnregRemove(t) \/ UnregEmpty(t) \/ Crash(t)
  <2>1. UNCHANGED <<me, ptr, alloc, game_id>> /\ pc[t] \in Leaving
    BY <1>2 DEF UnregRemove, UnregEmpty, Crash, Jump, shared, fieldVars,
       threadVars, Leaving
  <2> QED BY <2>1 DEF AimOK, Aimed, HasTwin, Live
<1>3. UnregLookup(t) \/ UnregRemove(t) \/ UnregEmpty(t) \/ Crash(t)
  <2>1. ~User(t)
    BY DEF User, SendNewpl, SendRegis, SendUnreg, SendStart, SendBadStart,
       Disconnect, SendMove, SendIquit, SendTooLate, PlayHangUp, HangUp, Jump,
       Goto, Leaving, IInv, TypeOK
  <2> QED BY <2>1 DEF Server, NewAllocate, NewLink, RegisLookup, RegisAdd,
       UnregFree, UnregDone, StartIncrement, StartPlaced,
       StartCompare, StartSet, Wake, Welcome, NoStart, CatchGhosts, MoveCheck,
       EndGame, Drain, QuitCount, QuitLast, QuitLookup, QuitUnlink, QuitFree,
       QuitOther, Jump, Goto, Leaving, IInv, TypeOK
<1> QED BY <1>1, <1>2, <1>3

LEMMA MindedStep ==
  ASSUME IInv, Minded, AimOK, NEW t \in Clients, User(t) \/ Server(t)
  PROVE  Minded'
<1> SUFFICES ASSUME NEW g \in Slots, Empty(g)'
             PROVE  HasTwin(g)' \/ Minding(t, g)' \/ (Empty(g) /\ ~Minding(t, g))
  BY MindedFrame
<1> USE DEF Goto
\* Most steps neither make a game empty nor stop minding one.
<1> DEFINE Away == pc[t] \notin {"unregcount", "unregfree", "regadd"}
<1>0. ASSUME Away, Listed' \subseteq Listed, Live' \subseteq Live,
             UNCHANGED joueurs, encours'[g] = -1 => encours[g] = -1
      PROVE  Empty(g) /\ ~Minding(t, g)
  BY <1>0 DEF Empty, Minding
<1>1. CASE User(t)
  <2>1. Away /\ UNCHANGED <<games, alloc, joueurs, encours>>
    BY <1>1 DEF User, SendNewpl, SendRegis, SendUnreg, SendStart, SendBadStart,
       Disconnect, SendMove, SendIquit, SendTooLate, PlayHangUp, HangUp, Jump,
       shared, fieldVars
  <2> QED BY <1>0, <2>1 DEF Listed, Live
<1>2. CASE NewAllocate(t)
  <2>1. g \in Listed /\ joueurs[g] = {} /\ encours[g] = -1 /\ Away
    BY <1>2 DEF NewAllocate, Empty, Listed
  <2>2. alloc[g] # "none" /\ alloc'[g] = "live"
    BY <2>1 DEF IInv, FreshOK, Empty, Live
  <2>3. alloc[g] = "live"
    BY <2>2, MemoryStep
  <2> QED BY <2>1, <2>3 DEF Empty, Live, Minding
<1>3. CASE NewLink(t)
  <2>1. ptr[t] \in Slots /\ joueurs' = [joueurs EXCEPT ![ptr[t]] = {t}]
    BY <1>3 DEF NewLink, IInv, PointersOK
  <2>2. g # ptr[t] /\ joueurs[g] = {}
    BY <2>1 DEF Empty, IInv, TypeOK
  <2>3. Listed' = Listed \cup {ptr[t]}
    <3>1. /\ games \in Seq(Slots) /\ ptr[t] \in Slots
          /\ games' = Append(games, ptr[t])
      BY <1>3, <2>1 DEF NewLink, IInv, TypeOK
    <3>2. /\ Len(games') = Len(games) + 1
          /\ games'[Len(games) + 1] = ptr[t]
          /\ \A i \in 1 .. Len(games) : games'[i] = games[i]
          /\ DOMAIN games = 1 .. Len(games) /\ DOMAIN games' = 1 .. Len(games')
          /\ Len(games) \in Nat
      BY <3>1, AppendProperties, LenProperties
    <3>3. DOMAIN games' = DOMAIN games \cup {Len(games) + 1}
      BY <3>2
    <3> QED BY <3>2, <3>3 DEF Listed
  <2>4. Away /\ UNCHANGED <<alloc, encours>>
    BY <1>3 DEF NewLink
  <2> QED BY <2>2, <2>3, <2>4 DEF Empty, Minding, Live
<1>4. CASE RegisLookup(t)
  <2>1. Away /\ UNCHANGED <<games, alloc, joueurs, encours>>
    BY <1>4 DEF RegisLookup, shared, fieldVars
  <2> QED BY <1>0, <2>1 DEF Listed, Live
<1>5. CASE RegisAdd(t)
  <2>1. /\ pc[t] = "regadd" /\ UNCHANGED <<games, alloc, encours>>
        /\ ptr[t] \in Slots /\ joueurs' = [joueurs EXCEPT ![ptr[t]] = @ \cup {t}]
    BY <1>5 DEF RegisAdd, Live
  <2>2. g # ptr[t] /\ joueurs[g] = {}
    BY <2>1 DEF Empty, IInv, TypeOK
  <2> QED BY <2>1, <2>2 DEF Empty, Minding, Listed, Live
<1>6. CASE UnregRemove(t)
  <2>1. /\ Away /\ pc'[t] = "unregcount" /\ me' = me
        /\ UNCHANGED <<games, alloc, encours>>
        /\ joueurs' = [joueurs EXCEPT ![me[t]] = @ \ {t}]
    BY <1>6 DEF UnregRemove, IInv, TypeOK
  <2>2. CASE g = me[t]
    BY <2>1, <2>2 DEF Minding
  <2>3. CASE g # me[t]
    BY <2>1, <2>3 DEF Empty, Minding, Listed, Live, IInv, TypeOK
  <2> QED BY <2>2, <2>3
<1>7. CASE UnregEmpty(t)
  <2>1. /\ pc[t] = "unregcount" /\ pc'[t] = "unregfree"
        /\ UNCHANGED <<me, games, alloc, encours, joueurs>>
    BY <1>7 DEF UnregEmpty, Jump, shared, fieldVars, IInv, TypeOK
  <2> QED BY <2>1 DEF Empty, Minding, Listed, Live
<1>8. CASE UnregFree(t)
  <2>1. /\ pc[t] = "unregfree" /\ ptr[t] \in Live
        /\ alloc' = [alloc EXCEPT ![ptr[t]] = "freed"]
        /\ UNCHANGED <<games, game_id, encours, joueurs>>
    BY <1>8 DEF UnregFree, fieldVars
  <2>2. g # ptr[t] /\ alloc[g] = "live"
    BY <2>1 DEF Empty, Live, IInv, TypeOK
  <2>3. CASE g = me[t]
    <3>1. HasTwin(g)
      BY <2>1, <2>2, <2>3 DEF AimOK, Aimed, Leaving
    <3> QED BY <2>2, <3>1, TwinStays
  <2>4. CASE g # me[t]
    BY <2>1, <2>2, <2>4 DEF Empty, Minding, Listed, Live
  <2> QED BY <2>3, <2>4
<1>9. CASE UnregDone(t)
  <2>1. UNCHANGED <<alloc, joueurs, encours>>
    BY <1>9 DEF UnregDone, fieldVars
  <2>2. CASE pc[t] = "unregcount"
    <3>1. games' = games /\ Count(me[t]) # 0
      BY <1>9, <2>2 DEF UnregDone
    <3>2. joueurs[me[t]] # {}
      BY <3>1, FS_EmptySet DEF Count
    <3> QED BY <2>1, <2>2, <3>1, <3>2 DEF Empty, Minding, Listed, Live
  <2>3. CASE pc[t] = "unregunlink"
    <3>1. Listed' \subseteq Listed
      BY <1>9, <2>3, UnlinkListed DEF UnregDone, IInv
    <3> QED BY <1>0, <2>1, <2>3, <3>1 DEF Live
  <2> QED BY <1>9, <2>2, <2>3 DEF UnregDone
<1>10. CASE StartSet(t) \/ EndGame(t)
  <2>1. /\ Away /\ UNCHANGED <<games, alloc, joueurs>>
        /\ \E v \in {1, 2} : encours' = [encours EXCEPT ![me[t]] = v]
    BY <1>10 DEF StartSet, EndGame
  <2>2. encours'[g] = -1 => encours[g] = -1
    BY <2>1 DEF IInv, TypeOK
  <2> QED BY <1>0, <2>1, <2>2 DEF Listed, Live
<1>11. CASE QuitLast(t) \/ QuitOther(t)
  <2>1. /\ Away /\ UNCHANGED <<games, alloc, encours>> /\ encours[me[t]] # -1
        /\ joueurs' = [joueurs EXCEPT ![me[t]] = @ \ {t}]
    BY <1>11 DEF QuitLast, QuitOther, IInv, ProgressOK, Quitting
  <2>2. g # me[t]
    BY <2>1 DEF Empty
  <2> QED BY <2>1, <2>2 DEF Empty, Minding, Listed, Live, IInv, TypeOK
<1>12. CASE QuitUnlink(t)
  <2>1. Away /\ UNCHANGED <<alloc, joueurs, encours>>
    BY <1>12 DEF QuitUnlink, fieldVars
  <2>2. Listed' \subseteq Listed
    <3>1. games' = games \/ \E i \in DOMAIN games : games' = RemoveAt(games, i)
      BY <1>12 DEF QuitUnlink
    <3> QED BY <3>1, UnlinkListed DEF IInv, Listed
  <2> QED BY <1>0, <2>1, <2>2 DEF Live
<1>13. CASE QuitFree(t)
  <2>1. Away /\ UNCHANGED <<games, joueurs, encours>>
        /\ alloc' = [alloc EXCEPT ![me[t]] = "freed"]
    BY <1>13 DEF QuitFree, fieldVars
  <2>2. Live' \subseteq Live
    BY <2>1 DEF Live, IInv, TypeOK
  <2> QED BY <1>0, <2>1, <2>2 DEF Listed
<1>14. CASE Crash(t)
  <2>1. UNCHANGED <<pc, me, ptr, games, alloc, joueurs, encours>>
    BY <1>14 DEF Crash, threadVars, fieldVars
  <2> QED BY <2>1 DEF Empty, Minding, Listed, Live
<1>15. CASE UnregLookup(t) \/ StartIncrement(t) \/ StartPlaced(t)
              \/ StartCompare(t) \/ Wake(t) \/ Welcome(t) \/ NoStart(t)
              \/ CatchGhosts(t) \/ MoveCheck(t) \/ Drain(t) \/ QuitCount(t)
              \/ QuitLookup(t)
  <2>1. Away /\ UNCHANGED <<games, alloc, joueurs, encours>>
    BY <1>15 DEF UnregLookup, StartIncrement, StartPlaced, StartCompare, Wake,
       Welcome, NoStart, CatchGhosts, MoveCheck, Drain, QuitCount, QuitLookup,
       Jump, shared, fieldVars
  <2> QED BY <1>0, <2>1 DEF Listed, Live
<1> QED BY <1>1, <1>2, <1>3, <1>4, <1>5, <1>6, <1>7, <1>8, <1>9, <1>10, <1>11,
        <1>12, <1>13, <1>14, <1>15 DEF Server

\* A game that has not begun and that nobody is in or has a pointer to is not
\* left in the list, whatever departures and registrations race, unless its id
\* was given twice.
THEOREM AbandonedIsFreedHolds == Spec => []AbandonedIsFreed
<1> DEFINE Inv == IInv /\ Minded /\ AimOK
<1>1. Init => Inv
  <2> SUFFICES ASSUME Init PROVE Inv
    OBVIOUS
  <2>1. Minded /\ AimOK
    BY DEF Init, Minded, AimOK, Empty, Listed, Leaving
  <2> QED BY <2>1, InitInvariant
<1>2. Inv /\ [Next]_vars => Inv'
  <2> SUFFICES ASSUME Inv, [Next]_vars PROVE Inv'
    OBVIOUS
  <2>1. CASE Next
    BY <2>1, MindedStep, AimStep, NextInvariant DEF Next
  <2>2. CASE UNCHANGED vars
    <3>1. Minded' /\ AimOK'
      BY <2>2 DEF vars, threadVars, shared, fieldVars, Minded, AimOK, Aimed,
         Empty, Minding, HasTwin, Listed, Live
    <3> QED BY <3>1, NextInvariant
  <2> QED BY <2>1, <2>2
<1>3. Inv => AbandonedIsFreed
  BY DEF Minded, Empty, Minding, Abandoned, AbandonedIsFreed
<1> QED BY <1>1, <1>2, <1>3, PTL DEF Spec
=============================================================================
