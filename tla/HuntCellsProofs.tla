-------------------------- MODULE HuntCellsProofs --------------------------
(***************************************************************************)
(* Proofs that TLAPS checks about where the ghosts of Hunt are: between    *)
(* two requests there is one ghost on a cell at most and none on the cell  *)
(* of a player, however many threads move them at once; and they keep off  *)
(* the walls as long as no two threads move the same one.                  *)
(***************************************************************************)
EXTENDS HuntProofs

\* A ghost that was freed and is still in the list is about to leave it.
FreedLeaves ==
    \A g \in ToSet(fantomes) \cap freed :
        \E p \in Joueurs : thread[p].pc = "remove" /\ thread[p].el = g

\* The walk of no_collision, at v, has the ghost h before it: it is still in
\* the list of the players, or not behind h in that of the ghosts.  (From an
\* element that has left its list it does not go on.)
GhostAhead(v, h, list) ==
    \/ v \in Joueurs
    \/ v \in Fantomes /\ (v \in ToSet(list) => Place(list, v) <= Place(list, h))

\* The same for a player.
PlayerAhead(v, p, list) ==
    v \in Joueurs /\ (v \in ToSet(list) => Place(list, v) <= Place(list, p))

\* The thread whose locals are t moves g, and will compare it with h.
Meets(t, g, h, list) ==
    /\ t.el = g
    /\ t.pc \in {"turn", "shift"} \/ (t.pc = "look" /\ GhostAhead(t.vis, h, list))

\* It moves g, and will compare it with the player p.
Catches(t, g, p, list) ==
    /\ t.el = g
    /\ t.pc \in {"turn", "shift"} \/ (t.pc = "look" /\ PlayerAhead(t.vis, p, list))

\* Two ghosts are on one cell only while a thread that moves one of them has
\* still to look at the other.
GhostsWatched ==
    \A g, h \in ToSet(fantomes) \ freed : g # h /\ pos[g] = pos[h] =>
        \E p \in Joueurs : \/ Meets(thread[p], g, h, fantomes)
                           \/ Meets(thread[p], h, g, fantomes)

\* From here a thread goes on to a loop over all the ghosts (movGhost), ...
Walking == {"step", "first", "search", "credit", "free", "remove",
            "status", "count", "sweep"}

\* ... and from here the loop still gets to the ghost g, if no other is removed.
Reaches(t, g, list) ==
    /\ t.pc \in {"ghost", "turn", "shift", "look", "sweepnext"}
    /\ t.el \in ToSet(list) /\ t.i < Place(list, t.el)
    /\ Place(list, t.el) <= Place(list, g)
    /\ t.pc # "ghost" => t.el # g

\* A ghost is on the cell of a player only while a thread is about to move it
\* and to look at that player: a player that has moved moves the ghosts next,
\* and if the list gets shorter meanwhile, so does who made it shorter.
PlayersWatched ==
    \A p \in ToSet(joueurs), g \in ToSet(fantomes) \ freed : pos[p] = pos[g] =>
        \E q \in Joueurs : \/ thread[q].pc \in Walking
                           \/ Reaches(thread[q], g, fantomes)
                           \/ Catches(thread[q], g, p, joueurs)

CInv == IInv /\ Once /\ GhostsOnce /\ FreedLeaves /\ GhostsWatched /\ PlayersWatched

-----------------------------------------------------------------------------
(* The steps of a thread that moves a ghost.                               *)

\* Which steps these are.
LEMMA MovesGhost ==
  ASSUME TypeOK, NEW p \in Joueurs, Player(p),
         thread[p].pc \in {"turn", "shift", "look"}
  PROVE  Turn(p) \/ Shift(p) \/ Look(p) \/ Return(p) \/ Corrupt(p)
  BY DEF Player, Move, Step, LookFirst, Search, Credit, Free, RemoveGhost,
         Status, CountGhosts, EndGame, Best, Compare, Announce, SweepFirst,
         Sweep, SweepNext, Quit, Leave

\* Where they lead.
LEMMA GhostLocals ==
  ASSUME TypeOK, NEW p \in Joueurs
  PROVE  /\ Turn(p) \/ Shift(p) =>
               /\ thread'[p].el = thread[p].el
               /\ \/ thread'[p].pc = "shift"
                  \/ thread'[p].pc = "look" /\ thread'[p].vis = First(joueurs)
         /\ Shift(p) =>
               /\ thread[p].pc = "shift" /\ thread'[p].pc = "look"
               /\ thread'[p].vis = First(joueurs)
         /\ Look(p) =>
               /\ thread'[p].el = thread[p].el
               /\ \/ thread'[p].pc = "turn"
                  \/ /\ ~(thread[p].vis # thread[p].el /\ pos[thread[p].vis] = pos[thread[p].el])
                     /\ thread'[p].pc = "look" /\ thread'[p].vis = AfterIn(thread[p].vis)
         /\ Return(p) =>
               /\ thread[p].pc = "look" /\ thread[p].vis = NoEl
               /\ thread'[p].el = thread[p].el /\ thread'[p].pc \in {"look", "sweepnext"}
<1>0. thread \in [Joueurs -> Locals]
  BY DEF TypeOK
<1>1. ASSUME Turn(p)
      PROVE  /\ thread'[p].el = thread[p].el
             /\ \/ thread'[p].pc = "shift"
                \/ thread'[p].pc = "look" /\ thread'[p].vis = First(joueurs)
  BY <1>0, <1>1 DEF Turn, NoCollision, Locals
<1>2. ASSUME Shift(p)
      PROVE  /\ thread'[p].el = thread[p].el /\ thread[p].pc = "shift"
             /\ thread'[p].pc = "look" /\ thread'[p].vis = First(joueurs)
  BY <1>0, <1>2 DEF Shift, NoCollision, Locals
<1>3. ASSUME Look(p)
      PROVE  /\ thread'[p].el = thread[p].el
             /\ \/ thread'[p].pc = "turn"
                \/ /\ ~(thread[p].vis # thread[p].el /\ pos[thread[p].vis] = pos[thread[p].el])
                   /\ thread'[p].pc = "look" /\ thread'[p].vis = AfterIn(thread[p].vis)
  BY <1>0, <1>3 DEF Look, Locals
<1>4. ASSUME Return(p)
      PROVE  /\ thread[p].pc = "look" /\ thread[p].vis = NoEl
             /\ thread'[p].el = thread[p].el /\ thread'[p].pc \in {"look", "sweepnext"}
  BY <1>0, <1>4 DEF Return, Goto, Locals
<1> QED BY <1>1, <1>2, <1>3, <1>4

\* A list that is not empty begins with its first element.
LEMMA FirstPlace ==
  ASSUME NEW S, NEW s \in Seq(S), IsInjective(s), NEW e \in ToSet(s)
  PROVE  /\ First(s) \in ToSet(s) /\ First(s) \in S
         /\ Place(s, First(s)) = 1 /\ 1 <= Place(s, e) /\ Place(s, e) \in Nat
<1>1. Place(s, e) \in 1 .. Len(s) /\ Len(s) \in Nat /\ e \in S
  BY PlaceFacts, LenProperties
<1>2. 1 \in 1 .. Len(s) /\ s # <<>>
  BY <1>1, EmptySeq
<1>3. First(s) = s[1] /\ s[1] \in S
  BY <1>2, ElementOfSeq DEF First
<1> QED BY <1>1, <1>2, <1>3, PlaceIs

\* Behind an element that is in front of another one there is one that is not
\* behind that.
LEMMA AfterPlace ==
  ASSUME NEW S, NEW s \in Seq(S), IsInjective(s), NEW d \in ToSet(s),
         NEW e \in ToSet(s), d # e, Place(s, d) <= Place(s, e), NoEl \notin S
  PROVE  /\ After(s, d) \in ToSet(s) /\ After(s, d) \in S /\ After(s, d) # NoEl
         /\ Place(s, After(s, d)) = Place(s, d) + 1
         /\ Place(s, After(s, d)) <= Place(s, e)
<1> DEFINE k == Place(s, d)
           j == Place(s, e)
<1>1. /\ k \in 1 .. Len(s) /\ j \in 1 .. Len(s) /\ Len(s) \in Nat
      /\ s[k] = d /\ s[j] = e
  BY PlaceFacts, LenProperties
<1> HIDE DEF k, j
<1>2. k # j /\ k <= j
  BY <1>1 DEF k, j
<1>3. k + 1 \in 1 .. Len(s) /\ k # Len(s) /\ k + 1 <= j
  BY <1>1, <1>2
<1>4. After(s, d) = s[k + 1]
  BY <1>3 DEF After, k
<1>5. s[k + 1] \in ToSet(s) /\ Place(s, s[k + 1]) = k + 1 /\ s[k + 1] \in S
  BY <1>3, PlaceIs, ElementOfSeq
<1> QED BY <1>3, <1>4, <1>5 DEF k, j

\* The walk of no_collision passes nobody over.
LEMMA WalkOn ==
  ASSUME TypeOK, Once, GhostsOnce, NEW v \in InLists
  PROVE  /\ \A h \in ToSet(fantomes) :
               v # h /\ GhostAhead(v, h, fantomes) => GhostAhead(AfterIn(v), h, fantomes)
         /\ \A p \in ToSet(joueurs) :
               v # p /\ PlayerAhead(v, p, joueurs) => PlayerAhead(AfterIn(v), p, joueurs)
<1>1. /\ joueurs \in Seq(Joueurs) /\ fantomes \in Seq(Fantomes)
      /\ IsInjective(joueurs) /\ IsInjective(fantomes)
      /\ NoEl \notin Joueurs /\ NoEl \notin Fantomes
      /\ \A e \in Joueurs : e \notin Fantomes
      /\ ToSet(joueurs) \subseteq Joueurs /\ ToSet(fantomes) \subseteq Fantomes
  BY HuntAssumption, PlaceFacts DEF TypeOK, Once, GhostsOnce, Entities
<1>2. ASSUME NEW h \in ToSet(fantomes), v # h, GhostAhead(v, h, fantomes)
      PROVE  GhostAhead(AfterIn(v), h, fantomes)
  <2>1. CASE v \in ToSet(joueurs)
    <3>1. v \notin Fantomes /\ After(joueurs, v) \in Joueurs \cup {NoEl}
      BY <1>1, <2>1, AfterFacts
    <3>2. CASE After(joueurs, v) # NoEl
      BY <3>1, <3>2 DEF AfterIn, GhostAhead
    <3>3. CASE After(joueurs, v) = NoEl
      <4>1. AfterIn(v) = First(fantomes)
        BY <3>1, <3>3 DEF AfterIn
      <4>2. First(fantomes) \in Fantomes /\ Place(fantomes, First(fantomes)) <= Place(fantomes, h)
        BY <1>1, FirstPlace
      <4> QED BY <4>1, <4>2 DEF GhostAhead
    <3> QED BY <3>2, <3>3
  <2>2. CASE v \in ToSet(fantomes)
    <3>1. v \in Fantomes /\ v \notin Joueurs /\ AfterIn(v) = After(fantomes, v)
      BY <1>1, <2>2 DEF AfterIn
    <3>2. Place(fantomes, v) <= Place(fantomes, h)
      BY <1>2, <2>2, <3>1 DEF GhostAhead
    <3>3. /\ After(fantomes, v) \in Fantomes
          /\ Place(fantomes, After(fantomes, v)) <= Place(fantomes, h)
      BY <1>1, <1>2, <2>2, <3>2, AfterPlace
    <3> QED BY <3>1, <3>3 DEF GhostAhead
  <2> QED BY <2>1, <2>2 DEF InLists
<1>3. ASSUME NEW p \in ToSet(joueurs), v # p, PlayerAhead(v, p, joueurs)
      PROVE  PlayerAhead(AfterIn(v), p, joueurs)
  <2>1. v \in Joueurs /\ v \notin Fantomes /\ v \in ToSet(joueurs)
    BY <1>1, <1>3 DEF PlayerAhead, InLists
  <2>2. Place(joueurs, v) <= Place(joueurs, p)
    BY <1>3, <2>1 DEF PlayerAhead
  <2>3. /\ After(joueurs, v) \in Joueurs /\ After(joueurs, v) # NoEl
        /\ Place(joueurs, After(joueurs, v)) <= Place(joueurs, p)
    BY <1>1, <1>3, <2>1, <2>2, AfterPlace
  <2>4. AfterIn(v) = After(joueurs, v)
    BY <2>1, <2>3 DEF AfterIn
  <2> QED BY <2>3, <2>4 DEF PlayerAhead
<1> QED BY <1>2, <1>3

\* Who is in front of whom stays so when another one is removed.
LEMMA WithoutOrder ==
  ASSUME NEW S, NEW s \in Seq(S), IsInjective(s), NEW e \in ToSet(s),
         NEW d \in ToSet(s), NEW f \in ToSet(s), d # e, f # e,
         Place(s, d) <= Place(s, f)
  PROVE  Place(Without(s, e), d) <= Place(Without(s, e), f)
<1> DEFINE k == Place(s, e)
           w == Without(s, e)
           New(i) == IF i < k THEN i ELSE i - 1
<1>1. /\ k \in 1 .. Len(s) /\ s[k] = e
      /\ Len(s) \in Nat /\ w \in Seq(S) /\ Len(w) = Len(s) - 1
      /\ \A i \in 1 .. Len(s) - 1 : w[i] = s[IF i < k THEN i ELSE i + 1]
  BY WithoutElements
<1>2. IsInjective(w)
  BY WithoutOnce
<1> HIDE DEF k, w
<1>3. ASSUME NEW c \in ToSet(s), c # e
      PROVE  /\ Place(w, c) = New(Place(s, c))
             /\ Place(s, c) \in 1 .. Len(s) /\ Place(s, c) # k
  <2> DEFINE j == Place(s, c)
  <2>1. j \in 1 .. Len(s) /\ s[j] = c
    BY PlaceFacts
  <2> HIDE DEF j
  <2>2. j # k
    BY <1>1, <1>3, <2>1
  <2>3. New(j) \in 1 .. Len(s) - 1 /\ New(j) \in 1 .. Len(w)
    BY <1>1, <2>1, <2>2
  <2>4. (IF New(j) < k THEN New(j) ELSE New(j) + 1) = j
    BY <1>1, <2>1, <2>2
  <2> HIDE DEF New
  <2>5. w[New(j)] = c
    BY <1>1, <2>1, <2>3, <2>4
  <2>6. Place(w, c) = New(j)
    BY <1>1, <1>2, <2>3, <2>5, PlaceIs
  <2> QED BY <2>1, <2>2, <2>6 DEF j
<1> DEFINE jd == Place(s, d)
           jf == Place(s, f)
<1>4. /\ jd \in 1 .. Len(s) /\ jf \in 1 .. Len(s) /\ jd <= jf
      /\ jd # k /\ jf # k
      /\ Place(w, d) = New(jd) /\ Place(w, f) = New(jf)
  BY <1>3
<1> HIDE DEF jd, jf
<1>5. New(jd) <= New(jf)
  BY <1>1, <1>4
<1> QED BY <1>4, <1>5 DEF w

\* What becomes of the lists in a step, and which entities change place.
LEMMA Places ==
  ASSUME IInv, GhostsOnce, NEW p \in Joueurs, Player(p)
  PROVE  /\ freed \subseteq freed' /\ ToSet(fantomes') \subseteq ToSet(fantomes)
         /\ Leave(p) \/ UNCHANGED joueurs
         /\ \/ UNCHANGED pos
            \/ Step(p) /\ \A e \in Entities : e # p => pos'[e] = pos[e]
            \/ /\ Shift(p) \/ (Free(p) /\ thread[p].el \in freed')
               /\ \A e \in Entities : e # thread[p].el => pos'[e] = pos[e]
<1>0. TypeOK /\ fantomes \in Seq(Fantomes) /\ pos \in [Entities -> Int \X Int]
  BY DEF IInv, TypeOK
<1>1. /\ Leave(p) \/ UNCHANGED joueurs
      /\ Free(p) \/ UNCHANGED freed
      /\ Step(p) \/ Shift(p) \/ Free(p) \/ UNCHANGED pos
  <2>1. CASE ~Leave(p) /\ ~Free(p) /\ ~Step(p) /\ ~Shift(p)
    <3>1. UNCHANGED <<joueurs, freed, pos>>
      BY <2>1 DEF Player, Move, LookFirst, Search, Credit, RemoveGhost, Status,
         CountGhosts, EndGame, Best, Compare, Announce, SweepFirst, Sweep,
         Turn, Look, Return, SweepNext, Quit, Corrupt, shared
    <3> QED BY <3>1
  <2>2. CASE Leave(p) \/ Free(p) \/ Step(p) \/ Shift(p)
    BY <2>2 DEF Step, Shift, Free, Leave
  <2> QED BY <2>1, <2>2
<1>2. ToSet(fantomes') \subseteq ToSet(fantomes)
  <2>1. CASE RemoveGhost(p)
    BY <1>0, <2>1, WithoutOnce DEF RemoveGhost, GhostsOnce
  <2>2. CASE ~RemoveGhost(p)
    BY <1>0, <2>2, OthersStay
  <2> QED BY <2>1, <2>2
<1>3. ASSUME Step(p) PROVE \A e \in Entities : e # p => pos'[e] = pos[e]
  BY <1>0, <1>3 DEF Step
<1>4. ASSUME Shift(p) PROVE \A e \in Entities : e # thread[p].el => pos'[e] = pos[e]
  BY <1>0, <1>4 DEF Shift
<1>5. ASSUME Free(p)
      PROVE  /\ thread[p].el \in freed' /\ freed \subseteq freed'
             /\ \A e \in Entities : e # thread[p].el => pos'[e] = pos[e]
  BY <1>0, <1>5 DEF Free
<1> QED BY <1>1, <1>2, <1>3, <1>4, <1>5

-----------------------------------------------------------------------------
(* A freed ghost leaves the list.                                          *)

LEMMA FreedStep ==
  ASSUME IInv, GhostsOnce, FreedLeaves, NEW p \in Joueurs, Player(p)
  PROVE  FreedLeaves'
<1>0. /\ TypeOK /\ fantomes \in Seq(Fantomes) /\ thread \in [Joueurs -> Locals]
      /\ \A q \in Joueurs : q # p => thread'[q] = thread[q]
  BY OthersStay DEF IInv, TypeOK
<1>1. CASE RemoveGhost(p)
  <2>1. /\ ToSet(fantomes') = ToSet(fantomes) \ {thread[p].el}
        /\ freed' = freed
    BY <1>0, <1>1, WithoutOnce DEF RemoveGhost, GhostsOnce
  <2> QED BY <1>0, <2>1 DEF FreedLeaves
<1>2. CASE Free(p)
  <2>1. /\ thread[p].pc = "free" /\ freed' = freed \cup {thread[p].el}
        /\ thread'[p].pc = "remove" /\ thread'[p].el = thread[p].el
        /\ fantomes' = fantomes
    BY <1>0, <1>2 DEF Free, Goto, Locals
  <2> QED BY <1>0, <2>1 DEF FreedLeaves
<1>3. CASE ~RemoveGhost(p) /\ ~Free(p)
  <2>1. UNCHANGED <<fantomes, freed>>
    BY <1>3 DEF Player, Move, Step, LookFirst, Search, Credit, Status,
       CountGhosts, EndGame, Best, Compare, Announce, SweepFirst, Sweep, Turn,
       Shift, Look, Return, SweepNext, Quit, Leave, Corrupt, shared
  <2>2. thread[p].pc = "remove" => UNCHANGED thread
    BY <1>3 DEF Player, Move, Step, LookFirst, Search, Credit, Status,
       CountGhosts, EndGame, Best, Compare, Announce, SweepFirst, Sweep, Turn,
       Shift, Look, Return, SweepNext, Quit, Leave, Corrupt
  <2> QED BY <1>0, <2>1, <2>2 DEF FreedLeaves
<1> QED BY <1>1, <1>2, <1>3

-----------------------------------------------------------------------------
(* Two ghosts on one cell.                                                 *)

\* The thread that moves one of them still has the other before it, whatever
\* it or another thread does, unless it moves them apart.
LEMMA MeetsStep ==
  ASSUME IInv, Once, GhostsOnce, NEW p \in Joueurs, Player(p),
         NEW q \in Joueurs, NEW g \in ToSet(fantomes), NEW h \in ToSet(fantomes),
         h \in ToSet(fantomes'), g # h, pos[g] = pos[h],
         Meets(thread[q], g, h, fantomes)
  PROVE  Meets(thread'[q], g, h, fantomes')
<1>0. /\ TypeOK /\ fantomes \in Seq(Fantomes) /\ joueurs \in Seq(Joueurs)
      /\ IsInjective(joueurs) /\ IsInjective(fantomes)
      /\ h \in Fantomes /\ NoEl \notin Joueurs /\ NoEl \notin Fantomes
  BY PlaceFacts, HuntAssumption DEF IInv, TypeOK, Once, GhostsOnce, Entities
<1>1. CASE q # p
  <2>1. thread'[q] = thread[q]
    BY <1>0, <1>1, OthersStay
  <2>2. ASSUME NEW v, GhostAhead(v, h, fantomes)
        PROVE  GhostAhead(v, h, fantomes')
    <3>1. CASE RemoveGhost(p)
      <4> DEFINE e == thread[p].el
      <4>1. e \in ToSet(fantomes) /\ fantomes' = Without(fantomes, e)
        BY <3>1 DEF RemoveGhost
      <4>2. ToSet(fantomes') = ToSet(fantomes) \ {e}
        BY <1>0, <4>1, WithoutOnce
      <4> HIDE DEF e
      <4>3. h # e
        BY <4>2
      <4>4. ASSUME v \in ToSet(fantomes'), Place(fantomes, v) <= Place(fantomes, h)
            PROVE  Place(fantomes', v) <= Place(fantomes', h)
        BY <1>0, <4>1, <4>2, <4>3, <4>4, WithoutOrder
      <4> QED BY <2>2, <4>2, <4>4 DEF GhostAhead
    <3>2. CASE ~RemoveGhost(p)
      BY <1>0, <2>2, <3>2, OthersStay
    <3> QED BY <3>1, <3>2
  <2> QED BY <2>1, <2>2 DEF Meets
<1>2. CASE q = p
  <2>1. thread[p].el = g /\ thread[p].pc \in {"turn", "shift", "look"}
    BY <1>2 DEF Meets
  <2>2. Turn(p) \/ Shift(p) \/ Look(p) \/ Return(p) \/ Corrupt(p)
    BY <1>0, <2>1, MovesGhost
  <2>3. fantomes' = fantomes
    BY <2>2 DEF Turn, Shift, Look, Return, Corrupt, shared
  <2>4. CASE Turn(p) \/ Shift(p)
    <3>1. p \in ToSet(joueurs)
      BY <2>1 DEF IInv, Present
    <3>2. First(joueurs) \in Joueurs
      BY <1>0, <3>1, FirstPlace
    <3> QED BY <1>0, <1>2, <2>1, <2>4, <3>2, GhostLocals DEF Meets, GhostAhead
  <2>5. CASE Look(p)
    <3> DEFINE v == thread[p].vis
    <3>1. /\ v \in InLists /\ thread[p].pc = "look"
          /\ thread'[p].el = g
          /\ \/ thread'[p].pc = "turn"
             \/ /\ ~(v # g /\ pos[v] = pos[g])
                /\ thread'[p].pc = "look" /\ thread'[p].vis = AfterIn(v)
      BY <1>0, <2>1, <2>5, GhostLocals DEF Look
    <3>2. GhostAhead(v, h, fantomes)
      BY <1>2, <3>1 DEF Meets
    <3>3. CASE thread'[p].pc = "turn"
      BY <1>2, <3>1, <3>3 DEF Meets
    <3>4. CASE /\ ~(v # g /\ pos[v] = pos[g])
               /\ thread'[p].pc = "look" /\ thread'[p].vis = AfterIn(v)
      <4>1. v # h
        BY <3>4
      <4>2. GhostAhead(AfterIn(v), h, fantomes)
        BY <1>0, <3>1, <3>2, <4>1, WalkOn
      <4> QED BY <1>2, <2>3, <3>1, <3>4, <4>2 DEF Meets
    <3> QED BY <3>1, <3>3, <3>4
  <2>6. CASE Return(p)
    <3>1. thread[p].vis = NoEl /\ thread[p].pc = "look"
      BY <2>6 DEF Return
    <3> QED BY <1>0, <1>2, <3>1 DEF Meets, GhostAhead
  <2>7. CASE Corrupt(p)
    BY <1>2, <2>3, <2>7 DEF Corrupt
  <2> QED BY <2>2, <2>4, <2>5, <2>6, <2>7
<1> QED BY <1>1, <1>2

LEMMA GhostsWatchedStep ==
  ASSUME CInv, NEW p \in Joueurs, Player(p)
  PROVE  GhostsWatched'
<1> USE DEF CInv
<1>0. /\ TypeOK /\ joueurs \in Seq(Joueurs) /\ IsInjective(joueurs)
      /\ ToSet(fantomes) \subseteq Fantomes
      /\ \A e \in Fantomes : e \in Entities /\ e \notin Joueurs
  BY PlaceFacts, HuntAssumption DEF IInv, TypeOK, Once, Entities
<1> SUFFICES ASSUME NEW g \in ToSet(fantomes') \ freed',
                    NEW h \in ToSet(fantomes') \ freed',
                    g # h, pos'[g] = pos'[h]
             PROVE  \E q \in Joueurs : \/ Meets(thread'[q], g, h, fantomes')
                                       \/ Meets(thread'[q], h, g, fantomes')
  BY DEF GhostsWatched
<1>1. /\ g \in ToSet(fantomes) \ freed /\ h \in ToSet(fantomes) \ freed
  BY Places
<1>2. CASE Shift(p) /\ thread[p].el \in {g, h}
  <2>1. p \in ToSet(joueurs)
    BY <1>2 DEF Shift, IInv, Present
  <2>2. First(joueurs) \in Joueurs
    BY <1>0, <2>1, FirstPlace
  <2>3. /\ thread'[p].el \in {g, h} /\ thread'[p].pc = "look"
        /\ thread'[p].vis \in Joueurs
    BY <1>0, <1>2, <2>2, GhostLocals
  <2> QED BY <2>3 DEF Meets, GhostAhead
<1>3. CASE ~(Shift(p) /\ thread[p].el \in {g, h})
  <2>1. pos'[g] = pos[g] /\ pos'[h] = pos[h]
    BY <1>0, <1>1, <1>3, Places
  <2>2. PICK q \in Joueurs : \/ Meets(thread[q], g, h, fantomes)
                             \/ Meets(thread[q], h, g, fantomes)
    BY <1>1, <2>1 DEF GhostsWatched
  <2> QED BY <1>1, <2>1, <2>2, MeetsStep
<1> QED BY <1>2, <1>3

-----------------------------------------------------------------------------
(* A ghost on the cell of a player.                                        *)

\* A thread on its way to the loop over the ghosts gets there, or ends a game
\* without ghosts.
LEMMA WalkingStep ==
  ASSUME TypeOK, NEW p \in Joueurs, Player(p), thread[p].pc \in Walking
  PROVE  \/ thread'[p].pc \in Walking
         \/ SweepFirst(p)
         \/ fantomes = <<>> /\ UNCHANGED fantomes
<1> USE DEF Walking, Goto, Enter, Fresh
<1>0. thread \in [Joueurs -> Locals]
  BY DEF TypeOK
<1>1. CASE Step(p) \/ LookFirst(p) \/ Credit(p) \/ Free(p) \/ RemoveGhost(p)
  BY <1>0, <1>1 DEF Step, LookFirst, Credit, Free, RemoveGhost, Locals
<1>2. CASE Search(p)
  <2>1. \/ thread' = [thread EXCEPT ![p].pc = "step", ![p].dist = @ - 1]
        \/ thread' = [thread EXCEPT ![p].pc = "credit"]
        \/ /\ thread[p].pc = "search"
           /\ thread' = [thread EXCEPT ![p].el = After(fantomes, thread[p].el)]
    BY <1>2 DEF Search
  <2> QED BY <1>0, <2>1 DEF Locals
<1>3. CASE Status(p)
  BY <1>0, <1>3 DEF Status, Locals
<1>4. CASE CountGhosts(p)
  BY <1>0, <1>4 DEF CountGhosts, shared, Locals
<1>5. CASE SweepFirst(p)
  BY <1>5
<1>6. CASE Corrupt(p)
  BY <1>6 DEF Corrupt
<1>7. \/ Step(p) \/ LookFirst(p) \/ Credit(p) \/ Free(p) \/ RemoveGhost(p)
      \/ Search(p) \/ Status(p) \/ CountGhosts(p) \/ SweepFirst(p) \/ Corrupt(p)
  BY DEF Player, Move, EndGame, Best, Compare, Announce, Sweep, Turn, Shift,
         Look, Return, SweepNext, Quit, Leave
<1> QED BY <1>1, <1>2, <1>3, <1>4, <1>5, <1>6, <1>7

\* A loop that gets to g goes on to it, or is at g.
LEMMA ReachesStep ==
  ASSUME IInv, GhostsOnce, NEW p \in Joueurs, Player(p),
         NEW g \in ToSet(fantomes), Reaches(thread[p], g, fantomes)
  PROVE  \/ Reaches(thread'[p], g, fantomes)
         \/ thread'[p].pc = "turn" /\ thread'[p].el = g
<1> DEFINE t == thread[p]
           k == Place(fantomes, t.el)
<1>0. /\ TypeOK /\ fantomes \in Seq(Fantomes) /\ IsInjective(fantomes)
      /\ thread \in [Joueurs -> Locals] /\ NoEl \notin Fantomes
  BY HuntAssumption DEF IInv, TypeOK, GhostsOnce, Entities
<1>1. /\ t.pc \in {"ghost", "turn", "shift", "look", "sweepnext"}
      /\ t.el \in ToSet(fantomes) /\ t.i < k /\ k <= Place(fantomes, g)
      /\ t.pc # "ghost" => t.el # g
  BY DEF Reaches
<1>2. k \in 1 .. Len(fantomes) /\ Len(fantomes) \in Nat /\ t.i \in Nat
  BY <1>0, <1>1, PlaceFacts, LenProperties, MyLocals
<1>3. \/ Sweep(p) \/ Turn(p) \/ Shift(p) \/ Look(p) \/ Return(p)
      \/ SweepNext(p) \/ Corrupt(p)
  BY <1>1 DEF Player, Move, Step, LookFirst, Search, Credit, Free, RemoveGhost,
     Status, CountGhosts, EndGame, Best, Compare, Announce, SweepFirst, Quit,
     Leave
<1>4. CASE Sweep(p)
  <2>1. t.i < Len(fantomes) /\ t.pc = "ghost"
    BY <1>1, <1>2, <1>4 DEF Sweep
  <2> HIDE DEF k
  <2>2. thread'[p].pc = "turn" /\ thread'[p].el = t.el /\ thread'[p].i = t.i
    BY <1>0, <1>4, <2>1 DEF Sweep, Goto, Locals
  <2>3. CASE t.el = g
    BY <2>2, <2>3
  <2>4. CASE t.el # g
    BY <1>1, <2>2, <2>4 DEF Reaches, k
  <2> QED BY <2>3, <2>4
<1>5. CASE Turn(p) \/ Shift(p) \/ Look(p) \/ Return(p)
  <2>1. t.pc \in {"turn", "shift", "look"}
    BY <1>5 DEF Turn, Shift, Look, Return
  <2>2. thread'[p].pc \in {"turn", "shift", "look", "sweepnext"}
    BY <1>0, <1>5, GhostLocals
  <2>3. ~RemoveGhost(p) /\ ~SweepFirst(p) /\ ~SweepNext(p)
    BY <2>1 DEF RemoveGhost, SweepFirst, SweepNext
  <2>4. thread'[p].el = t.el /\ thread'[p].i = t.i
    BY <1>0, <2>2, <2>3, SteadyStep DEF Sweeps
  <2> QED BY <1>1, <2>1, <2>2, <2>4 DEF Reaches
<1>6. CASE SweepNext(p)
  <2>1. /\ t.pc = "sweepnext" /\ thread'[p].pc = "ghost"
        /\ thread'[p].i = t.i + 1 /\ thread'[p].el = After(fantomes, t.el)
    BY <1>0, <1>6 DEF SweepNext, Locals
  <2>2. t.el # g
    BY <1>1, <2>1
  <2>3. /\ After(fantomes, t.el) \in ToSet(fantomes)
        /\ Place(fantomes, After(fantomes, t.el)) = k + 1
        /\ Place(fantomes, After(fantomes, t.el)) <= Place(fantomes, g)
    BY <1>0, <1>1, <2>2, AfterPlace
  <2> HIDE DEF k
  <2>4. t.i + 1 < k + 1
    BY <1>1, <1>2
  <2> QED BY <2>1, <2>3, <2>4 DEF Reaches
<1>7. CASE Corrupt(p)
  BY <1>7 DEF Corrupt
<1> QED BY <1>3, <1>4, <1>5, <1>6, <1>7

\* The thread that moves g still has the player before it.
LEMMA CatchesStep ==
  ASSUME IInv, Once, GhostsOnce, NEW p \in Joueurs, Player(p),
         NEW q \in Joueurs, NEW g \in ToSet(fantomes), NEW u \in ToSet(joueurs),
         u \in ToSet(joueurs'), pos[u] = pos[g],
         Catches(thread[q], g, u, joueurs)
  PROVE  Catches(thread'[q], g, u, joueurs')
<1>0. /\ TypeOK /\ fantomes \in Seq(Fantomes) /\ joueurs \in Seq(Joueurs)
      /\ IsInjective(joueurs) /\ IsInjective(fantomes)
      /\ u \in Joueurs /\ u # g /\ NoEl \notin Joueurs
  <2>1. /\ TypeOK /\ fantomes \in Seq(Fantomes) /\ joueurs \in Seq(Joueurs)
        /\ IsInjective(joueurs) /\ IsInjective(fantomes)
    BY DEF IInv, TypeOK, Once, GhostsOnce
  <2>2. u \in Joueurs /\ g \in Fantomes
    BY <2>1, PlaceFacts
  <2> QED BY <2>1, <2>2, HuntAssumption DEF Entities
<1>1. CASE q # p
  <2>1. thread'[q] = thread[q]
    BY <1>0, <1>1, OthersStay
  <2>2. ASSUME NEW v, PlayerAhead(v, u, joueurs)
        PROVE  PlayerAhead(v, u, joueurs')
    <3>1. CASE Leave(p)
      <4>1. p \in ToSet(joueurs) /\ joueurs' = Without(joueurs, p)
        BY <3>1 DEF Leave, IInv, Present
      <4>2. ToSet(joueurs') = ToSet(joueurs) \ {p}
        BY <1>0, <4>1, WithoutOnce
      <4>3. u # p
        BY <4>2
      <4>4. ASSUME v \in ToSet(joueurs'), Place(joueurs, v) <= Place(joueurs, u)
            PROVE  Place(joueurs', v) <= Place(joueurs', u)
        BY <1>0, <4>1, <4>2, <4>3, <4>4, WithoutOrder
      <4> QED BY <2>2, <4>2, <4>4 DEF PlayerAhead
    <3>2. CASE ~Leave(p)
      BY <2>2, <3>2, Places
    <3> QED BY <3>1, <3>2
  <2> QED BY <2>1, <2>2 DEF Catches
<1>2. CASE q = p
  <2>1. thread[p].el = g /\ thread[p].pc \in {"turn", "shift", "look"}
    BY <1>2 DEF Catches
  <2>2. Turn(p) \/ Shift(p) \/ Look(p) \/ Return(p) \/ Corrupt(p)
    BY <1>0, <2>1, MovesGhost
  <2>3. joueurs' = joueurs
    BY <2>2 DEF Turn, Shift, Look, Return, Corrupt, shared
  <2>4. CASE Turn(p) \/ Shift(p)
    <3>1. First(joueurs) \in Joueurs /\ Place(joueurs, First(joueurs)) <= Place(joueurs, u)
      BY <1>0, FirstPlace
    <3>2. PlayerAhead(First(joueurs), u, joueurs')
      BY <2>3, <3>1 DEF PlayerAhead
    <3> QED BY <1>0, <1>2, <2>1, <2>4, <3>2, GhostLocals DEF Catches
  <2>5. CASE Look(p)
    <3> DEFINE v == thread[p].vis
    <3>1. /\ v \in InLists /\ thread[p].pc = "look"
          /\ thread'[p].el = g
          /\ \/ thread'[p].pc = "turn"
             \/ /\ ~(v # g /\ pos[v] = pos[g])
                /\ thread'[p].pc = "look" /\ thread'[p].vis = AfterIn(v)
      BY <1>0, <2>1, <2>5, GhostLocals DEF Look
    <3>2. PlayerAhead(v, u, joueurs)
      BY <1>2, <3>1 DEF Catches
    <3>3. CASE thread'[p].pc = "turn"
      BY <1>2, <3>1, <3>3 DEF Catches
    <3>4. CASE /\ ~(v # g /\ pos[v] = pos[g])
               /\ thread'[p].pc = "look" /\ thread'[p].vis = AfterIn(v)
      <4>1. v # u
        BY <1>0, <3>4
      <4>2. PlayerAhead(AfterIn(v), u, joueurs)
        BY <1>0, <3>1, <3>2, <4>1, WalkOn
      <4> QED BY <1>2, <2>3, <3>1, <3>4, <4>2 DEF Catches
    <3> QED BY <3>1, <3>3, <3>4
  <2>6. CASE Return(p)
    <3>1. thread[p].vis = NoEl /\ thread[p].pc = "look"
      BY <2>6 DEF Return
    <3> QED BY <1>0, <1>2, <3>1 DEF Catches, PlayerAhead
  <2>7. CASE Corrupt(p)
    BY <1>2, <2>3, <2>7 DEF Corrupt
  <2> QED BY <2>2, <2>4, <2>5, <2>6, <2>7
<1> QED BY <1>1, <1>2

LEMMA PlayersWatchedStep ==
  ASSUME CInv, NEW p \in Joueurs, Player(p)
  PROVE  PlayersWatched'
<1> USE DEF CInv
<1>0. /\ TypeOK /\ joueurs \in Seq(Joueurs) /\ IsInjective(joueurs)
      /\ thread \in [Joueurs -> Locals] /\ fantomes \in Seq(Fantomes)
      /\ IsInjective(fantomes) /\ ToSet(joueurs) \subseteq Joueurs
      /\ ToSet(fantomes) \subseteq Fantomes
      /\ \A e \in Fantomes : e \in Entities /\ e \notin Joueurs
      /\ \A e \in Joueurs : e \in Entities
  BY PlaceFacts, HuntAssumption DEF IInv, TypeOK, Once, GhostsOnce, Entities
<1> SUFFICES ASSUME NEW u \in ToSet(joueurs'),
                    NEW g \in ToSet(fantomes') \ freed', pos'[u] = pos'[g]
             PROVE  \E q \in Joueurs : \/ thread'[q].pc \in Walking
                                       \/ Reaches(thread'[q], g, fantomes')
                                       \/ Catches(thread'[q], g, u, joueurs')
  BY DEF PlayersWatched
<1>1. g \in ToSet(fantomes) \ freed
  BY Places
<1>2. u \in ToSet(joueurs)
  <2>1. CASE Leave(p)
    <3>1. p \in ToSet(joueurs) /\ joueurs' = Without(joueurs, p)
      BY <2>1 DEF Leave, IInv, Present
    <3> QED BY <1>0, <3>1, WithoutOnce
  <2>2. CASE ~Leave(p)
    BY <2>2, Places
  <2> QED BY <2>1, <2>2
<1>3. CASE thread'[p].pc \in Walking
  BY <1>3
<1>4. CASE Shift(p) /\ thread[p].el = g
  <2>1. /\ thread'[p].el = g /\ thread'[p].pc = "look"
        /\ thread'[p].vis = First(joueurs) /\ joueurs' = joueurs
    BY <1>0, <1>4, GhostLocals DEF Shift
  <2>2. First(joueurs) \in Joueurs /\ Place(joueurs, First(joueurs)) <= Place(joueurs, u)
    BY <1>0, <1>2, FirstPlace
  <2> QED BY <2>1, <2>2 DEF Catches, PlayerAhead
<1>5. CASE thread'[p].pc \notin Walking /\ ~(Shift(p) /\ thread[p].el = g)
  <2>1. ~Step(p) /\ ~RemoveGhost(p) /\ ~Free(p)
    BY <1>0, <1>5 DEF Step, RemoveGhost, Free, Goto, Enter, Fresh, Locals, Walking
  <2>2. /\ fantomes' = fantomes
        /\ \A q \in Joueurs : q # p => thread'[q] = thread[q]
    BY <1>0, <2>1, OthersStay
  <2>3. pos'[u] = pos[u] /\ pos'[g] = pos[g]
    <3>1. CASE Shift(p)
      <4>1. thread[p].el \in Fantomes /\ thread[p].el # g
        BY <1>5, <3>1 DEF Shift, IInv, ThreadsKnow, Knows
      <4>2. u # thread[p].el
        BY <1>0, <1>2, <4>1
      <4> QED BY <1>0, <1>1, <1>2, <2>1, <3>1, <4>1, <4>2, Places
    <3>2. CASE ~Shift(p)
      BY <2>1, <3>2, Places
    <3> QED BY <3>1, <3>2
  <2>4. PICK q \in Joueurs : \/ thread[q].pc \in Walking
                             \/ Reaches(thread[q], g, fantomes)
                             \/ Catches(thread[q], g, u, joueurs)
    BY <1>1, <1>2, <2>3 DEF PlayersWatched
  <2>5. CASE Catches(thread[q], g, u, joueurs)
    BY <1>1, <1>2, <2>3, <2>5, CatchesStep
  <2>6. CASE q # p /\ (thread[q].pc \in Walking \/ Reaches(thread[q], g, fantomes))
    BY <2>2, <2>6
  <2>7. CASE q = p /\ thread[q].pc \in Walking
    <3>1. CASE SweepFirst(p)
      <4>1. /\ thread'[p].pc = "ghost" /\ thread'[p].i = 0
            /\ thread'[p].el = First(fantomes)
        BY <1>0, <3>1 DEF SweepFirst, Locals
      <4>2. /\ First(fantomes) \in ToSet(fantomes)
            /\ Place(fantomes, First(fantomes)) = 1 /\ 1 <= Place(fantomes, g)
        BY <1>0, <1>1, FirstPlace
      <4> QED BY <2>2, <4>1, <4>2 DEF Reaches
    <3>2. CASE ~SweepFirst(p)
      <4>1. fantomes = <<>>
        BY <1>0, <1>5, <2>7, <3>2, WalkingStep
      <4> QED BY <1>1, <4>1 DEF ToSet
    <3> QED BY <3>1, <3>2
  <2>8. CASE q = p /\ Reaches(thread[q], g, fantomes)
    <3>1. CASE Reaches(thread'[p], g, fantomes)
      BY <2>2, <3>1
    <3>2. CASE thread'[p].pc = "turn" /\ thread'[p].el = g
      BY <3>2 DEF Catches
    <3> QED BY <1>1, <2>8, <3>1, <3>2, ReachesStep
  <2> QED BY <2>4, <2>5, <2>6, <2>7, <2>8
<1> QED BY <1>3, <1>4, <1>5

-----------------------------------------------------------------------------
(* The theorems.                                                           *)

\* The invariant: whoever has put two entities on one cell is still at work.
THEOREM CellsInvariance == Spec => []CInv
<1>1. Init => CInv
  <2> SUFFICES ASSUME Init PROVE CInv
    OBVIOUS
  <2>1. IInv /\ Once /\ GhostsOnce /\ FreedLeaves
    BY InitInvariant, HuntAssumption DEF Init, Once, GhostsOnce, FreedLeaves
  <2>2. \A e, f \in Entities : pos[e] = pos[f] => e = f
    BY DEF Init, IsInjective
  <2>3. /\ ToSet(joueurs) \subseteq Joueurs /\ ToSet(fantomes) \subseteq Fantomes
        /\ Joueurs \cap Fantomes = {}
    BY <2>1, PlaceFacts, HuntAssumption DEF IInv, TypeOK
  <2>4. GhostsWatched
    BY <2>2, <2>3 DEF GhostsWatched, Entities
  <2>5. PlayersWatched
    BY <2>2, <2>3 DEF PlayersWatched, Entities
  <2> QED BY <2>1, <2>4, <2>5 DEF CInv
<1>2. CInv /\ [Next]_vars => CInv'
  <2> SUFFICES ASSUME CInv, [Next]_vars PROVE CInv'
    OBVIOUS
  <2> USE DEF CInv
  <2>1. ASSUME NEW p \in Joueurs, Player(p) PROVE CInv'
    <3>1. IInv' /\ GhostsOnce'
      BY <2>1, StepsKeep
    <3>2. Once'
      BY <2>1, LeaveStep, Places DEF Once
    <3>3. FreedLeaves' /\ GhostsWatched' /\ PlayersWatched'
      BY <2>1, FreedStep, GhostsWatchedStep, PlayersWatchedStep
    <3> QED BY <3>1, <3>2, <3>3
  <2>2. CASE UNCHANGED vars
    <3>1. IInv'
      BY <2>2, StutterStep
    <3> QED BY <2>2, <3>1 DEF vars, shared, Once, GhostsOnce, FreedLeaves,
               GhostsWatched, PlayersWatched
  <2> QED BY <2>1, <2>2 DEF Next
<1> QED BY <1>1, <1>2, PTL DEF Spec

\* "1 fantome par case au plus" (check_ghost): between two requests no two
\* ghosts are on one cell, for any number of players whose threads have moved
\* the same ghosts at the same time.
THEOREM OneGhostPerCellHolds == Spec => []OneGhostPerCell
<1>1. CInv => OneGhostPerCell
  <2> SUFFICES ASSUME CInv, AtRest, NEW g \in ToSet(fantomes),
                      NEW h \in ToSet(fantomes), g # h, pos[g] = pos[h]
               PROVE  FALSE
    BY DEF OneGhostPerCell
  <2>1. g \notin freed /\ h \notin freed
    BY DEF CInv, FreedLeaves, AtRest
  <2> QED BY <2>1 DEF CInv, GhostsWatched, Meets, AtRest
<1> QED BY <1>1, CellsInvariance, PTL

\* Nor is a ghost on the cell of a player that is still in the game: it would
\* have been caught (check_ghost), or have moved on (no_collision).
THEOREM NoGhostUnderfootHolds == Spec => []NoGhostUnderfoot
<1>1. CInv => NoGhostUnderfoot
  <2> SUFFICES ASSUME CInv, AtRest, NEW g \in ToSet(fantomes),
                      NEW u \in ToSet(joueurs), pos[g] = pos[u]
               PROVE  FALSE
    BY DEF NoGhostUnderfoot
  <2>1. g \notin freed
    BY DEF CInv, FreedLeaves, AtRest
  <2> QED BY <2>1 DEF CInv, PlayersWatched, Walking, Reaches, Catches, AtRest
<1> QED BY <1>1, CellsInvariance, PTL

-----------------------------------------------------------------------------
(* The ghosts and the walls.  ghost_move tests the next cell and takes the *)
(* lock after that: a thread that moves the same ghost in between can move *)
(* it past the test, and into a wall.  It is the only way to get there.    *)

\* No two threads are between the test and the move with the same ghost.
OneShift ==
    \A p, q \in {r \in Joueurs : thread[r].pc = "shift"} :
        thread[p].el = thread[q].el => p = q

\* Then the cell that was tested is the one the ghost will be on.
ShiftsFree ==
    \A p \in Joueurs :
        thread[p].pc = "shift" /\ thread[p].el \notin freed
           => Plus(pos[thread[p].el], thread[p].dir) \in Sol

GInv == IInv /\ GhostsOnce /\ GhostsOnFloor /\ ShiftsFree

\* Only the test leads to the move.
LEMMA ShiftFrom ==
  ASSUME TypeOK, NEW p \in Joueurs, Player(p), thread'[p].pc = "shift"
  PROVE  \/ thread'[p] = thread[p] /\ UNCHANGED pos
         \/ /\ Turn(p) /\ thread'[p].el = thread[p].el
            /\ ~Blocked(pos[thread[p].el], thread'[p].dir)
<1>0. thread \in [Joueurs -> Locals]
  BY DEF TypeOK
<1>1. CASE Turn(p)
  <2>1. PICK d \in Directions :
           IF Blocked(pos[thread[p].el], d)
             THEN NoCollision(p)
             ELSE thread' = [thread EXCEPT ![p].pc = "shift", ![p].dir = d]
    BY <1>1 DEF Turn
  <2>2. CASE Blocked(pos[thread[p].el], d)
    BY <1>0, <2>1, <2>2 DEF NoCollision, Locals
  <2>3. CASE ~Blocked(pos[thread[p].el], d)
    BY <1>0, <1>1, <2>1, <2>3 DEF Locals
  <2> QED BY <2>2, <2>3
<1>2. CASE Sweep(p) \/ Shift(p) \/ SweepFirst(p) \/ SweepNext(p)
  BY <1>0, <1>2 DEF Sweep, Shift, SweepFirst, SweepNext, Goto, Enter, Fresh,
                    NoCollision, Locals
<1>3. CASE Look(p) \/ Return(p)
  BY <1>0, <1>3, GhostLocals
<1>4. CASE Corrupt(p)
  BY <1>4 DEF Corrupt
<1>5. CASE ~Turn(p) /\ ~Sweep(p) /\ ~Shift(p) /\ ~Look(p) /\ ~Return(p)
           /\ ~SweepFirst(p) /\ ~SweepNext(p) /\ ~Corrupt(p)
  <2>1. CASE RemoveGhost(p)
    BY <1>0, <2>1 DEF RemoveGhost, Locals
  <2>2. CASE ~RemoveGhost(p)
    <3>1. \/ thread'[p] = thread[p]
          \/ thread[p].pc \in Sweeps
      BY <1>5, <2>2, SteadyStep DEF Sweeps
    <3>2. thread[p].pc \notin Sweeps
      BY <1>5, <2>2
      DEF Player, Move, Step, LookFirst, Search, Credit, Free, Status,
          CountGhosts, EndGame, Best, Compare, Announce, Quit, Leave, Sweeps
    <3> QED BY <3>1, <3>2 DEF Sweeps
  <2> QED BY <2>1, <2>2
<1> QED BY <1>1, <1>2, <1>3, <1>4, <1>5

LEMMA FloorStep ==
  ASSUME GInv, OneShift, NEW p \in Joueurs, Player(p)
  PROVE  GhostsOnFloor' /\ ShiftsFree'
<1> USE DEF GInv
<1>0. /\ TypeOK /\ thread \in [Joueurs -> Locals] /\ pos \in [Entities -> Int \X Int]
      /\ ToSet(fantomes) \subseteq Fantomes
      /\ \A e \in Fantomes : e \in Entities /\ e \notin Joueurs
      /\ freed \subseteq freed' /\ ToSet(fantomes') \subseteq ToSet(fantomes)
      /\ \A q \in Joueurs : q # p => thread'[q] = thread[q]
  BY PlaceFacts, HuntAssumption, Places, OthersStay DEF IInv, TypeOK, Entities
<1>1. \A q \in Joueurs : thread[q].pc = "shift" => thread[q].el \in Fantomes
  BY DEF IInv, ThreadsKnow, Knows
<1>2. ASSUME NEW g \in Fantomes \ freed', ~(Shift(p) /\ thread[p].el = g)
      PROVE  pos'[g] = pos[g]
  BY <1>0, <1>2, Places
<1>3. ASSUME Shift(p)
      PROVE  /\ thread[p].pc = "shift" /\ thread[p].el \notin freed
             /\ thread'[p].pc = "look"
             /\ pos'[thread[p].el] = Plus(pos[thread[p].el], thread[p].dir)
  BY <1>0, <1>1, <1>3, GhostLocals DEF Shift
<1>4. ASSUME NEW g \in ToSet(fantomes') \ freed'
      PROVE  pos'[g] \in Sol
  <2>1. CASE Shift(p) /\ thread[p].el = g
    BY <1>3, <2>1 DEF ShiftsFree
  <2>2. CASE ~(Shift(p) /\ thread[p].el = g)
    BY <1>0, <1>2, <1>4, <2>2 DEF GhostsOnFloor
  <2> QED BY <2>1, <2>2
<1>5. ASSUME NEW q \in Joueurs, thread'[q].pc = "shift", thread'[q].el \notin freed'
      PROVE  Plus(pos'[thread'[q].el], thread'[q].dir) \in Sol
  <2>1. CASE q = p
    <3>1. ~Shift(p)
      BY <1>3, <1>5, <2>1
    <3>2. CASE thread'[p] = thread[p] /\ UNCHANGED pos
      BY <1>0, <1>5, <2>1, <3>2 DEF ShiftsFree
    <3>3. CASE /\ Turn(p) /\ thread'[p].el = thread[p].el
               /\ ~Blocked(pos[thread[p].el], thread'[p].dir)
      BY <2>1, <3>3 DEF Turn, shared, Blocked
    <3> QED BY <1>0, <1>5, <2>1, <3>2, <3>3, ShiftFrom
  <2>2. CASE q # p
    <3>1. thread'[q] = thread[q]
      BY <1>0, <2>2
    <3>2. ~(Shift(p) /\ thread[p].el = thread[q].el)
      BY <1>3, <1>5, <2>2, <3>1 DEF OneShift
    <3>3. pos'[thread[q].el] = pos[thread[q].el]
      BY <1>1, <1>2, <1>5, <3>1, <3>2
    <3> QED BY <1>0, <1>5, <3>1, <3>3 DEF ShiftsFree
  <2> QED BY <2>1, <2>2
<1> QED BY <1>4, <1>5 DEF GhostsOnFloor, ShiftsFree

\* No ghost is moved into a wall or out of the map (ghost_move) as long as no
\* two threads are between the test of a cell and the move of the same ghost.
THEOREM GhostsOnFloorHolds == Spec /\ []OneShift => []GhostsOnFloor
<1>1. Init => GInv
  <2> SUFFICES ASSUME Init PROVE GInv
    OBVIOUS
  <2>1. IInv /\ GhostsOnce
    BY InitInvariant, HuntAssumption DEF Init, GhostsOnce
  <2>2. ToSet(fantomes) \subseteq Entities
    BY <2>1, PlaceFacts DEF IInv, TypeOK, Entities
  <2>3. GhostsOnFloor
    BY <2>2 DEF Init, GhostsOnFloor
  <2>4. ShiftsFree
    BY DEF Init, Fresh, ShiftsFree
  <2> QED BY <2>1, <2>3, <2>4 DEF GInv
<1>2. GInv /\ OneShift /\ [Next]_vars => GInv'
  <2> SUFFICES ASSUME GInv, OneShift, [Next]_vars PROVE GInv'
    OBVIOUS
  <2>1. ASSUME NEW p \in Joueurs, Player(p) PROVE GInv'
    <3>1. IInv' /\ GhostsOnce'
      BY <2>1, StepsKeep DEF GInv
    <3> QED BY <2>1, <3>1, FloorStep DEF GInv
  <2>2. CASE UNCHANGED vars
    <3>1. IInv'
      BY <2>2, StutterStep DEF GInv
    <3> QED BY <2>2, <3>1 DEF vars, shared, GInv, GhostsOnce, GhostsOnFloor,
               ShiftsFree
  <2> QED BY <2>1, <2>2 DEF Next
<1>3. GInv => GhostsOnFloor
  BY DEF GInv
<1> QED BY <1>1, <1>2, <1>3, PTL DEF Spec

\* So it is when only one player sends moves.
THEOREM GhostsOnFloorAlone ==
  ASSUME \A p, q \in Movers : p = q
  PROVE  Spec => []GhostsOnFloor
<1>1. IInv /\ Idle => OneShift
  BY DEF Idle, OneShift
<1> QED BY <1>1, IdleHolds, GhostsOnFloorHolds, PTL
=============================================================================
