---------------------------- MODULE HuntProofs ----------------------------
(***************************************************************************)
(* Proofs that TLAPS checks about Hunt: for any map, any number of players *)
(* and ghosts, and any bound on a move and on the nested calls of          *)
(* ghost_move, no player ever stands in a wall, no score changes once the  *)
(* game is over, the loop over the ghosts stays in their list, and the     *)
(* hunt is a game as Partie describes it.                                  *)
(***************************************************************************)
EXTENDS Hunt, Inductions, SequenceTheorems, TLAPS

(* The second needs that a capture cannot outlive the game.  The game ends *)
(* when the list of the ghosts is empty; every ghost that is not on the    *)
(* list was freed, so a thread that still holds one and is about to be     *)
(* credited with it reads freed memory instead (and the model stops).      *)

\* A ghost leaves the list only after it was freed.
ListedOrFreed == Fantomes \subseteq ToSet(fantomes) \cup freed

\* The game is over only when the list of the ghosts is empty.
OverWhenCaught == encours = 2 => fantomes = <<>>

\* A thread that has not returned from quit_game is that of a listed player.
Present == \A p \in Joueurs : thread[p].pc # "gone" => p \in ToSet(joueurs)

\* What a thread with the locals t relies upon at its location, of the list of
\* the ghosts and of those that were freed.
Knows(t, list, gone) ==
    /\ t.pc \in {"first", "search", "credit", "free", "remove"} => t.dist >= 1
    /\ t.pc \in {"search", "ghost"} => t.el \in Fantomes \cup {NoEl}
    /\ t.pc \in {"credit", "free", "remove", "turn", "shift", "look", "sweepnext"}
         => t.el \in Fantomes
    /\ t.pc = "remove" => t.el \in gone
    /\ t.pc = "over" => list = <<>>

ThreadsKnow == \A p \in Joueurs : Knows(thread[p], fantomes, freed)

IInv == /\ TypeOK /\ ListedOrFreed /\ OverWhenCaught /\ Present
        /\ ThreadsKnow /\ PlayersOnFloor

-----------------------------------------------------------------------------
(* The lists.                                                              *)

LEMMA PlaceFacts ==
  ASSUME NEW S, NEW s \in Seq(S), NEW e \in ToSet(s)
  PROVE  /\ Place(s, e) \in 1 .. Len(s) /\ s[Place(s, e)] = e
         /\ e \in S
<1>1. PICK k \in 1 .. Len(s) : s[k] = e
  BY LenProperties DEF ToSet
<1>2. s[k] \in S
  BY ElementOfSeq
<1>3. \E j \in DOMAIN s : s[j] = e
  BY <1>1, LenProperties
<1>4. Place(s, e) \in DOMAIN s /\ s[Place(s, e)] = e
  BY <1>3 DEF Place
<1> QED BY <1>1, <1>2, <1>4, LenProperties

LEMMA FirstFacts ==
  ASSUME NEW S, NEW s \in Seq(S)
  PROVE  First(s) \in S \cup {NoEl}
  BY EmptySeq, LenProperties, ElementOfSeq DEF First

LEMMA AfterFacts ==
  ASSUME NEW S, NEW s \in Seq(S), NEW e \in ToSet(s)
  PROVE  After(s, e) \in S \cup {NoEl}
<1>1. Place(s, e) \in 1 .. Len(s) /\ Len(s) \in Nat
  BY PlaceFacts, LenProperties
<1>2. CASE Place(s, e) = Len(s)
  BY <1>2 DEF After
<1>3. CASE Place(s, e) # Len(s)
  <2>1. Place(s, e) + 1 \in 1 .. Len(s)
    BY <1>1, <1>3
  <2>2. s[Place(s, e) + 1] \in S
    BY <2>1, ElementOfSeq
  <2> QED BY <1>3, <2>2 DEF After
<1> QED BY <1>2, <1>3

\* removeEl closes the gap that an element leaves.
LEMMA WithoutElements ==
  ASSUME NEW S, NEW s \in Seq(S), NEW e \in ToSet(s)
  PROVE  LET k == Place(s, e)
             w == Without(s, e)
         IN  /\ k \in 1 .. Len(s) /\ s[k] = e
             /\ Len(s) \in Nat /\ w \in Seq(S) /\ Len(w) = Len(s) - 1
             /\ \A i \in 1 .. Len(s) - 1 : w[i] = s[IF i < k THEN i ELSE i + 1]
<1> DEFINE k == Place(s, e)
           a == SubSeq(s, 1, k - 1)
           b == SubSeq(s, k + 1, Len(s))
<1>1. k \in 1 .. Len(s) /\ s[k] = e /\ Len(s) \in Nat
  BY PlaceFacts, LenProperties
<1> HIDE DEF k
<1>2. /\ a \in Seq(S) /\ Len(a) = k - 1
      /\ \A i \in 1 .. k - 1 : a[i] = s[i]
  <2>1. \A i \in 1 .. k - 1 : s[i] \in S
    BY <1>1, ElementOfSeq
  <2> QED BY <1>1, <2>1, SubSeqProperties
<1>3. /\ b \in Seq(S) /\ Len(b) = Len(s) - k
      /\ \A i \in 1 .. Len(s) - k : b[i] = s[k + i]
  <2>1. \A i \in k + 1 .. Len(s) : s[i] \in S
    BY <1>1, ElementOfSeq
  <2> QED BY <1>1, <2>1, SubSeqProperties
<1>4. Without(s, e) = a \o b
  BY DEF Without, RemoveAt, k
<1> HIDE DEF a, b
<1>5. /\ a \o b \in Seq(S) /\ Len(a \o b) = Len(s) - 1
      /\ \A i \in 1 .. Len(s) - 1 :
            (a \o b)[i] = IF i <= k - 1 THEN a[i] ELSE b[i - (k - 1)]
  <2>1. Len(a) + Len(b) = Len(s) - 1
    BY <1>1, <1>2, <1>3
  <2> QED BY <1>2, <1>3, <2>1, ConcatProperties
<1>6. ASSUME NEW i \in 1 .. Len(s) - 1
      PROVE  (a \o b)[i] = s[IF i < k THEN i ELSE i + 1]
  <2>1. CASE i < k
    <3>1. i <= k - 1 /\ i \in 1 .. k - 1
      BY <1>1, <2>1
    <3> QED BY <1>2, <1>5, <2>1, <3>1
  <2>2. CASE ~(i < k)
    <3>1. /\ ~(i <= k - 1) /\ i - (k - 1) \in 1 .. Len(s) - k
          /\ k + (i - (k - 1)) = i + 1
      BY <1>1, <2>2
    <3>2. (a \o b)[i] = b[i - (k - 1)]
      BY <1>5, <3>1
    <3>3. b[i - (k - 1)] = s[k + (i - (k - 1))]
      BY <1>3, <3>1
    <3> QED BY <2>2, <3>1, <3>2, <3>3
  <2> QED BY <2>1, <2>2
<1> QED BY <1>1, <1>4, <1>5, <1>6 DEF k

\* removeEl takes one element out and keeps the others.
LEMMA WithoutFacts ==
  ASSUME NEW S, NEW s \in Seq(S), NEW e \in ToSet(s)
  PROVE  /\ Without(s, e) \in Seq(S)
         /\ Len(Without(s, e)) = Len(s) - 1
         /\ \A f \in ToSet(s) : f # e => f \in ToSet(Without(s, e))
<1> DEFINE k == Place(s, e)
           w == Without(s, e)
<1>1. /\ k \in 1 .. Len(s) /\ s[k] = e
      /\ Len(s) \in Nat /\ w \in Seq(S) /\ Len(w) = Len(s) - 1
      /\ \A i \in 1 .. Len(s) - 1 : w[i] = s[IF i < k THEN i ELSE i + 1]
  BY WithoutElements
<1> HIDE DEF k, w
<1>2. ASSUME NEW f \in ToSet(s), f # e
      PROVE  f \in ToSet(w)
  <2>1. PICK j \in 1 .. Len(s) : s[j] = f
    BY LenProperties DEF ToSet
  <2>2. j # k
    BY <1>1, <1>2, <2>1
  <2>3. \E i \in 1 .. Len(s) - 1 : w[i] = f
    <3>1. CASE j < k
      <4>1. j \in 1 .. Len(s) - 1
        BY <1>1, <3>1
      <4> QED BY <1>1, <2>1, <3>1, <4>1
    <3>2. CASE j > k
      <4>1. j - 1 \in 1 .. Len(s) - 1 /\ ~(j - 1 < k) /\ (j - 1) + 1 = j
        BY <1>1, <3>2
      <4> QED BY <1>1, <2>1, <4>1
    <3>3. j < k \/ j > k
      BY <1>1, <2>2
    <3> QED BY <3>1, <3>2, <3>3
  <2>4. DOMAIN w = 1 .. Len(s) - 1
    BY <1>1, LenProperties
  <2> QED BY <2>3, <2>4 DEF ToSet
<1> QED BY <1>1, <1>2 DEF w

\* In a list that holds every element once, nothing else disappears and the
\* element does not come back.
LEMMA WithoutOnce ==
  ASSUME NEW S, NEW s \in Seq(S), NEW e \in ToSet(s), IsInjective(s)
  PROVE  /\ IsInjective(Without(s, e))
         /\ ToSet(Without(s, e)) = ToSet(s) \ {e}
<1> DEFINE k == Place(s, e)
           w == Without(s, e)
           Old(i) == IF i < k THEN i ELSE i + 1
<1>1. /\ k \in 1 .. Len(s) /\ s[k] = e
      /\ Len(s) \in Nat /\ w \in Seq(S) /\ Len(w) = Len(s) - 1
      /\ \A i \in 1 .. Len(s) - 1 : w[i] = s[Old(i)]
  BY WithoutElements
<1>2. \A f \in ToSet(s) : f # e => f \in ToSet(w)
  BY WithoutFacts
<1> HIDE DEF k, w
<1>3. DOMAIN s = 1 .. Len(s) /\ DOMAIN w = 1 .. Len(s) - 1
  BY <1>1, LenProperties
<1>4. \A i \in 1 .. Len(s) - 1 : Old(i) \in 1 .. Len(s) /\ Old(i) # k
  BY <1>1
<1>5. \A i, j \in 1 .. Len(s) - 1 : Old(i) = Old(j) => i = j
  BY <1>1
<1> HIDE DEF Old
<1>6. \A i, j \in 1 .. Len(s) : s[i] = s[j] => i = j
  BY <1>3 DEF IsInjective
<1>7. IsInjective(w)
  <2> SUFFICES ASSUME NEW i \in 1 .. Len(s) - 1, NEW j \in 1 .. Len(s) - 1,
                      w[i] = w[j]
               PROVE  i = j
    BY <1>3 DEF IsInjective
  <2> QED BY <1>1, <1>4, <1>5, <1>6
<1>8. ASSUME NEW f \in ToSet(w)
      PROVE  f \in ToSet(s) \ {e}
  <2>1. PICK i \in 1 .. Len(s) - 1 : w[i] = f
    BY <1>3 DEF ToSet
  <2>2. f = s[Old(i)] /\ Old(i) \in DOMAIN s
    BY <1>1, <1>3, <1>4, <2>1
  <2>3. f # e
    BY <1>1, <1>4, <1>6, <2>2, <1>3
  <2> QED BY <2>2, <2>3 DEF ToSet
<1> QED BY <1>2, <1>7, <1>8 DEF w

\* There an element has one place only, ...
LEMMA PlaceIs ==
  ASSUME NEW S, NEW s \in Seq(S), IsInjective(s), NEW k \in 1 .. Len(s)
  PROVE  s[k] \in ToSet(s) /\ Place(s, s[k]) = k
<1>1. DOMAIN s = 1 .. Len(s)
  BY LenProperties
<1>2. s[k] \in ToSet(s)
  BY <1>1 DEF ToSet
<1>3. Place(s, s[k]) \in 1 .. Len(s) /\ s[Place(s, s[k])] = s[k]
  BY <1>2, PlaceFacts
<1> QED BY <1>1, <1>2, <1>3 DEF IsInjective

\* ... which only moves to the front when another one is removed.
LEMMA WithoutPlace ==
  ASSUME NEW S, NEW s \in Seq(S), IsInjective(s),
         NEW e \in ToSet(s), NEW f \in ToSet(s), f # e
  PROVE  Place(Without(s, e), f) <= Place(s, f)
<1> DEFINE k == Place(s, e)
           j == Place(s, f)
           w == Without(s, e)
<1>1. /\ k \in 1 .. Len(s) /\ s[k] = e
      /\ Len(s) \in Nat /\ w \in Seq(S) /\ Len(w) = Len(s) - 1
      /\ \A i \in 1 .. Len(s) - 1 : w[i] = s[IF i < k THEN i ELSE i + 1]
  BY WithoutElements
<1>2. j \in 1 .. Len(s) /\ s[j] = f
  BY PlaceFacts
<1>3. IsInjective(w)
  BY WithoutOnce
<1> HIDE DEF k, j, w
<1>4. \E i \in 1 .. Len(w) : i <= j /\ w[i] = f
  <2>1. CASE j < k
    <3>1. j \in 1 .. Len(s) - 1
      BY <1>1, <1>2, <2>1
    <3>2. w[j] = f
      BY <1>1, <1>2, <2>1, <3>1
    <3> QED BY <1>1, <1>2, <3>1, <3>2
  <2>2. CASE j > k
    <3>1. j - 1 \in 1 .. Len(s) - 1 /\ ~(j - 1 < k) /\ (j - 1) + 1 = j /\ j - 1 <= j
      BY <1>1, <1>2, <2>2
    <3>2. w[j - 1] = f
      BY <1>1, <1>2, <3>1
    <3> QED BY <1>1, <3>1, <3>2
  <2>3. j # k
    BY <1>1, <1>2
  <2> QED BY <1>1, <1>2, <2>1, <2>2, <2>3
<1>5. PICK i \in 1 .. Len(w) : i <= j /\ w[i] = f
  BY <1>4
<1>6. Place(w, f) = i
  BY <1>1, <1>3, <1>5, PlaceIs
<1> QED BY <1>5, <1>6 DEF j, w

\* The points of a ghost are a number.
LEMMA PointsNat ==
  ASSUME NEW g \in Fantomes
  PROVE  Points(g) \in Nat
<1>1. Place(FantomeList, g) \in 1 .. Len(FantomeList) /\ Len(FantomeList) \in Nat
  BY HuntAssumption, PlaceFacts, LenProperties DEF Fantomes
<1>2. ASSUME NEW k \in Nat
      PROVE  15 * ((k % 4) + 1) \in Nat
  <2>1. k % 4 \in 0 .. 3
    OBVIOUS
  <2> QED BY <2>1
<1>3. CASE Place(FantomeList, g) = 1
  BY <1>3 DEF Points
<1>4. CASE Place(FantomeList, g) # 1
  <2>1. Place(FantomeList, g) - 2 \in Nat
    BY <1>1, <1>4
  <2> QED BY <1>2, <1>4, <2>1 DEF Points
<1> QED BY <1>3, <1>4

-----------------------------------------------------------------------------
(* The locals of a thread.                                                 *)

LEMMA MyLocals ==
  ASSUME TypeOK, NEW p \in Joueurs
  PROVE  /\ thread[p] \in Locals
         /\ thread[p].pc \in Locations /\ thread[p].dir \in Directions
         /\ thread[p].dist \in 0 .. MaxDistance
         /\ thread[p].el \in Entities \cup {NoEl}
         /\ thread[p].vis \in Entities \cup {NoEl}
         /\ thread[p].i \in Nat /\ thread[p].calls \in Seq(Entities)
  BY DEF TypeOK, Locals

LEMMA FreshLocals ==
  ASSUME NEW l \in Locations
  PROVE  Fresh(l) \in Locals /\ Fresh(l).pc = l
<1>1. /\ North \in Directions /\ 0 \in 0 .. MaxDistance
      /\ <<>> \in Seq(Entities)
  BY HuntAssumption, EmptySeq DEF North, Directions
<1> QED BY <1>1 DEF Fresh, Locals

\* A step of p that changes nothing but its locals preserves the invariant if
\* the new ones hold what the thread relies upon at its new location.
LEMMA LocalStep ==
  ASSUME IInv, NEW p \in Joueurs, thread[p].pc # "gone",
         NEW u \in Locals, Knows(u, fantomes, freed),
         thread' = [thread EXCEPT ![p] = u], UNCHANGED shared
  PROVE  IInv'
<1> USE DEF IInv, shared
<1>1. TypeOK'
  BY DEF TypeOK
<1>2. ListedOrFreed' /\ OverWhenCaught' /\ PlayersOnFloor'
  BY DEF ListedOrFreed, OverWhenCaught, PlayersOnFloor
<1>3. Present'
  BY DEF Present, TypeOK
<1>4. ThreadsKnow'
  BY DEF ThreadsKnow, Knows, TypeOK
<1> QED BY <1>1, <1>2, <1>3, <1>4

\* What the other threads rely upon is not disturbed when ghosts are freed or
\* leave the list.
LEMMA OthersKnow ==
  ASSUME IInv, NEW p \in Joueurs, NEW u \in Locals, Knows(u, fantomes', freed'),
         thread' = [thread EXCEPT ![p] = u],
         fantomes = <<>> => fantomes' = <<>>, freed \subseteq freed'
  PROVE  ThreadsKnow'
<1>1. ASSUME NEW q \in Joueurs PROVE Knows(thread[q], fantomes, freed)'
  <2>1. CASE q = p
    <3>1. thread'[q] = u
      BY <2>1 DEF IInv, TypeOK
    <3> QED BY <3>1 DEF Knows
  <2>2. CASE q # p
    <3>1. thread'[q] = thread[q]
      BY <2>2 DEF IInv, TypeOK
    <3>2. Knows(thread[q], fantomes, freed)
      BY DEF IInv, ThreadsKnow
    <3> QED BY <3>1, <3>2 DEF Knows
  <2> QED BY <2>1, <2>2
<1> QED BY <1>1 DEF ThreadsKnow

LEMMA InitInvariant == ASSUME Init PROVE IInv
<1> USE HuntAssumption DEF Init
<1>1. "play" \in Locations
  BY DEF Locations
<1>2. \A p \in Joueurs : thread[p] = Fresh("play") /\ thread[p] \in Locals
                         /\ thread[p].pc = "play"
  BY <1>1, FreshLocals
<1>3. pos \in [Entities -> Sol]
  OBVIOUS
<1>4. TypeOK
  <2>1. Sol \subseteq Int \X Int
    BY DEF Grid
  <2>2. pos \in [Entities -> Int \X Int]
    BY <1>3, <2>1
  <2>3. thread \in [Joueurs -> Locals]
    BY <1>2
  <2> QED BY <2>2, <2>3 DEF TypeOK
<1>5. ListedOrFreed
  BY DEF ListedOrFreed, Fantomes
<1>6. OverWhenCaught
  BY DEF OverWhenCaught
<1>7. Present
  BY DEF Present, Joueurs
<1>8. ThreadsKnow
  BY <1>2 DEF ThreadsKnow, Knows
<1>9. PlayersOnFloor
  BY <1>3 DEF PlayersOnFloor, Entities
<1> QED BY <1>4, <1>5, <1>6, <1>7, <1>8, <1>9 DEF IInv

-----------------------------------------------------------------------------
(* Every step of a thread preserves the invariant.                         *)

LEMMA WalkStep ==
  ASSUME IInv, NEW p \in Joueurs, Move(p) \/ Step(p)
  PROVE  IInv'
<1> USE HuntAssumption
<1> DEFINE t == thread[p]
<1>0. /\ t \in Locals /\ t.dist \in 0 .. MaxDistance
      /\ thread \in [Joueurs -> Locals]
  BY MyLocals DEF IInv, TypeOK
<1>1. CASE Move(p)
  <2>1. PICK d \in Directions, n \in 0 .. MaxDistance :
           thread' = [thread EXCEPT ![p].pc = "step", ![p].dir = d, ![p].dist = n]
    BY <1>1 DEF Move
  <2> DEFINE u == [t EXCEPT !.pc = "step", !.dir = d, !.dist = n]
  <2>2. u \in Locals /\ u.pc = "step"
    BY <1>0 DEF Locals, Locations
  <2>3. thread' = [thread EXCEPT ![p] = u]
    BY <1>0, <2>1
  <2>4. Knows(u, fantomes, freed)
    BY <2>2 DEF Knows
  <2>5. t.pc # "gone" /\ UNCHANGED shared
    BY <1>1 DEF Move
  <2> HIDE DEF u, t
  <2> QED BY <2>2, <2>3, <2>4, <2>5, LocalStep DEF t
<1>2. CASE Step(p) /\ (t.dist = 0 \/ Blocked(pos[p], t.dir))
  <2>1. Fresh("status") \in Locals /\ Fresh("status").pc = "status"
    BY FreshLocals DEF Locations
  <2>2. Knows(Fresh("status"), fantomes, freed)
    BY <2>1 DEF Knows
  <2>3. t.pc # "gone" /\ thread' = [thread EXCEPT ![p] = Fresh("status")]
        /\ UNCHANGED shared
    BY <1>2 DEF Step, Enter, shared
  <2> QED BY <2>1, <2>2, <2>3, LocalStep
<1>3. CASE Step(p) /\ ~(t.dist = 0 \/ Blocked(pos[p], t.dir))
  <2> DEFINE u == [t EXCEPT !.pc = "first"]
  <2>1. u \in Locals /\ u.pc = "first" /\ u.dist = t.dist
    BY <1>0 DEF Locals, Locations
  <2>2. /\ t.pc = "step" /\ thread' = [thread EXCEPT ![p].pc = "first"]
        /\ pos' = [pos EXCEPT ![p] = Plus(@, t.dir)]
        /\ UNCHANGED <<joueurs, fantomes, freed, score, encours, corrupted>>
    BY <1>3 DEF Step, Goto
  <2>3. thread' = [thread EXCEPT ![p] = u]
    BY <1>0, <2>2
  <2>4. t.dist >= 1
    BY <1>0, <1>3
  <2>5. Plus(pos[p], t.dir) \in Sol /\ Plus(pos[p], t.dir) \in Int \X Int
    BY <1>3 DEF Blocked, Grid
  <2>6. Knows(u, fantomes', freed')
    BY <2>1, <2>4 DEF Knows
  <2> HIDE DEF u
  <2>7. TypeOK'
    BY <2>1, <2>2, <2>3, <2>5 DEF IInv, TypeOK
  <2>8. ThreadsKnow'
    BY <2>1, <2>2, <2>3, <2>6, OthersKnow
  <2>9. PlayersOnFloor'
    BY <2>2, <2>5, p \in Entities DEF IInv, TypeOK, PlayersOnFloor, Entities
  <2>10. Present'
    BY <1>0, <2>1, <2>2, <2>3 DEF IInv, Present
  <2>11. ListedOrFreed' /\ OverWhenCaught'
    BY <2>2 DEF IInv, ListedOrFreed, OverWhenCaught
  <2> QED BY <2>7, <2>8, <2>9, <2>10, <2>11 DEF IInv
<1> QED BY <1>1, <1>2, <1>3

LEMMA CheckGhostStep ==
  ASSUME IInv, NEW p \in Joueurs, LookFirst(p) \/ Search(p)
  PROVE  IInv'
<1> USE HuntAssumption
<1> DEFINE t == thread[p]
<1>0. /\ t \in Locals /\ t.dist \in 0 .. MaxDistance
      /\ thread \in [Joueurs -> Locals] /\ fantomes \in Seq(Fantomes)
      /\ Knows(t, fantomes, freed)
  BY MyLocals DEF IInv, TypeOK, ThreadsKnow
<1>1. CASE LookFirst(p)
  <2> DEFINE u == [t EXCEPT !.pc = "search", !.el = First(fantomes)]
  <2>1. First(fantomes) \in Fantomes \cup {NoEl}
    BY <1>0, FirstFacts
  <2>2. u \in Locals /\ u.pc = "search" /\ u.dist = t.dist /\ u.el = First(fantomes)
    BY <1>0, <2>1 DEF Locals, Locations, Entities
  <2>3. /\ t.pc = "first" /\ UNCHANGED shared
        /\ thread' = [thread EXCEPT ![p] = u]
    BY <1>0, <1>1 DEF LookFirst
  <2>4. Knows(u, fantomes, freed)
    BY <1>0, <2>1, <2>2, <2>3 DEF Knows
  <2> HIDE DEF u
  <2> QED BY <2>2, <2>3, <2>4, LocalStep
<1>2. CASE Search(p) /\ t.el = NoEl
  <2> DEFINE u == [t EXCEPT !.pc = "step", !.dist = @ - 1]
  <2>1. /\ t.pc = "search" /\ UNCHANGED shared
        /\ thread' = [thread EXCEPT ![p] = u]
    BY <1>0, <1>2 DEF Search, Goto
  <2>2. t.dist - 1 \in 0 .. MaxDistance
    BY <1>0, <2>1 DEF Knows
  <2>3. u \in Locals /\ u.pc = "step"
    BY <1>0, <2>2 DEF Locals, Locations
  <2>4. Knows(u, fantomes, freed)
    BY <2>3 DEF Knows
  <2> HIDE DEF u
  <2> QED BY <2>1, <2>3, <2>4, LocalStep
<1>3. CASE Search(p) /\ t.el # NoEl /\ pos[t.el] = pos[p]
  <2> DEFINE u == [t EXCEPT !.pc = "credit"]
  <2>1. /\ t.pc = "search" /\ UNCHANGED shared
        /\ thread' = [thread EXCEPT ![p] = u]
    BY <1>0, <1>3 DEF Search, Goto
  <2>2. u \in Locals /\ u.pc = "credit" /\ u.dist = t.dist /\ u.el = t.el
    BY <1>0 DEF Locals, Locations
  <2>3. Knows(u, fantomes, freed)
    BY <1>0, <1>3, <2>1, <2>2 DEF Knows
  <2> HIDE DEF u
  <2> QED BY <2>1, <2>2, <2>3, LocalStep
<1>4. CASE Search(p) /\ t.el # NoEl /\ pos[t.el] # pos[p]
  <2> DEFINE u == [t EXCEPT !.el = After(fantomes, t.el)]
  <2>1. /\ t.pc = "search" /\ UNCHANGED shared /\ t.el \notin freed
        /\ thread' = [thread EXCEPT ![p] = u]
    BY <1>0, <1>4 DEF Search, Goto
  <2>2. t.el \in ToSet(fantomes)
    BY <1>0, <1>4, <2>1 DEF Knows, IInv, ListedOrFreed
  <2>3. After(fantomes, t.el) \in Fantomes \cup {NoEl}
    BY <1>0, <2>2, AfterFacts
  <2>4. u \in Locals /\ u.pc = "search" /\ u.dist = t.dist
        /\ u.el = After(fantomes, t.el)
    BY <1>0, <2>1, <2>3 DEF Locals, Locations, Entities
  <2>5. Knows(u, fantomes, freed)
    BY <1>0, <2>1, <2>3, <2>4 DEF Knows
  <2> HIDE DEF u
  <2> QED BY <2>1, <2>4, <2>5, LocalStep
<1> QED BY <1>1, <1>2, <1>3, <1>4 DEF Search

\* The capture of a ghost.
LEMMA CaptureStep ==
  ASSUME IInv, NEW p \in Joueurs, Credit(p) \/ Free(p) \/ RemoveGhost(p)
  PROVE  IInv'
<1> USE HuntAssumption
<1> DEFINE t == thread[p]
<1>0. /\ t \in Locals /\ t.dist \in 0 .. MaxDistance
      /\ thread \in [Joueurs -> Locals] /\ fantomes \in Seq(Fantomes)
      /\ Knows(t, fantomes, freed)
  BY MyLocals DEF IInv, TypeOK, ThreadsKnow
<1>1. CASE Credit(p)
  <2> DEFINE u == [t EXCEPT !.pc = "free"]
  <2>1. /\ t.pc = "credit" /\ thread' = [thread EXCEPT ![p] = u]
        /\ score' = [score EXCEPT ![p] = @ + Points(t.el)]
        /\ UNCHANGED <<joueurs, fantomes, freed, pos, encours, corrupted>>
    BY <1>0, <1>1 DEF Credit, Goto
  <2>2. u \in Locals /\ u.pc = "free" /\ u.dist = t.dist /\ u.el = t.el
    BY <1>0 DEF Locals, Locations
  <2>3. t.el \in Fantomes /\ t.dist >= 1
    BY <1>0, <2>1 DEF Knows
  <2>4. Knows(u, fantomes', freed')
    BY <2>2, <2>3 DEF Knows
  <2> HIDE DEF u, t
  <2>5. score' \in [Joueurs -> Nat]
    BY <2>1, <2>3, PointsNat DEF IInv, TypeOK
  <2>6. TypeOK'
    BY <1>0, <2>1, <2>2, <2>5 DEF IInv, TypeOK
  <2>7. ThreadsKnow'
    BY <2>1, <2>2, <2>4, OthersKnow
  <2>8. Present'
    BY <1>0, <2>1, <2>2 DEF IInv, Present, t
  <2>9. ListedOrFreed' /\ OverWhenCaught' /\ PlayersOnFloor'
    BY <2>1 DEF IInv, ListedOrFreed, OverWhenCaught, PlayersOnFloor
  <2> QED BY <2>6, <2>7, <2>8, <2>9 DEF IInv
<1>2. CASE Free(p)
  <2> DEFINE u == [t EXCEPT !.pc = "remove"]
  <2>1. /\ t.pc = "free" /\ thread' = [thread EXCEPT ![p] = u]
        /\ freed' = freed \cup {t.el}
        /\ pos' = [pos EXCEPT ![t.el] = Garbage]
        /\ UNCHANGED <<joueurs, fantomes, score, encours, corrupted>>
    BY <1>0, <1>2 DEF Free, Goto
  <2>2. u \in Locals /\ u.pc = "remove" /\ u.dist = t.dist /\ u.el = t.el
    BY <1>0 DEF Locals, Locations
  <2>3. t.el \in Fantomes /\ t.dist >= 1
    BY <1>0, <2>1 DEF Knows
  <2>4. Knows(u, fantomes', freed')
    BY <2>1, <2>2, <2>3 DEF Knows
  <2> HIDE DEF u, t
  <2>5. pos' \in [Entities -> Int \X Int]
    <3>1. Garbage \in Int \X Int
      BY -1 \in Int DEF Garbage
    <3> QED BY <2>1, <3>1 DEF IInv, TypeOK
  <2>6. TypeOK'
    BY <1>0, <2>1, <2>2, <2>3, <2>5 DEF IInv, TypeOK
  <2>7. ThreadsKnow'
    BY <2>1, <2>2, <2>4, OthersKnow
  <2>8. Present'
    BY <1>0, <2>1, <2>2 DEF IInv, Present, t
  <2>9. PlayersOnFloor'
    BY <2>1, <2>3 DEF IInv, TypeOK, PlayersOnFloor, Entities
  <2>10. ListedOrFreed' /\ OverWhenCaught'
    BY <2>1 DEF IInv, ListedOrFreed, OverWhenCaught
  <2> QED BY <2>6, <2>7, <2>8, <2>9, <2>10 DEF IInv
<1>3. CASE RemoveGhost(p)
  <2> DEFINE u == [t EXCEPT !.pc = "step", !.dist = @ - 1, !.el = NoEl]
  <2>1. /\ t.pc = "remove" /\ t.el \in ToSet(fantomes)
        /\ thread' = [thread EXCEPT ![p] = u]
        /\ fantomes' = Without(fantomes, t.el)
        /\ UNCHANGED <<joueurs, freed, pos, score, encours, corrupted>>
    BY <1>0, <1>3 DEF RemoveGhost
  <2>2. t.el \in freed /\ t.dist - 1 \in 0 .. MaxDistance
    BY <1>0, <2>1 DEF Knows
  <2>3. u \in Locals /\ u.pc = "step"
    BY <1>0, <2>2 DEF Locals, Locations
  <2>4. Knows(u, fantomes', freed')
    BY <2>3 DEF Knows
  <2> HIDE DEF u, t
  <2>5. /\ fantomes' \in Seq(Fantomes)
        /\ \A f \in ToSet(fantomes) : f # t.el => f \in ToSet(fantomes')
    BY <1>0, <2>1, WithoutFacts
  <2>6. fantomes # <<>>
    BY <2>1 DEF ToSet
  <2>7. TypeOK'
    BY <1>0, <2>1, <2>3, <2>5 DEF IInv, TypeOK
  <2>8. ThreadsKnow'
    BY <2>1, <2>3, <2>4, <2>6, OthersKnow
  <2>9. Present'
    BY <1>0, <2>1, <2>3 DEF IInv, Present, t
  <2>10. ListedOrFreed'
    BY <2>1, <2>2, <2>5 DEF IInv, ListedOrFreed
  <2>11. OverWhenCaught' /\ PlayersOnFloor'
    BY <2>1, <2>6 DEF IInv, OverWhenCaught, PlayersOnFloor
  <2> QED BY <2>7, <2>8, <2>9, <2>10, <2>11 DEF IInv
<1> QED BY <1>1, <1>2, <1>3

\* The end of the game.
LEMMA EndStep ==
  ASSUME IInv, NEW p \in Joueurs,
         Status(p) \/ CountGhosts(p) \/ EndGame(p)
  PROVE  IInv'
<1> DEFINE t == thread[p]
<1>0. /\ t \in Locals /\ thread \in [Joueurs -> Locals]
      /\ Knows(t, fantomes, freed)
  BY MyLocals DEF IInv, TypeOK, ThreadsKnow
<1>1. CASE Status(p) \/ CountGhosts(p)
  <2>1. PICK l \in {"count", "sweep", "over"} :
           /\ thread' = [thread EXCEPT ![p].pc = l]
           /\ l = "over" => fantomes = <<>>
    BY <1>1 DEF Status, CountGhosts, Goto
  <2> DEFINE u == [t EXCEPT !.pc = l]
  <2>2. u \in Locals /\ u.pc = l
    BY <1>0 DEF Locals, Locations
  <2>3. Knows(u, fantomes, freed)
    BY <2>1, <2>2 DEF Knows
  <2>4. /\ t.pc # "gone" /\ UNCHANGED shared
        /\ thread' = [thread EXCEPT ![p] = u]
    BY <1>0, <1>1, <2>1 DEF Status, CountGhosts
  <2> HIDE DEF u
  <2> QED BY <2>2, <2>3, <2>4, LocalStep
<1>2. CASE EndGame(p)
  <2> DEFINE u == [t EXCEPT !.pc = "best"]
  <2>1. /\ t.pc = "over" /\ thread' = [thread EXCEPT ![p] = u] /\ encours' = 2
        /\ UNCHANGED <<joueurs, fantomes, freed, pos, score, corrupted>>
    BY <1>0, <1>2 DEF EndGame, Goto
  <2>2. u \in Locals /\ u.pc = "best"
    BY <1>0 DEF Locals, Locations
  <2>3. fantomes = <<>>
    BY <1>0, <2>1 DEF Knows
  <2>4. Knows(u, fantomes', freed')
    BY <2>2 DEF Knows
  <2> HIDE DEF u, t
  <2>5. TypeOK'
    BY <1>0, <2>1, <2>2 DEF IInv, TypeOK
  <2>6. ThreadsKnow'
    BY <2>1, <2>2, <2>4, OthersKnow
  <2>7. Present'
    BY <1>0, <2>1, <2>2 DEF IInv, Present, t
  <2>8. ListedOrFreed' /\ OverWhenCaught' /\ PlayersOnFloor'
    BY <2>1, <2>3 DEF IInv, ListedOrFreed, OverWhenCaught, PlayersOnFloor
  <2> QED BY <2>5, <2>6, <2>7, <2>8 DEF IInv
<1> QED BY <1>1, <1>2

\* getWinner.
LEMMA WinnerStep ==
  ASSUME IInv, NEW p \in Joueurs, Best(p) \/ Compare(p) \/ Announce(p)
  PROVE  IInv'
<1> DEFINE t == thread[p]
<1>0. /\ t \in Locals /\ t.i \in Nat /\ thread \in [Joueurs -> Locals]
      /\ joueurs \in Seq(Joueurs)
  BY MyLocals DEF IInv, TypeOK
<1>1. CASE Best(p)
  <2> DEFINE v == IF Len(joueurs) > 1 THEN joueurs[2] ELSE NoEl
             u == [t EXCEPT !.pc  = IF Len(joueurs) > 1 THEN "compare"
                                                        ELSE "announce",
                            !.el  = First(joueurs), !.vis = v, !.i = 0]
  <2>1. First(joueurs) \in Entities \cup {NoEl} /\ v \in Entities \cup {NoEl}
    <3>1. First(joueurs) \in Joueurs \cup {NoEl}
      BY <1>0, FirstFacts
    <3>2. ASSUME Len(joueurs) > 1 PROVE joueurs[2] \in Joueurs
      <4>1. Len(joueurs) \in Nat
        BY <1>0, LenProperties
      <4>2. 2 \in 1 .. Len(joueurs)
        BY <3>2, <4>1
      <4> QED BY <1>0, <4>2, ElementOfSeq
    <3> QED BY <3>1, <3>2 DEF Entities
  <2> HIDE DEF v
  <2>2. u \in Locals /\ u.pc \in {"compare", "announce"}
    BY <1>0, <2>1 DEF Locals, Locations
  <2>3. Knows(u, fantomes, freed)
    BY <2>2 DEF Knows
  <2>4. /\ t.pc # "gone" /\ UNCHANGED shared
        /\ thread' = [thread EXCEPT ![p] = u]
    BY <1>0, <1>1 DEF Best, v
  <2> HIDE DEF u
  <2> QED BY <2>2, <2>3, <2>4, LocalStep
<1>2. CASE Compare(p) /\ t.i < Len(joueurs) - 1
  <2> DEFINE e == IF score[t.vis] > score[t.el] THEN t.vis ELSE t.el
             u == [t EXCEPT !.el = e, !.vis = After(joueurs, t.vis), !.i = @ + 1]
  <2>1. /\ t.pc = "compare" /\ UNCHANGED shared
        /\ {t.el, t.vis} \subseteq ToSet(joueurs)
        /\ thread' = [thread EXCEPT ![p] = u]
    BY <1>0, <1>2 DEF Compare
  <2>2. e \in Entities /\ After(joueurs, t.vis) \in Entities \cup {NoEl}
    <3>1. t.el \in Joueurs /\ t.vis \in Joueurs
      BY <1>0, <2>1, PlaceFacts
    <3>2. After(joueurs, t.vis) \in Joueurs \cup {NoEl}
      BY <1>0, <2>1, AfterFacts
    <3> QED BY <3>1, <3>2 DEF Entities
  <2> HIDE DEF e
  <2>3. u \in Locals /\ u.pc = "compare"
    BY <1>0, <2>1, <2>2, t.i + 1 \in Nat DEF Locals, Locations
  <2>4. Knows(u, fantomes, freed)
    BY <2>3 DEF Knows
  <2> HIDE DEF u
  <2> QED BY <2>1, <2>3, <2>4, LocalStep
<1>3. CASE Compare(p) /\ ~(t.i < Len(joueurs) - 1)
  <2> DEFINE u == [t EXCEPT !.pc = "announce"]
  <2>1. /\ t.pc = "compare" /\ UNCHANGED shared
        /\ thread' = [thread EXCEPT ![p] = u]
    BY <1>0, <1>3 DEF Compare, Goto
  <2>2. u \in Locals /\ u.pc = "announce"
    BY <1>0 DEF Locals, Locations
  <2>3. Knows(u, fantomes, freed)
    BY <2>2 DEF Knows
  <2> HIDE DEF u
  <2> QED BY <2>1, <2>2, <2>3, LocalStep
<1>4. CASE Announce(p)
  <2>1. Fresh("play") \in Locals /\ Fresh("play").pc = "play"
    BY FreshLocals DEF Locations
  <2>2. Knows(Fresh("play"), fantomes, freed)
    BY <2>1 DEF Knows
  <2>3. t.pc # "gone" /\ UNCHANGED shared
        /\ thread' = [thread EXCEPT ![p] = Fresh("play")]
    BY <1>4 DEF Announce, Enter
  <2> QED BY <2>1, <2>2, <2>3, LocalStep
<1> QED BY <1>1, <1>2, <1>3, <1>4

\* The loop of movGhost.
LEMMA SweepStep ==
  ASSUME IInv, NEW p \in Joueurs,
         SweepFirst(p) \/ Sweep(p) \/ SweepNext(p)
  PROVE  IInv'
<1> USE HuntAssumption
<1> DEFINE t == thread[p]
<1>0. /\ t \in Locals /\ t.i \in Nat /\ thread \in [Joueurs -> Locals]
      /\ fantomes \in Seq(Fantomes) /\ Knows(t, fantomes, freed)
  BY MyLocals DEF IInv, TypeOK, ThreadsKnow
<1>1. CASE SweepFirst(p) \/ SweepNext(p)
  <2>1. PICK e \in Fantomes \cup {NoEl}, n \in Nat :
           thread' = [thread EXCEPT ![p].pc = "ghost", ![p].el = e, ![p].i = n]
    <3>1. CASE SweepFirst(p)
      BY <1>0, <3>1, FirstFacts DEF SweepFirst
    <3>2. CASE SweepNext(p)
      <4>1. After(fantomes, t.el) \in Fantomes \cup {NoEl} /\ t.i + 1 \in Nat
        BY <1>0, <3>2, AfterFacts DEF SweepNext
      <4>2. thread' = [thread EXCEPT ![p].pc = "ghost", ![p].i = t.i + 1,
                                     ![p].el = After(fantomes, t.el)]
        BY <1>0, <3>2 DEF SweepNext
      <4>3. thread' = [thread EXCEPT ![p].pc = "ghost",
                                     ![p].el = After(fantomes, t.el),
                                     ![p].i = t.i + 1]
        BY <1>0, <4>2
      <4> HIDE DEF t
      <4> QED BY <4>1, <4>3
    <3> QED BY <1>1, <3>1, <3>2
  <2> DEFINE u == [t EXCEPT !.pc = "ghost", !.el = e, !.i = n]
  <2>2. u \in Locals /\ u.pc = "ghost" /\ u.el = e
    BY <1>0 DEF Locals, Locations, Entities
  <2>3. Knows(u, fantomes, freed)
    BY <2>2 DEF Knows
  <2>4. /\ t.pc # "gone" /\ UNCHANGED shared
        /\ thread' = [thread EXCEPT ![p] = u]
    BY <1>0, <1>1, <2>1 DEF SweepFirst, SweepNext
  <2> HIDE DEF u
  <2> QED BY <2>2, <2>3, <2>4, LocalStep
<1>2. CASE Sweep(p) /\ t.i < Len(fantomes)
  <2> DEFINE u == [t EXCEPT !.pc = "turn"]
  <2>1. /\ t.pc = "ghost" /\ t.el # NoEl /\ UNCHANGED shared
        /\ thread' = [thread EXCEPT ![p] = u]
    BY <1>0, <1>2 DEF Sweep, Goto
  <2>2. u \in Locals /\ u.pc = "turn" /\ u.el = t.el
    BY <1>0 DEF Locals, Locations
  <2>3. Knows(u, fantomes, freed)
    BY <1>0, <2>1, <2>2 DEF Knows
  <2> HIDE DEF u
  <2> QED BY <2>1, <2>2, <2>3, LocalStep
<1>3. CASE Sweep(p) /\ ~(t.i < Len(fantomes))
  <2>1. Fresh("play") \in Locals /\ Fresh("play").pc = "play"
    BY FreshLocals DEF Locations
  <2>2. Knows(Fresh("play"), fantomes, freed)
    BY <2>1 DEF Knows
  <2>3. t.pc # "gone" /\ UNCHANGED shared
        /\ thread' = [thread EXCEPT ![p] = Fresh("play")]
    BY <1>3 DEF Sweep, Enter
  <2> QED BY <2>1, <2>2, <2>3, LocalStep
<1> QED BY <1>1, <1>2, <1>3

\* The walk of no_collision stays in the lists.
LEMMA AfterInFacts ==
  ASSUME TypeOK, NEW e \in InLists
  PROVE  e \in Entities /\ AfterIn(e) \in Entities \cup {NoEl}
<1> USE HuntAssumption DEF Entities
<1>1. joueurs \in Seq(Joueurs) /\ fantomes \in Seq(Fantomes)
  BY DEF TypeOK
<1>2. First(fantomes) \in Fantomes \cup {NoEl}
  BY <1>1, FirstFacts
<1>3. CASE e \in ToSet(joueurs)
  <2>1. e \in Joueurs /\ After(joueurs, e) \in Joueurs \cup {NoEl}
    BY <1>1, <1>3, PlaceFacts, AfterFacts
  <2> QED BY <1>2, <2>1 DEF AfterIn
<1>4. CASE e \in ToSet(fantomes)
  <2>1. e \in Fantomes /\ After(fantomes, e) \in Fantomes \cup {NoEl}
    BY <1>1, <1>4, PlaceFacts, AfterFacts
  <2> QED BY <2>1 DEF AfterIn
<1> QED BY <1>3, <1>4 DEF InLists

LEMMA NorthDirection == North \in Directions
  BY DEF North, Directions

\* The walk of no_collision begins.
LEMMA NoCollisionLocals ==
  ASSUME TypeOK, NEW p \in Joueurs, NoCollision(p), thread[p].el \in Fantomes
  PROVE  \E u \in Locals : /\ thread' = [thread EXCEPT ![p] = u]
                           /\ u.pc = "look" /\ u.el = thread[p].el
<1> USE HuntAssumption
<1> DEFINE t == thread[p]
           u == [t EXCEPT !.pc = "look", !.dir = North, !.vis = First(joueurs)]
<1>1. First(joueurs) \in Joueurs \cup {NoEl}
  BY FirstFacts DEF TypeOK
<1>2. t \in Locals /\ thread \in [Joueurs -> Locals]
  BY DEF TypeOK
<1>3. u \in Locals /\ u.pc = "look" /\ u.el = t.el
  BY <1>1, <1>2, NorthDirection DEF Locals, Locations, Entities
<1>4. thread' = [thread EXCEPT ![p] = u]
  BY <1>2 DEF NoCollision
<1> HIDE DEF u
<1> QED BY <1>3, <1>4

\* ghost_move and no_collision.
LEMMA GhostStep ==
  ASSUME IInv, NEW p \in Joueurs, Turn(p) \/ Shift(p) \/ Look(p) \/ Return(p)
  PROVE  IInv'
<1> USE HuntAssumption
<1> DEFINE t == thread[p]
<1>0. /\ t \in Locals /\ thread \in [Joueurs -> Locals]
      /\ t.calls \in Seq(Entities) /\ t.dir \in Directions
      /\ Knows(t, fantomes, freed) /\ TypeOK
  BY MyLocals DEF IInv, TypeOK, ThreadsKnow
<1>1. CASE Turn(p)
  <2>1. t.pc = "turn" /\ t.el \in Fantomes /\ UNCHANGED shared
    BY <1>0, <1>1 DEF Turn, Knows
  <2>2. PICK d \in Directions :
           IF Blocked(pos[t.el], d)
             THEN NoCollision(p)
             ELSE thread' = [thread EXCEPT ![p].pc = "shift", ![p].dir = d]
    BY <1>1 DEF Turn
  <2>3. CASE NoCollision(p)
    <3>1. PICK u \in Locals : /\ thread' = [thread EXCEPT ![p] = u]
                              /\ u.pc = "look" /\ u.el = t.el
      BY <1>0, <2>1, <2>3, NoCollisionLocals
    <3>2. Knows(u, fantomes, freed)
      BY <2>1, <3>1 DEF Knows
    <3> QED BY <2>1, <3>1, <3>2, LocalStep
  <2>4. CASE thread' = [thread EXCEPT ![p].pc = "shift", ![p].dir = d]
    <3> DEFINE u == [t EXCEPT !.pc = "shift", !.dir = d]
    <3>1. u \in Locals /\ u.pc = "shift" /\ u.el = t.el
      BY <1>0 DEF Locals, Locations
    <3>2. Knows(u, fantomes, freed)
      BY <2>1, <3>1 DEF Knows
    <3>3. thread' = [thread EXCEPT ![p] = u]
      BY <1>0, <2>4
    <3> HIDE DEF u
    <3> QED BY <2>1, <3>1, <3>2, <3>3, LocalStep
  <2> QED BY <2>2, <2>3, <2>4
<1>2. CASE Shift(p)
  <2>1. /\ t.pc = "shift" /\ NoCollision(p)
        /\ pos' = [pos EXCEPT ![t.el] = Plus(@, t.dir)]
        /\ UNCHANGED <<joueurs, fantomes, freed, score, encours, corrupted>>
    BY <1>2 DEF Shift
  <2>2. t.el \in Fantomes
    BY <1>0, <2>1 DEF Knows
  <2>3. PICK u \in Locals : /\ thread' = [thread EXCEPT ![p] = u]
                            /\ u.pc = "look" /\ u.el = t.el
    BY <1>0, <2>1, <2>2, NoCollisionLocals
  <2>4. Knows(u, fantomes', freed')
    BY <2>2, <2>3 DEF Knows
  <2> HIDE DEF t
  <2>5. Plus(pos[t.el], t.dir) \in Int \X Int
    <3>1. pos[t.el] \in Int \X Int
      BY <1>0, <2>2 DEF TypeOK, Entities
    <3>2. t.dir \in Int \X Int
      BY <1>0, -1 \in Int DEF Directions
    <3> QED BY <3>1, <3>2 DEF Plus
  <2>6. TypeOK'
    BY <1>0, <2>1, <2>3, <2>5 DEF TypeOK
  <2>7. ThreadsKnow'
    BY <2>1, <2>3, <2>4, OthersKnow
  <2>8. Present'
    BY <1>0, <2>1, <2>3 DEF IInv, Present, t
  <2>9. PlayersOnFloor'
    BY <2>1, <2>2 DEF IInv, TypeOK, PlayersOnFloor, Entities
  <2>10. ListedOrFreed' /\ OverWhenCaught'
    BY <2>1 DEF IInv, ListedOrFreed, OverWhenCaught
  <2> QED BY <2>6, <2>7, <2>8, <2>9, <2>10 DEF IInv
<1>3. CASE Look(p)
  <2>1. /\ t.pc = "look" /\ t.vis \in InLists /\ UNCHANGED shared
        /\ t.el \in Fantomes
    BY <1>0, <1>3 DEF Look, Knows
  <2>2. t.vis \in Entities /\ AfterIn(t.vis) \in Entities \cup {NoEl}
    BY <1>0, <2>1, AfterInFacts
  <2>3. CASE thread' = [thread EXCEPT ![p].vis = AfterIn(t.vis)]
    <3> DEFINE u == [t EXCEPT !.vis = AfterIn(t.vis)]
    <3>1. u \in Locals /\ u.pc = "look" /\ u.el = t.el
      BY <1>0, <2>1, <2>2 DEF Locals
    <3>2. Knows(u, fantomes, freed)
      BY <2>1, <3>1 DEF Knows
    <3>3. thread' = [thread EXCEPT ![p] = u]
      BY <1>0, <2>3
    <3> HIDE DEF u
    <3> QED BY <2>1, <3>1, <3>2, <3>3, LocalStep
  <2>4. CASE thread' = [thread EXCEPT ![p].pc = "turn", ![p].vis = NoEl,
                                      ![p].calls = Append(@, t.vis)]
    <3> DEFINE c == Append(t.calls, t.vis)
               u == [t EXCEPT !.pc = "turn", !.vis = NoEl, !.calls = c]
    <3>1. c \in Seq(Entities)
      BY <1>0, <2>2, AppendProperties
    <3>2. thread' = [thread EXCEPT ![p] = u]
      BY <1>0, <2>4
    <3> HIDE DEF c
    <3>3. u \in Locals /\ u.pc = "turn" /\ u.el = t.el
      BY <1>0, <3>1 DEF Locals, Locations
    <3>4. Knows(u, fantomes, freed)
      BY <2>1, <3>3 DEF Knows
    <3> HIDE DEF u
    <3> QED BY <2>1, <3>2, <3>3, <3>4, LocalStep
  <2> QED BY <1>3, <2>3, <2>4 DEF Look
<1>4. CASE Return(p) /\ t.calls = <<>>
  <2> DEFINE u == [t EXCEPT !.pc = "sweepnext"]
  <2>1. /\ t.pc = "look" /\ UNCHANGED shared /\ t.el \in Fantomes
        /\ thread' = [thread EXCEPT ![p] = u]
    BY <1>0, <1>4 DEF Return, Goto, Knows
  <2>2. u \in Locals /\ u.pc = "sweepnext" /\ u.el = t.el
    BY <1>0 DEF Locals, Locations
  <2>3. Knows(u, fantomes, freed)
    BY <2>1, <2>2 DEF Knows
  <2> HIDE DEF u
  <2> QED BY <2>1, <2>2, <2>3, LocalStep
<1>5. CASE Return(p) /\ t.calls # <<>>
  <2> DEFINE c == Front(t.calls)
             v == AfterIn(Last(t.calls))
             u == [t EXCEPT !.vis = v, !.calls = c]
  <2>1. /\ t.pc = "look" /\ UNCHANGED shared /\ t.el \in Fantomes
        /\ Last(t.calls) \in InLists
        /\ thread' = [thread EXCEPT ![p] = u]
    BY <1>0, <1>5 DEF Return, Knows
  <2>2. v \in Entities \cup {NoEl}
    BY <1>0, <2>1, AfterInFacts
  <2>3. c \in Seq(Entities)
    <3>1. Len(t.calls) \in Nat \ {0}
      BY <1>0, <1>5, EmptySeq
    <3>2. \A i \in 1 .. Len(t.calls) - 1 : t.calls[i] \in Entities
      BY <1>0, <3>1, ElementOfSeq
    <3> HIDE DEF t
    <3> QED BY <3>1, <3>2, SubSeqProperties DEF Front
  <2> HIDE DEF c, v
  <2>4. u \in Locals /\ u.pc = "look" /\ u.el = t.el
    BY <1>0, <2>1, <2>2, <2>3 DEF Locals
  <2>5. Knows(u, fantomes, freed)
    BY <2>1, <2>4 DEF Knows
  <2> HIDE DEF u
  <2> QED BY <2>1, <2>4, <2>5, LocalStep
<1> QED BY <1>1, <1>2, <1>3, <1>4, <1>5

\* quit_game.
LEMMA QuitStep ==
  ASSUME IInv, NEW p \in Joueurs, Quit(p) \/ Leave(p)
  PROVE  IInv'
<1> USE HuntAssumption
<1> DEFINE t == thread[p]
<1>0. t \in Locals /\ thread \in [Joueurs -> Locals] /\ joueurs \in Seq(Joueurs)
  BY MyLocals DEF IInv, TypeOK
<1>1. CASE Quit(p)
  <2> DEFINE u == [t EXCEPT !.pc = "quit"]
  <2>1. /\ t.pc = "play" /\ UNCHANGED shared
        /\ thread' = [thread EXCEPT ![p] = u]
    BY <1>0, <1>1 DEF Quit, Goto
  <2>2. u \in Locals /\ u.pc = "quit"
    BY <1>0 DEF Locals, Locations
  <2>3. Knows(u, fantomes, freed)
    BY <2>2 DEF Knows
  <2> HIDE DEF u
  <2> QED BY <2>1, <2>2, <2>3, LocalStep
<1>2. CASE Leave(p)
  <2> DEFINE u == [t EXCEPT !.pc = "gone"]
  <2>1. /\ t.pc = "quit" /\ joueurs' = Without(joueurs, p)
        /\ thread' = [thread EXCEPT ![p] = u]
        /\ UNCHANGED <<fantomes, freed, pos, score, encours, corrupted>>
    BY <1>0, <1>2 DEF Leave, Goto
  <2>2. u \in Locals /\ u.pc = "gone"
    BY <1>0 DEF Locals, Locations
  <2>3. Knows(u, fantomes', freed')
    BY <2>2 DEF Knows
  <2>4. p \in ToSet(joueurs)
    BY <2>1 DEF IInv, Present
  <2> HIDE DEF u, t
  <2>5. /\ joueurs' \in Seq(Joueurs)
        /\ \A f \in ToSet(joueurs) : f # p => f \in ToSet(joueurs')
    BY <1>0, <2>1, <2>4, WithoutFacts
  <2>6. TypeOK'
    BY <1>0, <2>1, <2>2, <2>5 DEF IInv, TypeOK
  <2>7. ThreadsKnow'
    BY <2>1, <2>2, <2>3, OthersKnow
  <2>8. Present'
    BY <1>0, <2>1, <2>2, <2>5 DEF IInv, Present
  <2>9. ListedOrFreed' /\ OverWhenCaught' /\ PlayersOnFloor'
    BY <2>1 DEF IInv, ListedOrFreed, OverWhenCaught, PlayersOnFloor
  <2> QED BY <2>6, <2>7, <2>8, <2>9 DEF IInv
<1> QED BY <1>1, <1>2

\* A thread that reads freed memory changes nothing else.
LEMMA CorruptStep ==
  ASSUME IInv, NEW p \in Joueurs, Corrupt(p)
  PROVE  IInv'
  BY DEF Corrupt, IInv, TypeOK, ListedOrFreed, OverWhenCaught, Present,
         ThreadsKnow, Knows, PlayersOnFloor

-----------------------------------------------------------------------------
LEMMA StutterStep ==
  ASSUME IInv, UNCHANGED vars
  PROVE  IInv'
  BY DEF vars, shared, IInv, TypeOK, ListedOrFreed, OverWhenCaught, Present,
         ThreadsKnow, Knows, PlayersOnFloor

\* The invariant holds in every state: locals and lists are of their types, no
\* ghost is off the list without having been freed, the game is over only when
\* no ghost is left, and the players stand on the floor.
THEOREM Invariance == Spec => []IInv
<1>1. Init => IInv
  BY InitInvariant
<1>2. IInv /\ [Next]_vars => IInv'
  <2>1. ASSUME IInv, NEW p \in Joueurs, Player(p) PROVE IInv'
    BY <2>1, WalkStep, CheckGhostStep, CaptureStep, EndStep, WinnerStep,
       SweepStep, GhostStep, QuitStep, CorruptStep DEF Player
  <2> QED BY <2>1, StutterStep DEF Next
<1> QED BY <1>1, <1>2, PTL DEF Spec

\* Every variable keeps its type: the elements that the threads hold are
\* players, ghosts or NULL, and the lists stay lists of them.
THEOREM TypeCorrect == Spec => []TypeOK
<1>1. IInv => TypeOK
  BY DEF IInv
<1> QED BY <1>1, Invariance, PTL

\* No player walks through a wall or out of the map (player_move), on any map
\* and whatever the other players do meanwhile.
THEOREM PlayersOnFloorHolds == Spec => []PlayersOnFloor
<1>1. IInv => PlayersOnFloor
  BY DEF IInv
<1> QED BY <1>1, Invariance, PTL

\* Once the game is over nobody is credited: only Credit changes a score, and
\* the ghost it would credit has been freed by then.
LEMMA NoMorePoints ==
  ASSUME IInv, NEW p \in Joueurs, Player(p), encours = 2
  PROVE  UNCHANGED <<score, encours>>
<1>1. CASE Credit(p)
  <2>1. thread[p].el \in Fantomes /\ thread[p].el \notin freed
    BY <1>1 DEF Credit, IInv, ThreadsKnow, Knows
  <2>2. thread[p].el \in ToSet(fantomes)
    BY <2>1 DEF IInv, ListedOrFreed
  <2>3. fantomes = <<>>
    BY DEF IInv, OverWhenCaught
  <2> QED BY <2>2, <2>3 DEF ToSet
<1>2. CASE ~Credit(p)
  BY <1>2
  DEF Player, Move, Step, LookFirst, Search, Free, RemoveGhost, Status,
      CountGhosts, EndGame, Best, Compare, Announce, SweepFirst, Sweep,
      Turn, Shift, Look, Return, SweepNext, Quit, Leave, Corrupt, shared
<1> QED BY <1>1, <1>2

\* No score changes once the game is over (check_ghost, movPlayer), even if
\* others are in the middle of their moves.
THEOREM FinalScoresHolds == Spec => FinalScores
<1>1. IInv /\ [Next]_vars => [encours = 2 => UNCHANGED score]_vars
  BY NoMorePoints DEF Next
<1> QED BY <1>1, Invariance, PTL DEF Spec, FinalScores
-----------------------------------------------------------------------------
(* The hunt is a game as Partie describes it.                              *)

\* No player is twice in the list.
Once == IsInjective(joueurs)

\* The departure of a player is the only step that changes the list, and it is
\* one of Partie's.
LEMMA LeaveStep ==
  ASSUME IInv, Once, NEW p \in Joueurs, Leave(p)
  PROVE  Once' /\ Game!Leave(p)
<1>1. /\ joueurs \in Seq(Joueurs) /\ p \in ToSet(joueurs)
      /\ joueurs' = Without(joueurs, p) /\ UNCHANGED <<fantomes, encours>>
  BY DEF Leave, IInv, TypeOK, Present
<1>2. Once' /\ ToSet(joueurs') = ToSet(joueurs) \ {p}
  BY <1>1, WithoutOnce DEF Once
<1>3. Len(fantomes') = Len(fantomes)
  BY <1>1
<1> QED BY <1>1, <1>2, <1>3 DEF Game!Leave, Game!InUse

\* A capture takes place while the game runs, and leaves fewer ghosts.
LEMMA RemoveStep ==
  ASSUME IInv, NEW p \in Joueurs, RemoveGhost(p)
  PROVE  Game!Catch
<1> DEFINE e == thread[p].el
<1>1. /\ fantomes \in Seq(Fantomes) /\ e \in ToSet(fantomes)
      /\ fantomes' = Without(fantomes, e) /\ UNCHANGED <<joueurs, encours>>
  BY DEF RemoveGhost, IInv, TypeOK
<1> HIDE DEF e
<1>2. /\ fantomes' \in Seq(Fantomes) /\ Len(fantomes') = Len(fantomes) - 1
  BY <1>1, WithoutFacts
<1>3. Len(fantomes) \in Nat /\ Len(fantomes') \in Nat
  BY <1>1, <1>2, LenProperties
<1>4. Len(fantomes') \in 0 .. Len(fantomes) - 1
  BY <1>2, <1>3
<1>5. encours = 1
  <2>1. fantomes # <<>>
    BY <1>1 DEF ToSet
  <2> QED BY <2>1 DEF IInv, TypeOK, OverWhenCaught
<1> QED BY <1>1, <1>4, <1>5 DEF Game!Catch

\* What a thread does otherwise, the others do not see, but for the end.
LEMMA OtherStep ==
  ASSUME IInv, NEW p \in Joueurs, Player(p), ~Leave(p), ~RemoveGhost(p)
  PROVE  /\ UNCHANGED joueurs
         /\ Game!End \/ UNCHANGED Game!vars
<1>1. UNCHANGED <<joueurs, fantomes>>
  BY DEF Player, Move, Step, LookFirst, Search, Credit, Free, Status,
     CountGhosts, EndGame, Best, Compare, Announce, SweepFirst, Sweep, Turn,
     Shift, Look, Return, SweepNext, Quit, Corrupt, shared
<1>2. CASE EndGame(p)
  <2>1. fantomes = <<>> /\ encours' = 2 /\ encours \in {1, 2}
    BY <1>2 DEF EndGame, IInv, ThreadsKnow, Knows, TypeOK
  <2>2. Len(fantomes) = 0
    BY <2>1
  <2>3. CASE encours = 1
    BY <1>1, <2>1, <2>2, <2>3 DEF Game!End
  <2>4. CASE encours = 2
    BY <1>1, <2>1, <2>4 DEF Game!vars
  <2> QED BY <1>1, <2>1, <2>3, <2>4
<1>3. CASE ~EndGame(p)
  <2>1. UNCHANGED encours
    BY <1>3
    DEF Player, Move, Step, LookFirst, Search, Credit, Free, Status,
        CountGhosts, Best, Compare, Announce, SweepFirst, Sweep, Turn,
        Shift, Look, Return, SweepNext, Quit, Corrupt, shared
  <2> QED BY <1>1, <2>1 DEF Game!vars
<1> QED BY <1>2, <1>3

\* Every step of a thread is, for the game, one that Partie allows or none: a
\* player leaves, ghosts are caught while the game runs, or the game whose
\* ghosts are gone ends.
THEOREM PlaysPartieHolds == Spec => PlaysPartie
<1> DEFINE Inv == IInv /\ Once
<1>1. Init => Inv
  BY InitInvariant, HuntAssumption DEF Init, Once
<1>2. Inv /\ [Next]_vars => Inv' /\ [Game!Next]_(Game!vars)
  <2> SUFFICES ASSUME Inv, [Next]_vars
               PROVE  Inv' /\ [Game!Next]_(Game!vars)
    OBVIOUS
  <2>1. ASSUME NEW p \in Joueurs, Player(p)
        PROVE  Inv' /\ [Game!Next]_(Game!vars)
    <3>1. IInv'
      BY <2>1, WalkStep, CheckGhostStep, CaptureStep, EndStep, WinnerStep,
         SweepStep, GhostStep, QuitStep, CorruptStep DEF Player
    <3>2. CASE Leave(p)
      BY <3>1, <3>2, LeaveStep DEF Game!Next
    <3>3. CASE RemoveGhost(p)
      <4>1. UNCHANGED joueurs
        BY <3>3 DEF RemoveGhost
      <4> QED BY <3>1, <3>3, <4>1, RemoveStep DEF Game!Next, Once
    <3>4. CASE ~Leave(p) /\ ~RemoveGhost(p)
      BY <2>1, <3>1, <3>4, OtherStep DEF Game!Next, Once
    <3> QED BY <3>2, <3>3, <3>4
  <2>2. CASE UNCHANGED vars
    BY <2>2, StutterStep DEF vars, shared, Game!vars, Once
  <2> QED BY <2>1, <2>2 DEF Next
<1> QED BY <1>1, <1>2, PTL DEF Spec, PlaysPartie

-----------------------------------------------------------------------------
(* The loop of movGhost stays in the list.                                 *)

Sweeps == {"ghost", "turn", "shift", "look", "sweepnext"}

\* The loop has counted the ghosts in front of the one it is at, and perhaps
\* some that were removed since; at the end of the list, all that are left.
Counted(t, list) ==
    t.pc \in Sweeps =>
        /\ t.el \in ToSet(list) => Place(list, t.el) <= t.i + 1
        /\ t.pc = "ghost" /\ t.el = NoEl => Len(list) <= t.i

\* No ghost is twice in the list.
GhostsOnce == IsInjective(fantomes)

SweepOK == GhostsOnce /\ \A p \in Joueurs : Counted(thread[p], fantomes)

\* A thread whose step changes neither the ghost it is at nor the counter.
LEMMA SteadyStep ==
  ASSUME TypeOK, NEW p \in Joueurs, Player(p),
         ~RemoveGhost(p), ~SweepFirst(p), ~SweepNext(p)
  PROVE  \/ thread'[p] = thread[p]
         \/ thread'[p].pc \notin Sweeps
         \/ /\ thread[p].pc \in Sweeps /\ thread'[p].pc # "ghost"
            /\ thread'[p].el = thread[p].el /\ thread'[p].i = thread[p].i
<1> USE DEF Goto, Enter, Fresh, Sweeps
<1>0. thread \in [Joueurs -> Locals]
  BY DEF TypeOK
<1>1. CASE Move(p) \/ LookFirst(p) \/ Search(p)
  <2>1. CASE Move(p)
    <3>1. PICK d \in Directions, n \in 0 .. MaxDistance :
             thread' = [thread EXCEPT ![p].pc = "step", ![p].dir = d, ![p].dist = n]
      BY <2>1 DEF Move
    <3> QED BY <1>0, <3>1 DEF Locals
  <2>2. CASE LookFirst(p)
    BY <1>0, <2>2 DEF LookFirst, Locals
  <2>3. CASE Search(p)
    <3>1. \/ thread' = [thread EXCEPT ![p].pc = "step", ![p].dist = @ - 1]
          \/ thread' = [thread EXCEPT ![p].pc = "credit"]
          \/ /\ thread[p].pc = "search"
             /\ thread' = [thread EXCEPT ![p].el = After(fantomes, thread[p].el)]
      BY <2>3 DEF Search
    <3>2. CASE thread' = [thread EXCEPT ![p].pc = "step", ![p].dist = @ - 1]
      BY <1>0, <3>2 DEF Locals
    <3>3. CASE thread' = [thread EXCEPT ![p].pc = "credit"]
      BY <1>0, <3>3 DEF Locals
    <3>4. CASE /\ thread[p].pc = "search"
               /\ thread' = [thread EXCEPT ![p].el = After(fantomes, thread[p].el)]
      BY <1>0, <3>4 DEF Locals
    <3> QED BY <3>1, <3>2, <3>3, <3>4
  <2> QED BY <1>1, <2>1, <2>2, <2>3
<1>2. CASE Step(p) \/ Credit(p) \/ Free(p)
  BY <1>0, <1>2 DEF Step, Credit, Free, Locals
<1>3. CASE Status(p) \/ CountGhosts(p) \/ EndGame(p)
  BY <1>0, <1>3 DEF Status, CountGhosts, EndGame, Locals
<1>4. CASE Best(p)
  BY <1>0, <1>4 DEF Best, Locals
<1>5. CASE Compare(p)
  BY <1>0, <1>5 DEF Compare, Locals
<1>6. CASE Announce(p)
  BY <1>0, <1>6 DEF Announce, Locals
<1>7. CASE Sweep(p) \/ Turn(p) \/ Shift(p)
  BY <1>0, <1>7 DEF Sweep, Turn, Shift, NoCollision, Locals
<1>8. CASE Look(p) \/ Return(p)
  BY <1>0, <1>8 DEF Look, Return, Locals
<1>9. CASE Quit(p) \/ Leave(p) \/ Corrupt(p)
  BY <1>0, <1>9 DEF Quit, Leave, Corrupt, Locals
<1> QED BY <1>1, <1>2, <1>3, <1>4, <1>5, <1>6, <1>7, <1>8, <1>9 DEF Player

LEMMA OthersStay ==
  ASSUME TypeOK, NEW p \in Joueurs, Player(p)
  PROVE  /\ \A q \in Joueurs : q # p => thread'[q] = thread[q]
         /\ ~RemoveGhost(p) => UNCHANGED fantomes
<1>1. ~RemoveGhost(p) => UNCHANGED fantomes
  BY DEF Player, Move, Step, LookFirst, Search, Credit, Free, Status,
     CountGhosts, EndGame, Best, Compare, Announce, SweepFirst, Sweep, Turn,
     Shift, Look, Return, SweepNext, Quit, Leave, Corrupt, shared
<1>2. \A q \in Joueurs : q # p => thread'[q] = thread[q]
  BY DEF TypeOK, Player, Move, Step, LookFirst, Search, Credit, Free,
     RemoveGhost, Status, CountGhosts, EndGame, Best, Compare, Announce,
     SweepFirst, Sweep, Turn, Shift, Look, Return, SweepNext, Quit, Leave,
     Corrupt, Goto, Enter, NoCollision
<1> QED BY <1>1, <1>2

LEMMA CountedStep ==
  ASSUME IInv, SweepOK, NEW p \in Joueurs, Player(p)
  PROVE  SweepOK'
<1> USE DEF GhostsOnce
<1>0. /\ TypeOK /\ fantomes \in Seq(Fantomes) /\ Len(fantomes) \in Nat
      /\ \A q \in Joueurs : thread[q].i \in Nat
      /\ \A q \in Joueurs : Counted(thread[q], fantomes)
      /\ IsInjective(fantomes)
  BY LenProperties, MyLocals DEF IInv, TypeOK, SweepOK
<1>1. CASE RemoveGhost(p)
  <2> DEFINE e == thread[p].el
  <2>1. /\ e \in ToSet(fantomes) /\ fantomes' = Without(fantomes, e)
        /\ thread'[p].pc = "step"
    BY <1>0, <1>1 DEF RemoveGhost, TypeOK, Locals
  <2> HIDE DEF e
  <2>2. /\ IsInjective(fantomes') /\ ToSet(fantomes') = ToSet(fantomes) \ {e}
        /\ Len(fantomes') = Len(fantomes) - 1
    BY <1>0, <2>1, WithoutOnce, WithoutFacts
  <2>3. ASSUME NEW q \in Joueurs PROVE Counted(thread'[q], fantomes')
    <3>1. CASE q = p
      BY <2>1, <3>1 DEF Counted, Sweeps
    <3>2. CASE q # p
      <4> DEFINE t == thread[q]
      <4>1. thread'[q] = t
        BY <1>0, <3>2, OthersStay
      <4>2. ASSUME t.pc \in Sweeps, t.el \in ToSet(fantomes')
            PROVE  Place(fantomes', t.el) <= t.i + 1
        <5>1. t.el \in ToSet(fantomes) /\ t.el # e
          BY <2>2, <4>2
        <5>2. Place(fantomes', t.el) <= Place(fantomes, t.el)
          BY <1>0, <2>1, <5>1, WithoutPlace
        <5>3. Place(fantomes, t.el) <= t.i + 1
          BY <1>0, <4>2, <5>1 DEF Counted
        <5>4. /\ Place(fantomes, t.el) \in Int /\ Place(fantomes', t.el) \in Int
              /\ t.i \in Int
          <6>1. fantomes' \in Seq(Fantomes)
            BY <1>0, <2>1, WithoutFacts
          <6>2. Place(fantomes', t.el) \in 1 .. Len(fantomes')
            BY <4>2, <6>1, PlaceFacts
          <6>3. Place(fantomes, t.el) \in 1 .. Len(fantomes)
            BY <1>0, <5>1, PlaceFacts
          <6> QED BY <1>0, <6>2, <6>3
        <5> QED BY <5>2, <5>3, <5>4
      <4>3. ASSUME t.pc = "ghost", t.el = NoEl
            PROVE  Len(fantomes') <= t.i
        <5>1. Len(fantomes) <= t.i
          BY <1>0, <4>3 DEF Counted, Sweeps
        <5> QED BY <1>0, <2>2, <5>1
      <4> QED BY <4>1, <4>2, <4>3 DEF Counted
    <3> QED BY <3>1, <3>2
  <2> QED BY <2>2, <2>3 DEF SweepOK
<1>2. CASE ~RemoveGhost(p)
  <2>1. /\ UNCHANGED fantomes
        /\ \A q \in Joueurs : q # p => thread'[q] = thread[q]
    BY <1>0, <1>2, OthersStay
  <2>2. Counted(thread'[p], fantomes)
    <3>1. CASE SweepFirst(p)
      <4>1. /\ thread'[p].pc = "ghost" /\ thread'[p].i = 0
            /\ thread'[p].el = First(fantomes)
        BY <1>0, <3>1 DEF SweepFirst, TypeOK, Locals
      <4>2. CASE fantomes = <<>>
        <5>1. Len(fantomes) = 0 /\ ToSet(fantomes) = {}
          BY <4>2 DEF ToSet
        <5> QED BY <4>1, <5>1 DEF Counted
      <4>3. CASE fantomes # <<>>
        <5>1. Len(fantomes) # 0
          BY <1>0, <4>3, EmptySeq
        <5>2. 1 \in 1 .. Len(fantomes) /\ First(fantomes) = fantomes[1]
          BY <1>0, <4>3, <5>1 DEF First
        <5>3. Place(fantomes, fantomes[1]) = 1 /\ fantomes[1] \in Fantomes
          BY <1>0, <5>2, PlaceIs, ElementOfSeq
        <5>4. fantomes[1] # NoEl
          BY <5>3, HuntAssumption DEF Entities
        <5> QED BY <4>1, <5>2, <5>3, <5>4 DEF Counted
      <4> QED BY <4>2, <4>3
    <3>2. CASE SweepNext(p)
      <4> DEFINE t == thread[p]
                 k == Place(fantomes, t.el)
      <4>1. /\ t.pc = "sweepnext" /\ t.el \in ToSet(fantomes)
            /\ thread'[p].pc = "ghost" /\ thread'[p].i = t.i + 1
            /\ thread'[p].el = After(fantomes, t.el)
        BY <1>0, <3>2 DEF SweepNext, TypeOK, Locals
      <4>2. k \in 1 .. Len(fantomes) /\ k <= t.i + 1 /\ t.i \in Nat
        BY <1>0, <4>1, PlaceFacts DEF Counted, Sweeps
      <4>3. After(fantomes, t.el) = IF k = Len(fantomes) THEN NoEl ELSE fantomes[k + 1]
        BY DEF After
      <4> HIDE DEF k, t
      <4>4. CASE k = Len(fantomes)
        <5>1. NoEl \notin ToSet(fantomes)
          BY <1>0, HuntAssumption, PlaceFacts DEF Entities
        <5>2. Len(fantomes) <= t.i + 1
          BY <4>2, <4>4
        <5> QED BY <4>1, <4>3, <4>4, <5>1, <5>2 DEF Counted
      <4>5. CASE k # Len(fantomes)
        <5>1. k + 1 \in 1 .. Len(fantomes) /\ k + 1 <= (t.i + 1) + 1
          BY <1>0, <4>2, <4>5
        <5>2. /\ Place(fantomes, fantomes[k + 1]) = k + 1
              /\ fantomes[k + 1] \in Fantomes
          BY <1>0, <5>1, PlaceIs, ElementOfSeq
        <5>3. fantomes[k + 1] # NoEl
          BY <5>2, HuntAssumption DEF Entities
        <5> QED BY <4>1, <4>3, <4>5, <5>1, <5>2, <5>3 DEF Counted
      <4> QED BY <4>4, <4>5
    <3>3. CASE ~SweepFirst(p) /\ ~SweepNext(p)
      <4>1. \/ thread'[p] = thread[p]
            \/ thread'[p].pc \notin Sweeps
            \/ /\ thread[p].pc \in Sweeps /\ thread'[p].pc # "ghost"
               /\ thread'[p].el = thread[p].el /\ thread'[p].i = thread[p].i
        BY <1>0, <1>2, <3>3, SteadyStep
      <4> QED BY <1>0, <4>1 DEF Counted
    <3> QED BY <3>1, <3>2, <3>3
  <2> QED BY <1>0, <2>1, <2>2 DEF SweepOK
<1> QED BY <1>1, <1>2

\* The loop of movGhost never follows NULL, although other threads shorten the
\* list it counts the length of: the counter never falls behind.
THEOREM SweepInListHolds == Spec => []SweepInList
<1> DEFINE Inv == IInv /\ SweepOK
<1>1. Init => Inv
  <2> SUFFICES ASSUME Init PROVE SweepOK
    BY InitInvariant
  <2>1. \A p \in Joueurs : thread[p].pc = "play"
    BY DEF Init, Fresh
  <2> QED BY <2>1, HuntAssumption DEF Init, SweepOK, GhostsOnce, Counted, Sweeps
<1>2. Inv /\ [Next]_vars => Inv'
  <2> SUFFICES ASSUME Inv, [Next]_vars PROVE Inv'
    OBVIOUS
  <2>1. ASSUME NEW p \in Joueurs, Player(p) PROVE Inv'
    <3>1. IInv'
      BY <2>1, WalkStep, CheckGhostStep, CaptureStep, EndStep, WinnerStep,
         SweepStep, GhostStep, QuitStep, CorruptStep DEF Player
    <3> QED BY <2>1, <3>1, CountedStep
  <2>2. CASE UNCHANGED vars
    BY <2>2, StutterStep DEF vars, shared, SweepOK, GhostsOnce, Counted
  <2> QED BY <2>1, <2>2 DEF Next
<1>3. Inv => SweepInList
  <2> SUFFICES ASSUME Inv, NEW p \in Joueurs, thread[p].pc = "ghost",
                      thread[p].i < Len(fantomes), thread[p].el = NoEl
               PROVE  FALSE
    BY DEF SweepInList
  <2>1. Len(fantomes) <= thread[p].i
    BY DEF SweepOK, Counted, Sweeps
  <2>2. Len(fantomes) \in Nat /\ thread[p].i \in Nat
    BY LenProperties, MyLocals DEF IInv, TypeOK
  <2> QED BY <2>1, <2>2
<1> QED BY <1>1, <1>2, <1>3, PTL DEF Spec

-----------------------------------------------------------------------------
(* The winner.                                                             *)

Ranking == {"best", "compare", "announce"}

\* The players are only ranked when the game is over, ...
RankedOver == \A p \in Joueurs : thread[p].pc \in Ranking => encours = 2

\* ... and what ENDGA is about to say is right.
RInv == IInv /\ Once /\ RankedOver /\ EndgaNamesBest

\* How a thread gets to the ranking.
LEMMA RankingFrom ==
  ASSUME TypeOK, NEW p \in Joueurs, Player(p), thread'[p].pc \in Ranking
  PROVE  \/ thread'[p] = thread[p] /\ UNCHANGED joueurs
         \/ EndGame(p) /\ thread'[p].pc = "best"
         \/ Best(p) \/ Compare(p)
<1>0. thread \in [Joueurs -> Locals]
  BY DEF TypeOK
<1>1. CASE Corrupt(p)
  BY <1>1 DEF Corrupt
<1>2. CASE EndGame(p)
  BY <1>0, <1>2 DEF EndGame, Goto, Locals
<1>3. CASE RemoveGhost(p) \/ SweepFirst(p) \/ SweepNext(p)
  BY <1>0, <1>3 DEF RemoveGhost, SweepFirst, SweepNext, Ranking, Locals
<1>4. CASE Move(p)
  BY <1>0, <1>4 DEF Move, Ranking, Locals
<1>5. CASE Search(p)
  <2>1. \/ thread' = [thread EXCEPT ![p].pc = "step", ![p].dist = @ - 1]
        \/ thread' = [thread EXCEPT ![p].pc = "credit"]
        \/ /\ thread[p].pc = "search"
           /\ thread' = [thread EXCEPT ![p].el = After(fantomes, thread[p].el)]
    BY <1>5 DEF Search, Goto
  <2> QED BY <1>0, <2>1 DEF Ranking, Locals
<1>6. CASE LookFirst(p) \/ Step(p) \/ Credit(p) \/ Free(p) \/ Status(p)
           \/ CountGhosts(p) \/ Announce(p) \/ Quit(p) \/ Leave(p)
  BY <1>0, <1>6 DEF LookFirst, Step, Credit, Free, Status, CountGhosts,
     Announce, Quit, Leave, Goto, Enter, Fresh, Ranking, Locals
<1>7. CASE Sweep(p) \/ Turn(p) \/ Shift(p)
  BY <1>0, <1>7 DEF Sweep, Turn, Shift, NoCollision, Goto, Enter, Fresh,
     Ranking, Locals
<1>8. CASE Look(p) \/ Return(p)
  BY <1>0, <1>8 DEF Look, Return, Goto, Ranking, Locals
<1> QED BY <1>1, <1>2, <1>3, <1>4, <1>5, <1>6, <1>7, <1>8 DEF Player

\* The two outcomes of Compare, ...
LEMMA CompareLocals ==
  ASSUME TypeOK, NEW p \in Joueurs, Compare(p)
  PROVE  LET t == thread[p]
             u == thread'[p]
         IN  /\ t.pc = "compare" /\ UNCHANGED <<joueurs, score>>
             /\ \/ /\ t.i < Len(joueurs) - 1 /\ {t.el, t.vis} \subseteq ToSet(joueurs)
                   /\ u.pc = "compare" /\ u.i = t.i + 1
                   /\ u.el = (IF score[t.vis] > score[t.el] THEN t.vis ELSE t.el)
                   /\ u.vis = After(joueurs, t.vis)
                \/ ~(t.i < Len(joueurs) - 1) /\ u.pc = "announce" /\ u.el = t.el
<1>0. thread \in [Joueurs -> Locals]
  BY DEF TypeOK
<1>1. CASE thread[p].i < Len(joueurs) - 1
  BY <1>0, <1>1 DEF Compare, shared, Locals
<1>2. CASE ~(thread[p].i < Len(joueurs) - 1)
  BY <1>0, <1>2 DEF Compare, Goto, shared, Locals
<1> QED BY <1>1, <1>2

\* ... and those of Best.
LEMMA BestLocals ==
  ASSUME TypeOK, NEW p \in Joueurs, Best(p)
  PROVE  LET u == thread'[p]
         IN  /\ thread[p].pc = "best" /\ UNCHANGED <<joueurs, score>>
             /\ u.el = First(joueurs) /\ u.i = 0
             /\ \/ Len(joueurs) > 1 /\ u.pc = "compare" /\ u.vis = joueurs[2]
                \/ ~(Len(joueurs) > 1) /\ u.pc = "announce"
<1>0. thread \in [Joueurs -> Locals]
  BY DEF TypeOK
<1>1. CASE Len(joueurs) > 1
  BY <1>0, <1>1 DEF Best, shared, Locals
<1>2. CASE ~(Len(joueurs) > 1)
  BY <1>0, <1>2 DEF Best, shared, Locals
<1> QED BY <1>1, <1>2

\* Nobody joins the players.
LEMMA PlayersLeave ==
  ASSUME IInv, Once, NEW p \in Joueurs, Player(p)
  PROVE  /\ Once' /\ ToSet(joueurs') \subseteq ToSet(joueurs)
         /\ Len(joueurs') \in Nat /\ Len(joueurs') <= Len(joueurs)
<1>0. joueurs \in Seq(Joueurs) /\ Len(joueurs) \in Nat
  BY LenProperties DEF IInv, TypeOK
<1>1. CASE Leave(p)
  <2>1. p \in ToSet(joueurs) /\ joueurs' = Without(joueurs, p)
    BY <1>1 DEF Leave, IInv, Present
  <2>2. ToSet(joueurs') = ToSet(joueurs) \ {p} /\ Len(joueurs') = Len(joueurs) - 1
    BY <1>0, <2>1, WithoutOnce, WithoutFacts DEF Once
  <2>3. Len(joueurs') \in Nat /\ Len(joueurs') <= Len(joueurs)
    <3>1. joueurs' \in Seq(Joueurs)
      BY <1>0, <2>1, WithoutFacts
    <3> QED BY <1>0, <2>2, <3>1, LenProperties
  <2> QED BY <1>1, <2>2, <2>3, LeaveStep
<1>2. CASE ~Leave(p)
  <2>1. UNCHANGED joueurs
    BY <1>2 DEF Player, Move, Step, LookFirst, Search, Credit, Free, RemoveGhost,
       Status, CountGhosts, EndGame, Best, Compare, Announce, SweepFirst, Sweep,
       Turn, Shift, Look, Return, SweepNext, Quit, Corrupt, shared
  <2> QED BY <1>0, <2>1 DEF Once
<1> QED BY <1>1, <1>2

\* What is announced stays right, if the comparison that ends here is.
LEMMA RankStep ==
  ASSUME RInv, NEW p \in Joueurs, Player(p),
         Compare(p) /\ thread'[p].pc = "announce" /\ thread[p].el \in ToSet(joueurs)
            => \A q \in ToSet(joueurs) : score[q] <= score[thread[p].el]
  PROVE  RInv'
<1> USE DEF RInv
<1>0. /\ TypeOK /\ joueurs \in Seq(Joueurs) /\ score \in [Joueurs -> Nat]
      /\ \A q \in Joueurs : q # p => thread'[q] = thread[q]
      /\ ToSet(joueurs) \subseteq Joueurs
  BY OthersStay, PlaceFacts DEF IInv, TypeOK
<1>1. IInv'
  BY WalkStep, CheckGhostStep, CaptureStep, EndStep, WinnerStep, SweepStep,
     GhostStep, QuitStep, CorruptStep DEF Player
<1>2. Once' /\ ToSet(joueurs') \subseteq ToSet(joueurs)
  BY PlayersLeave
<1>3. encours = 2 => UNCHANGED <<score, encours>>
  BY NoMorePoints
<1>4. ASSUME NEW q \in Joueurs, thread'[q].pc \in Ranking
      PROVE  encours' = 2
  <2>1. CASE thread[q].pc \in Ranking
    BY <1>3, <2>1 DEF RankedOver
  <2>2. CASE thread[q].pc \notin Ranking
    <3>1. q = p /\ EndGame(p)
      BY <1>0, <1>4, <2>2, RankingFrom DEF Best, Compare, Ranking
    <3> QED BY <3>1 DEF EndGame
  <2> QED BY <2>1, <2>2
<1>5. ASSUME NEW q \in Joueurs, thread'[q].pc = "announce",
             thread'[q].el \in ToSet(joueurs'), NEW r \in ToSet(joueurs')
      PROVE  score'[r] <= score'[thread'[q].el]
  <2>1. CASE thread'[q] = thread[q]
    <3>1. UNCHANGED score
      BY <1>3, <1>5, <2>1 DEF RankedOver, Ranking
    <3> QED BY <1>2, <1>5, <2>1, <3>1 DEF EndgaNamesBest
  <2>2. CASE thread'[q] # thread[q]
    <3>1. q = p /\ (Best(p) \/ Compare(p))
      BY <1>0, <1>5, <2>2, RankingFrom DEF Ranking
    <3>2. CASE Compare(p)
      BY <1>0, <1>5, <3>1, <3>2, CompareLocals
    <3>3. CASE Best(p)
      <4>1. /\ ~(Len(joueurs) > 1) /\ UNCHANGED <<joueurs, score>>
            /\ thread'[p].el = First(joueurs)
        BY <1>0, <1>5, <3>1, <3>3, BestLocals
      <4>2. \A e \in ToSet(joueurs) : e = joueurs[1]
        <5>1. \A k \in DOMAIN joueurs : k = 1
          BY <1>0, <4>1, LenProperties
        <5> QED BY <5>1 DEF ToSet
      <4>3. r = thread'[q].el /\ r \in Joueurs
        BY <1>0, <1>5, <4>1, <4>2
      <4> QED BY <1>0, <4>1, <4>3
    <3> QED BY <3>1, <3>2, <3>3
  <2> QED BY <2>1, <2>2
<1> QED BY <1>1, <1>2, <1>4, <1>5 DEF RankedOver, EndgaNamesBest

LEMMA RankInit == ASSUME Init PROVE RInv
<1>1. \A p \in Joueurs : thread[p].pc = "play"
  BY DEF Init, Fresh
<1> QED BY <1>1, InitInvariant, HuntAssumption
        DEF RInv, Init, Once, RankedOver, EndgaNamesBest, Ranking

\* Of two players, the comparison has first both in hand and then the best.
OfTwo(t) ==
    t.pc = "compare" =>
        IF t.i = 0 THEN ToSet(joueurs) \subseteq {t.el, t.vis}
                   ELSE \A q \in ToSet(joueurs) : score[q] <= score[t.el]

\* getWinner, two players: none of those still in the game has more points
\* than the one ENDGA names, whoever leaves during the comparison.
THEOREM EndgaNamesBestOfTwo ==
  ASSUME Len(JoueurList) <= 2
  PROVE  Spec => []EndgaNamesBest
<1> DEFINE Inv == RInv /\ Len(joueurs) <= 2 /\ \A p \in Joueurs : OfTwo(thread[p])
<1>1. Init => Inv
  <2> SUFFICES ASSUME Init PROVE Inv
    OBVIOUS
  <2>1. \A p \in Joueurs : thread[p].pc = "play"
    BY DEF Init, Fresh
  <2>2. Len(joueurs) <= 2
    BY DEF Init
  <2> QED BY <2>1, <2>2, RankInit DEF OfTwo
<1>2. Inv /\ [Next]_vars => Inv'
  <2> SUFFICES ASSUME Inv, [Next]_vars PROVE Inv'
    OBVIOUS
  <2>1. ASSUME NEW p \in Joueurs, Player(p) PROVE Inv'
    <3>0. /\ TypeOK /\ IInv /\ Once /\ joueurs \in Seq(Joueurs)
          /\ Len(joueurs) \in 0 .. 2 /\ DOMAIN joueurs = 1 .. Len(joueurs)
          /\ score \in [Joueurs -> Nat] /\ ToSet(joueurs) \subseteq Joueurs
          /\ \A q \in Joueurs : thread[q].i \in Nat
          /\ \A q \in Joueurs : q # p => thread'[q] = thread[q]
      <4>1. /\ TypeOK /\ IInv /\ Once /\ joueurs \in Seq(Joueurs)
            /\ score \in [Joueurs -> Nat]
        BY DEF RInv, IInv, TypeOK
      <4>2. Len(joueurs) \in 0 .. 2 /\ DOMAIN joueurs = 1 .. Len(joueurs)
        <5>1. Len(joueurs) \in Nat /\ DOMAIN joueurs = 1 .. Len(joueurs)
          BY <4>1, LenProperties
        <5>2. Len(joueurs) <= 2
          OBVIOUS
        <5> QED BY <5>1, <5>2
      <4> QED BY <2>1, <4>1, <4>2, OthersStay, PlaceFacts, MyLocals
    <3>1. /\ ToSet(joueurs') \subseteq ToSet(joueurs) /\ Len(joueurs') <= Len(joueurs)
          /\ encours = 2 => UNCHANGED score
      BY <2>1, <3>0, PlayersLeave, NoMorePoints
    <3>2. Len(joueurs') <= 2
      BY <2>1, <3>0, PlayersLeave
    <3>3. RInv'
      <4>1. ASSUME Compare(p), thread'[p].pc = "announce",
                   thread[p].el \in ToSet(joueurs), NEW q \in ToSet(joueurs)
            PROVE  score[q] <= score[thread[p].el]
        <5>1. thread[p].pc = "compare" /\ ~(thread[p].i < Len(joueurs) - 1)
          BY <3>0, <4>1, CompareLocals
        <5>2. CASE thread[p].i # 0
          BY <5>1, <5>2 DEF OfTwo
        <5>3. CASE thread[p].i = 0
          <6>1. DOMAIN joueurs \subseteq {1}
            BY <3>0, <5>1, <5>3
          <6>2. q = thread[p].el /\ q \in Joueurs
            BY <3>0, <4>1, <6>1 DEF ToSet
          <6> QED BY <3>0, <6>2
        <5> QED BY <5>2, <5>3
      <4> QED BY <2>1, <4>1, RankStep
    <3>4. ASSUME NEW q \in Joueurs, thread'[q].pc = "compare"
          PROVE  OfTwo(thread[q])'
      <4>1. CASE thread'[q] = thread[q]
        <5>1. UNCHANGED score
          BY <3>1, <3>4, <4>1 DEF RInv, RankedOver, Ranking
        <5> QED BY <3>1, <3>4, <4>1, <5>1 DEF OfTwo
      <4>2. CASE thread'[q] # thread[q]
        <5>1. q = p /\ (Best(p) \/ Compare(p))
          BY <2>1, <3>0, <3>4, <4>2, RankingFrom DEF Ranking
        <5>2. CASE Best(p)
          <6>1. /\ Len(joueurs) = 2 /\ UNCHANGED joueurs /\ thread'[p].i = 0
                /\ thread'[p].el = joueurs[1] /\ thread'[p].vis = joueurs[2]
            BY <3>0, <3>4, <5>1, <5>2, BestLocals DEF First
          <6>2. DOMAIN joueurs = {1, 2}
            BY <3>0, <6>1
          <6> QED BY <5>1, <6>1, <6>2 DEF OfTwo, ToSet
        <5>3. CASE Compare(p)
          <6> DEFINE t == thread[p]
          <6>1. /\ t.pc = "compare" /\ UNCHANGED <<joueurs, score>>
                /\ t.i < Len(joueurs) - 1 /\ {t.el, t.vis} \subseteq ToSet(joueurs)
                /\ thread'[p].i = t.i + 1
                /\ thread'[p].el = (IF score[t.vis] > score[t.el] THEN t.vis ELSE t.el)
            BY <3>0, <3>4, <5>1, <5>3, CompareLocals
          <6>2. t.i = 0
            BY <3>0, <6>1
          <6>3. ToSet(joueurs) \subseteq {t.el, t.vis}
            BY <6>1, <6>2 DEF OfTwo
          <6>4. score[t.el] \in Nat /\ score[t.vis] \in Nat
            BY <3>0, <6>1
          <6> QED BY <5>1, <6>1, <6>2, <6>3, <6>4 DEF OfTwo
        <5> QED BY <5>1, <5>2, <5>3
      <4> QED BY <4>1, <4>2
    <3>5. \A q \in Joueurs : OfTwo(thread[q])'
      BY <3>4 DEF OfTwo
    <3> QED BY <3>2, <3>3, <3>5
  <2>2. CASE UNCHANGED vars
    <3>1. IInv'
      BY <2>2, StutterStep DEF RInv
    <3> QED BY <2>2, <3>1 DEF vars, shared, RInv, Once, RankedOver,
               EndgaNamesBest, OfTwo
  <2> QED BY <2>1, <2>2 DEF Next
<1>3. Inv => EndgaNamesBest
  BY DEF RInv
<1> QED BY <1>1, <1>2, <1>3, PTL DEF Spec

\* Of any number, the comparison has the best of those it has passed in hand,
\* and the next one in sight, while nobody leaves.
OfAll(t) ==
    t.pc = "compare" =>
        /\ \A k \in 1 .. Len(joueurs) : k <= t.i + 1 => score[joueurs[k]] <= score[t.el]
        /\ t.i + 2 <= Len(joueurs) => t.vis = joueurs[t.i + 2]

\* Nobody leaves while a thread compares.
AllStay == [][(\E p \in Joueurs : thread[p].pc = "compare") => UNCHANGED joueurs]_vars

\* getWinner, any number of players: ENDGA names one with the most points
\* unless a player leaves during the comparison.
THEOREM EndgaNamesBestOfAll == Spec /\ AllStay => []EndgaNamesBest
<1> DEFINE Inv  == RInv /\ \A p \in Joueurs : OfAll(thread[p])
           Stay == (\E p \in Joueurs : thread[p].pc = "compare") => UNCHANGED joueurs
<1>1. Init => Inv
  <2> SUFFICES ASSUME Init PROVE Inv
    OBVIOUS
  <2>1. \A p \in Joueurs : thread[p].pc = "play"
    BY DEF Init, Fresh
  <2> QED BY <2>1, RankInit DEF OfAll
<1>2. Inv /\ [Next]_vars /\ [Stay]_vars => Inv'
  <2> SUFFICES ASSUME Inv, [Next]_vars, [Stay]_vars PROVE Inv'
    OBVIOUS
  <2>1. CASE UNCHANGED vars
    <3>1. IInv'
      BY <2>1, StutterStep DEF RInv
    <3> QED BY <2>1, <3>1 DEF vars, shared, RInv, Once, RankedOver,
               EndgaNamesBest, OfAll
  <2>2. ASSUME NEW p \in Joueurs, Player(p), Stay PROVE Inv'
    <3>0. /\ TypeOK /\ IInv /\ Once /\ joueurs \in Seq(Joueurs)
          /\ Len(joueurs) \in Nat /\ DOMAIN joueurs = 1 .. Len(joueurs)
          /\ score \in [Joueurs -> Nat] /\ ToSet(joueurs) \subseteq Joueurs
          /\ \A k \in 1 .. Len(joueurs) : joueurs[k] \in Joueurs
          /\ \A q \in Joueurs : thread[q].i \in Nat
          /\ \A q \in Joueurs : q # p => thread'[q] = thread[q]
      <4>1. /\ TypeOK /\ IInv /\ Once /\ joueurs \in Seq(Joueurs)
            /\ score \in [Joueurs -> Nat]
        BY DEF RInv, IInv, TypeOK
      <4>2. /\ Len(joueurs) \in Nat /\ DOMAIN joueurs = 1 .. Len(joueurs)
            /\ \A k \in 1 .. Len(joueurs) : joueurs[k] \in Joueurs
        BY <4>1, LenProperties, ElementOfSeq
      <4> QED BY <2>2, <4>1, <4>2, OthersStay, PlaceFacts, MyLocals
    <3>1. encours = 2 => UNCHANGED score
      BY <2>2, <3>0, NoMorePoints
    <3>2. RInv'
      <4>1. ASSUME Compare(p), thread'[p].pc = "announce",
                   thread[p].el \in ToSet(joueurs), NEW q \in ToSet(joueurs)
            PROVE  score[q] <= score[thread[p].el]
        <5>1. thread[p].pc = "compare" /\ ~(thread[p].i < Len(joueurs) - 1)
          BY <3>0, <4>1, CompareLocals
        <5>2. PICK k \in 1 .. Len(joueurs) : joueurs[k] = q
          BY <3>0 DEF ToSet
        <5>3. k <= thread[p].i + 1
          BY <3>0, <5>1
        <5> QED BY <5>1, <5>2, <5>3 DEF OfAll
      <4> QED BY <2>2, <4>1, RankStep
    <3>3. ASSUME NEW q \in Joueurs, thread'[q].pc = "compare"
          PROVE  OfAll(thread[q])'
      <4>1. CASE thread'[q] = thread[q]
        <5>1. UNCHANGED <<score, joueurs>>
          BY <2>2, <3>1, <3>3, <4>1 DEF RInv, RankedOver, Ranking
        <5> QED BY <3>3, <4>1, <5>1 DEF OfAll
      <4>2. CASE thread'[q] # thread[q]
        <5>1. q = p /\ (Best(p) \/ Compare(p))
          BY <2>2, <3>0, <3>3, <4>2, RankingFrom DEF Ranking
        <5>2. CASE Best(p)
          <6>1. /\ Len(joueurs) > 1 /\ UNCHANGED <<joueurs, score>>
                /\ thread'[p].i = 0 /\ thread'[p].vis = joueurs[2]
                /\ thread'[p].el = First(joueurs)
            BY <3>0, <3>3, <5>1, <5>2, BestLocals
          <6>2. First(joueurs) = joueurs[1] /\ 1 \in 1 .. Len(joueurs)
            BY <3>0, <6>1 DEF First
          <6>3. \A k \in 1 .. Len(joueurs) : k <= 1 => k = 1
            OBVIOUS
          <6>4. score[joueurs[1]] <= score[joueurs[1]]
            BY <3>0, <6>2
          <6> QED BY <5>1, <6>1, <6>2, <6>3, <6>4 DEF OfAll
        <5>3. CASE Compare(p)
          <6> DEFINE t == thread[p]
                     i == t.i
          <6>1. /\ t.pc = "compare" /\ UNCHANGED <<joueurs, score>>
                /\ i < Len(joueurs) - 1 /\ {t.el, t.vis} \subseteq ToSet(joueurs)
                /\ thread'[p].i = i + 1
                /\ thread'[p].el = (IF score[t.vis] > score[t.el] THEN t.vis ELSE t.el)
                /\ thread'[p].vis = After(joueurs, t.vis)
            BY <3>0, <3>3, <5>1, <5>3, CompareLocals
          <6>2. i \in Nat /\ i + 2 \in 1 .. Len(joueurs) /\ t.vis = joueurs[i + 2]
            <7>1. i \in Nat /\ i < Len(joueurs) - 1 /\ Len(joueurs) \in Nat
              BY <3>0, <6>1
            <7>2. i + 2 \in 1 .. Len(joueurs) /\ i + 2 <= Len(joueurs)
              <8> HIDE DEF i
              <8> QED BY <7>1
            <7> QED BY <6>1, <7>1, <7>2 DEF OfAll
          <6>3. score[t.el] \in Nat /\ score[t.vis] \in Nat
            BY <3>0, <6>1
          <6>4. ASSUME NEW k \in 1 .. Len(joueurs), k <= i + 2
                PROVE  score[joueurs[k]] <= score[thread'[p].el]
            <7>1. CASE k = i + 2
              BY <6>1, <6>2, <6>3, <7>1
            <7>2. CASE k # i + 2
              <8>1. k <= i + 1
                BY <6>2, <6>4, <7>2
              <8>2. score[joueurs[k]] <= score[t.el]
                BY <6>1, <8>1 DEF OfAll
              <8>3. score[joueurs[k]] \in Nat
                BY <3>0
              <8> QED BY <6>1, <6>3, <8>2, <8>3
            <7> QED BY <7>1, <7>2
          <6>5. ASSUME i + 3 <= Len(joueurs)
                PROVE  thread'[p].vis = joueurs[i + 3]
            <7>1. Place(joueurs, t.vis) = i + 2
              BY <3>0, <6>2, PlaceIs DEF Once
            <7>2. i + 2 # Len(joueurs) /\ (i + 2) + 1 = i + 3
              BY <3>0, <6>2, <6>5
            <7> QED BY <6>1, <7>1, <7>2 DEF After
          <6>6. (i + 1) + 1 = i + 2 /\ (i + 1) + 2 = i + 3
            BY <6>2
          <6> HIDE DEF i
          <6> QED BY <5>1, <6>1, <6>4, <6>5, <6>6 DEF OfAll
        <5> QED BY <5>1, <5>2, <5>3
      <4> QED BY <4>1, <4>2
    <3>4. \A q \in Joueurs : OfAll(thread[q])'
      BY <3>3 DEF OfAll
    <3> QED BY <3>2, <3>4
  <2>3. CASE Stay /\ ~UNCHANGED vars
    BY <2>2, <2>3 DEF Next
  <2> QED BY <2>1, <2>3
<1>3. Inv => EndgaNamesBest
  BY DEF RInv
<1> QED BY <1>1, <1>2, <1>3, PTL DEF Spec, AllStay

-----------------------------------------------------------------------------
(* What the players were credited with.                                    *)

\* What every step of a thread keeps.
LEMMA StepsKeep ==
  ASSUME IInv, GhostsOnce, NEW p \in Joueurs, Player(p)
  PROVE  IInv' /\ GhostsOnce'
<1>1. IInv'
  BY WalkStep, CheckGhostStep, CaptureStep, EndStep, WinnerStep, SweepStep,
     GhostStep, QuitStep, CorruptStep DEF Player
<1>2. CASE RemoveGhost(p)
  BY <1>1, <1>2, WithoutOnce DEF RemoveGhost, GhostsOnce, IInv, TypeOK
<1>3. CASE ~RemoveGhost(p)
  BY <1>1, <1>3, OthersStay DEF GhostsOnce, IInv
<1> QED BY <1>1, <1>2, <1>3

LEMMA ListedFinite ==
  ASSUME NEW S, NEW s \in Seq(S)
  PROVE  IsFiniteSet(ToSet(s))
<1>1. IsFiniteSet(1 .. Len(s))
  BY LenProperties, FS_Interval
<1>2. s \in Surjection(1 .. Len(s), ToSet(s))
  BY LenProperties DEF ToSet, Surjection
<1> QED
  BY <1>1, <1>2, FS_Surjection

\* A ghost has its points.
LEMMA PointsAreInt ==
  ASSUME NEW g \in Fantomes
  PROVE  Points(g) \in Int
<1>1. Place(FantomeList, g) \in 1 .. Len(FantomeList)
  BY HuntAssumption, PlaceFacts DEF Fantomes
<1>2. Len(FantomeList) \in Nat
  BY HuntAssumption, LenProperties
<1>3. ASSUME NEW k \in Int PROVE (IF k = 1 THEN 15 ELSE 15 * (((k - 2) % 4) + 1)) \in Int
  OBVIOUS
<1> QED
  BY <1>1, <1>2, <1>3 DEF Points

LEMMA PointsMore ==
  ASSUME NEW C \in SUBSET Fantomes, IsFiniteSet(C), NEW g \in Fantomes \ C
  PROVE  SumFunction([h \in C \cup {g} |-> Points(h)])
            = SumFunction([h \in C |-> Points(h)]) + Points(g)
<1> DEFINE f == [h \in C |-> Points(h)]
           e == [h \in C \cup {g} |-> Points(h)]
<1>1. \A h \in C \cup {g} : Points(h) \in Int
  BY PointsAreInt
<1>2. f \in [C -> Int] /\ e \in [C \cup {g} -> Int] /\ e[g] = Points(g)
  BY <1>1
<1>3. \A h \in C : e[h] = f[h]
  OBVIOUS
<1>4. g \notin C
  OBVIOUS
<1> HIDE DEF e, f
<1>5. SumFunction(e) = SumFunction(f) + e[g]
  BY <1>2, <1>3, <1>4, SumMore
<1> QED
  BY <1>2, <1>5 DEF e, f

\* Nobody is about to be credited with a ghost of which another player has the
\* points and that is not freed yet.
OneCatcher ==
    \A p, q \in Joueurs : thread[p].pc = "credit" /\ thread[q].pc = "free"
                              => thread[p].el # thread[q].el

Held == {"free", "remove"}

\* Nothing but the three steps of a capture begins or ends one.
LEMMA OtherSteps ==
  ASSUME TypeOK, NEW p \in Joueurs, Player(p),
         ~Credit(p), ~Free(p), ~RemoveGhost(p)
  PROVE  \/ thread'[p] = thread[p]
         \/ thread[p].pc \notin Held /\ thread'[p].pc \notin Held
<1>0. thread \in [Joueurs -> Locals]
  BY DEF TypeOK
<1>1. Corrupt(p) \/ thread[p].pc \notin Held
  BY DEF Player, Move, Step, LookFirst, Search, Status, CountGhosts, EndGame,
         Best, Compare, Announce, SweepFirst, Sweep, Turn, Shift, Look, Return,
         SweepNext, Quit, Leave, Held
<1>2. ASSUME ~Corrupt(p) PROVE thread'[p].pc \notin Held
  <2> USE DEF Goto, Enter, Fresh, Held
  <2>1. CASE Move(p)
    BY <1>0, <2>1 DEF Move, Locals
  <2>2. CASE Search(p)
    <3>1. \/ thread' = [thread EXCEPT ![p].pc = "step", ![p].dist = @ - 1]
          \/ thread' = [thread EXCEPT ![p].pc = "credit"]
          \/ /\ thread[p].pc = "search"
             /\ thread' = [thread EXCEPT ![p].el = After(fantomes, thread[p].el)]
      BY <2>2 DEF Search
    <3> QED BY <1>0, <3>1 DEF Locals
  <2>3. CASE LookFirst(p) \/ Step(p) \/ Status(p) \/ CountGhosts(p)
             \/ Announce(p) \/ Quit(p) \/ Leave(p)
    BY <1>0, <2>3 DEF LookFirst, Step, Status, CountGhosts, Announce, Quit,
       Leave, Locals
  <2>4. CASE EndGame(p)
    BY <1>0, <2>4 DEF EndGame, Locals
  <2>5. CASE Best(p)
    BY <2>5, BestLocals
  <2>6. CASE Compare(p)
    BY <2>6, CompareLocals
  <2>7. CASE SweepFirst(p) \/ SweepNext(p)
    BY <1>0, <2>7 DEF SweepFirst, SweepNext, Locals
  <2>8. CASE Sweep(p) \/ Turn(p) \/ Shift(p)
    BY <1>0, <2>8 DEF Sweep, Turn, Shift, NoCollision, Locals
  <2>9. CASE Look(p) \/ Return(p)
    BY <1>0, <2>9 DEF Look, Return, Locals
  <2> QED BY <1>2, <2>1, <2>2, <2>3, <2>4, <2>5, <2>6, <2>7, <2>8, <2>9 DEF Player
<1> QED BY <1>1, <1>2 DEF Corrupt

\* Only a credit adds to the ghosts that were caught, and it adds one.
LEMMA CreditedStep ==
  ASSUME IInv, GhostsOnce, OneCatcher, NEW p \in Joueurs, Player(p)
  PROVE  /\ Credited \in SUBSET Fantomes
         /\ ~Credit(p) => Credited' = Credited /\ UNCHANGED score
         /\ Credit(p) =>
               /\ thread[p].el \in Fantomes \ Credited
               /\ Credited' = Credited \cup {thread[p].el}
               /\ score' = [score EXCEPT ![p] = @ + Points(thread[p].el)]
<1> DEFINE g == thread[p].el
<1>0. /\ TypeOK /\ thread \in [Joueurs -> Locals]
      /\ ToSet(fantomes) \subseteq Fantomes
      /\ \A q \in Joueurs : q # p => thread'[q] = thread[q]
      /\ ~RemoveGhost(p) => UNCHANGED fantomes
  BY PlaceFacts, OthersStay DEF IInv, TypeOK
<1>1. \A q \in Joueurs :
        /\ thread[q].pc \in Held \/ thread[q].pc = "credit" => thread[q].el \in Fantomes
        /\ thread[q].pc = "remove" => thread[q].el \in freed
  BY DEF IInv, ThreadsKnow, Knows, Held
<1>2. \A h : h \in Credited <=> \/ h \in Fantomes \ ToSet(fantomes)
                               \/ \E q \in Joueurs : thread[q].pc \in Held /\ thread[q].el = h
  BY DEF Credited, Held
<1>3. \A h : h \in Credited' <=> \/ h \in Fantomes \ ToSet(fantomes')
                                \/ \E q \in Joueurs : thread'[q].pc \in Held /\ thread'[q].el = h
  BY DEF Credited, Held
<1>4. Credited \in SUBSET Fantomes
  BY <1>1, <1>2
<1>5. ASSUME Credit(p)
      PROVE  /\ g \in Fantomes \ Credited
             /\ Credited' = Credited \cup {g}
             /\ score' = [score EXCEPT ![p] = @ + Points(g)]
  <2>1. /\ thread[p].pc = "credit" /\ g \notin freed /\ UNCHANGED <<fantomes, freed>>
        /\ thread'[p].pc = "free" /\ thread'[p].el = g
    BY <1>0, <1>5 DEF Credit, Goto, Locals
  <2>2. g \in Fantomes /\ g \in ToSet(fantomes)
    BY <1>1, <2>1 DEF IInv, ListedOrFreed
  <2>3. g \notin Credited
    BY <1>1, <1>2, <2>1, <2>2 DEF OneCatcher, Held
  <2>4. ASSUME NEW h PROVE h \in Credited' <=> h \in Credited \cup {g}
    BY <1>0, <1>2, <1>3, <2>1 DEF Held
  <2> QED BY <1>5, <2>2, <2>3, <2>4 DEF Credit
<1>6. ASSUME ~Credit(p)
      PROVE  Credited' = Credited /\ UNCHANGED score
  <2>1. UNCHANGED score
    BY <1>6 DEF Player, Move, Step, LookFirst, Search, Free, RemoveGhost,
       Status, CountGhosts, EndGame, Best, Compare, Announce, SweepFirst,
       Sweep, Turn, Shift, Look, Return, SweepNext, Quit, Leave, Corrupt, shared
  <2>2. CASE Free(p)
    <3>1. /\ thread[p].pc = "free" /\ UNCHANGED fantomes
          /\ thread'[p].pc = "remove" /\ thread'[p].el = g
      BY <1>0, <2>2 DEF Free, Goto, Locals
    <3> QED BY <1>0, <1>2, <1>3, <2>1, <3>1 DEF Held
  <2>3. CASE RemoveGhost(p)
    <3>1. /\ thread[p].pc = "remove" /\ g \in ToSet(fantomes)
          /\ thread'[p].pc = "step" /\ fantomes' = Without(fantomes, g)
      BY <1>0, <2>3 DEF RemoveGhost, Locals
    <3>2. ToSet(fantomes') = ToSet(fantomes) \ {g}
      BY <1>0, <3>1, WithoutOnce DEF GhostsOnce, TypeOK
    <3>3. g \in Fantomes
      BY <1>0, <3>1
    <3>4. ASSUME NEW h PROVE h \in Credited' <=> h \in Credited
      BY <1>0, <1>2, <1>3, <3>1, <3>2, <3>3 DEF Held
    <3> QED BY <2>1, <3>4
  <2>4. CASE ~Free(p) /\ ~RemoveGhost(p)
    <3>1. \/ thread'[p] = thread[p]
          \/ thread[p].pc \notin Held /\ thread'[p].pc \notin Held
      BY <1>0, <1>6, <2>4, OtherSteps
    <3>2. ASSUME NEW h PROVE h \in Credited' <=> h \in Credited
      BY <1>0, <1>2, <1>3, <2>4, <3>1
    <3> QED BY <2>1, <3>2
  <2> QED BY <2>2, <2>3, <2>4
<1> QED
  BY <1>4, <1>5, <1>6

PInv == IInv /\ GhostsOnce /\ Credited \in SUBSET Fantomes /\ ScoresAddUp

LEMMA PointsStep ==
  ASSUME PInv, OneCatcher, NEW p \in Joueurs, Player(p)
  PROVE  Credited' \in SUBSET Fantomes /\ ScoresAddUp'
<1>0. /\ IsFiniteSet(Joueurs) /\ IsFiniteSet(Fantomes) /\ IsFiniteSet(Credited)
      /\ score \in [Joueurs -> Int]
  <2>1. IsFiniteSet(Joueurs) /\ IsFiniteSet(Fantomes)
    BY HuntAssumption, ListedFinite DEF Joueurs, Fantomes
  <2>2. score \in [Joueurs -> Nat] /\ Nat \subseteq Int
    BY DEF PInv, IInv, TypeOK
  <2> QED BY <2>1, <2>2, FS_Subset DEF PInv
<1>1. CASE ~Credit(p)
  BY <1>1, CreditedStep DEF ScoresAddUp, PInv
<1>2. CASE Credit(p)
  <2>1. PICK g \in Fantomes \ Credited :
           /\ Credited' = Credited \cup {g}
           /\ score' = [score EXCEPT ![p] = @ + Points(g)]
    BY <1>2, CreditedStep DEF PInv
  <2>2. Points(g) \in Int /\ score[p] \in Int /\ score[p] + Points(g) \in Int
    BY <1>0, PointsAreInt
  <2>3. /\ score' \in [Joueurs -> Int]
        /\ score'[p] = score[p] + Points(g)
        /\ \A q \in Joueurs \ {p} : score'[q] = score[q]
    BY <1>0, <2>1, <2>2
  <2>4. /\ SumFunction(score) \in Int
        /\ SumFunction(score') = SumFunction(score) - score[p] + score'[p]
    BY <1>0, <2>3, SumChange
  <2> DEFINE f == [h \in Credited |-> Points(h)]
             e == [h \in Credited \cup {g} |-> Points(h)]
  <2>5. SumFunction(e) = SumFunction(f) + Points(g)
    BY <1>0, PointsMore DEF PInv
  <2>6. SumFunction(score) = SumFunction(f)
    BY DEF ScoresAddUp, PInv
  <2>7. SumFunction(score') = SumFunction(e)
    <3>1. PICK m \in Int : m = SumFunction(score) /\ m = SumFunction(f)
      BY <2>4, <2>6
    <3>2. SumFunction(score') = m - score[p] + (score[p] + Points(g))
      BY <2>3, <2>4, <3>1
    <3>3. SumFunction(e) = m + Points(g)
      BY <2>5, <3>1
    <3>4. m - score[p] + (score[p] + Points(g)) = m + Points(g)
      BY <2>2, <3>1
    <3> QED BY <3>2, <3>3, <3>4
  <2>8. e = [h \in Credited' |-> Points(h)]
    BY <2>1
  <2> QED BY <2>1, <2>7, <2>8 DEF ScoresAddUp, PInv
<1> QED BY <1>1, <1>2

\* Together the players have the points of the ghosts that were caught, if
\* between the addition of its points and the moment it is freed a ghost is not
\* credited again (check_ghost finds it without the lock).
THEOREM ScoresAddUpHolds == Spec /\ []OneCatcher => []ScoresAddUp
<1>1. Init => PInv
  <2> SUFFICES ASSUME Init PROVE PInv
    OBVIOUS
  <2>1. IInv /\ GhostsOnce
    BY InitInvariant, HuntAssumption DEF Init, GhostsOnce
  <2>2. Credited = {}
    BY DEF Init, Fresh, Credited, Fantomes
  <2>3. IsFiniteSet(Joueurs)
    BY HuntAssumption, ListedFinite DEF Joueurs
  <2>4. SumFunction(score) = 0
    BY <2>3, SumZero DEF Init
  <2>5. SumFunction([g \in Credited |-> Points(g)]) = 0
    <3>1. [g \in Credited |-> Points(g)] = [g \in {} |-> 0]
      BY <2>2
    <3> QED BY <3>1, SumZero, FS_EmptySet
  <2> QED BY <2>1, <2>2, <2>4, <2>5 DEF PInv, ScoresAddUp
<1>2. PInv /\ OneCatcher /\ [Next]_vars => PInv'
  <2> SUFFICES ASSUME PInv, OneCatcher, [Next]_vars PROVE PInv'
    OBVIOUS
  <2>1. ASSUME NEW p \in Joueurs, Player(p) PROVE PInv'
    <3>1. IInv' /\ GhostsOnce'
      BY <2>1, StepsKeep DEF PInv
    <3> QED BY <2>1, <3>1, PointsStep DEF PInv
  <2>2. CASE UNCHANGED vars
    <3>1. IInv'
      BY <2>2, StutterStep DEF PInv
    <3> QED BY <2>2, <3>1 DEF vars, shared, PInv, GhostsOnce, ScoresAddUp, Credited
  <2> QED BY <2>1, <2>2 DEF Next
<1>3. PInv => ScoresAddUp
  BY DEF PInv
<1> QED BY <1>1, <1>2, <1>3, PTL DEF Spec

\* Who sends no moves is in none of the functions above.
Idle == \A p \in Joueurs \ Movers : thread[p].pc \in {"play", "quit", "gone"}

LEMMA IdleHolds == Spec => [](IInv /\ Idle)
<1> USE DEF Idle
<1>1. Init => IInv /\ Idle
  <2> SUFFICES ASSUME Init PROVE IInv /\ Idle
    OBVIOUS
  <2>1. \A p \in Joueurs : thread[p].pc = "play"
    BY DEF Init, Fresh
  <2> QED BY <2>1, InitInvariant
<1>2. IInv /\ Idle /\ [Next]_vars => IInv' /\ Idle'
  <2> SUFFICES ASSUME IInv, Idle, [Next]_vars PROVE IInv' /\ Idle'
    OBVIOUS
  <2>1. ASSUME NEW p \in Joueurs, Player(p) PROVE IInv' /\ Idle'
    <3>1. IInv'
      BY <2>1, WalkStep, CheckGhostStep, CaptureStep, EndStep, WinnerStep,
         SweepStep, GhostStep, QuitStep, CorruptStep DEF Player
    <3>2. ASSUME NEW q \in Joueurs \ Movers
          PROVE  thread'[q].pc \in {"play", "quit", "gone"}
      <4>1. CASE q # p
        BY <2>1, <3>2, <4>1, OthersStay DEF IInv
      <4>2. CASE q = p
        <5>1. Quit(p) \/ Leave(p) \/ Corrupt(p)
          BY <2>1, <3>2, <4>2
          DEF Player, Move, Step, LookFirst, Search, Credit, Free, RemoveGhost,
              Status, CountGhosts, EndGame, Best, Compare, Announce,
              SweepFirst, Sweep, Turn, Shift, Look, Return, SweepNext
        <5> QED BY <3>2, <4>2, <5>1
                DEF Quit, Leave, Corrupt, Goto, IInv, TypeOK, Locals
      <4> QED BY <4>1, <4>2
    <3> QED BY <3>1, <3>2
  <2>2. CASE UNCHANGED vars
    BY <2>2, StutterStep DEF vars
  <2> QED BY <2>1, <2>2 DEF Next
<1> QED BY <1>1, <1>2, PTL DEF Spec

\* So it is when only one player sends moves.
THEOREM ScoresAddUpAlone ==
  ASSUME \A p, q \in Movers : p = q
  PROVE  Spec => []ScoresAddUp
<1>1. IInv /\ Idle => OneCatcher
  BY DEF Idle, OneCatcher
<1> QED BY <1>1, IdleHolds, ScoresAddUpHolds, PTL
=============================================================================
