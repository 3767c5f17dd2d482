------------------------- MODULE PlacementProofs -------------------------
(***************************************************************************)
(* Proofs that TLAPS checks about Placement: for any number of players,    *)
(* any labyrinth and any depth of the recursion, players that have been    *)
(* placed are on different cells, away from the ghosts, which are          *)
(* themselves on different cells.                                          *)
(***************************************************************************)
EXTENDS Placement, SequenceTheorems, TLAPS

\* The stack of suspended calls stays a sequence of sets of players.
LEMMA PopType ==
  ASSUME NEW S, NEW s \in Seq(S), s # <<>>
  PROVE  SubSeq(s, 1, Len(s) - 1) \in Seq(S) /\ s[Len(s)] \in S
<1>1. Len(s) \in Nat /\ Len(s) # 0 /\ DOMAIN s = 1 .. Len(s)
  BY EmptySeq, LenProperties
<1>2. \A i \in 1 .. Len(s) - 1 : s[i] \in S
  BY <1>1, ElementOfSeq
<1> QED BY <1>1, <1>2, SubSeqProperties, ElementOfSeq

LEMMA RecurseType ==
  ASSUME TypeOK, NEW p \in Joueurs, NEW apres \in SUBSET Joueurs,
         Recurse(p, apres)
  PROVE  /\ appels' \in [Joueurs -> Seq(SUBSET Joueurs)]
         /\ pc' = [pc EXCEPT ![p] = "draw"]
<1>1. Append(appels[p], apres) \in Seq(SUBSET Joueurs)
  BY AppendProperties DEF TypeOK
<1> QED BY <1>1 DEF TypeOK, Recurse

LEMMA InitInvariant == ASSUME Init PROVE IInv
<1>1. TypeOK /\ SomeoneWillSee /\ WalkSees /\ GhostsFirst
  BY DEF Init, TypeOK, SomeoneWillSee, WalkSees, Coordinates, GhostsFirst
<1>2. Creation!IInv
  BY EmptySeq DEF Init, Creation!Init, Creation!IInv, Creation!TypeOK,
     Creation!Apart, Creation!WalkSees, Creation!Locals
<1> QED BY <1>1, <1>2 DEF IInv

-----------------------------------------------------------------------------
(* The ghosts are placed.                                                  *)

LEMMA CreationStep ==
  ASSUME Creation!IInv, Creation!Next
  PROVE  Creation!IInv' /\ ~Creation!Done
<1> USE PlacementAssumption DEF Creation!IInv, Creation!Done
<1> DEFINE n == Len(fantomes)
           c == creator
<1>0. /\ n \in Nat /\ c \in Creation!Locals /\ fantomes \in Seq(Sol)
      /\ c.el \in Nat \ {0} /\ c.calls \in Seq(Nat \ {0}) /\ c.r \in Nat
  BY LenProperties DEF Creation!TypeOK, Creation!Locals
<1>1. CASE Creation!Draw
  <2>1. /\ c.pc = "draw" /\ fantome' \in Sol /\ UNCHANGED fantomes
        /\ creator' = [c EXCEPT !.pc = "walk", !.el = 1]
    BY <1>1 DEF Creation!Draw
  <2> DEFINE u == [c EXCEPT !.pc = "walk", !.el = 1]
  <2>2. creator' \in Creation!Locals /\ creator'.el = 1 /\ creator'.r = c.r
    <3>1. u \in Creation!Locals /\ u.el = 1 /\ u.r = c.r
      BY <1>0, 1 \in Nat \ {0} DEF Creation!Locals
    <3> QED BY <2>1, <3>1
  <2>3. Creation!TypeOK' /\ Creation!Apart'
    BY <2>1, <2>2 DEF Creation!TypeOK, Creation!Apart
  <2>4. Creation!WalkSees'
    BY <2>1, <2>2 DEF Creation!WalkSees
  <2> QED BY <2>1, <2>3, <2>4
<1>2. CASE Creation!Look
  <2>1. /\ c.pc = "walk" /\ c.el <= n /\ UNCHANGED <<fantomes, fantome>>
    BY <1>2 DEF Creation!Look
  <2>2. CASE /\ fantomes[c.el] # fantome
             /\ creator' = [c EXCEPT !.el = @ + 1]
    <3>1. /\ creator' \in Creation!Locals /\ creator'.el = c.el + 1
          /\ creator'.r = c.r /\ creator'.pc = "walk"
      <4> DEFINE u == [c EXCEPT !.el = c.el + 1]
      <4>1. c.el + 1 \in Nat \ {0}
        BY <1>0
      <4>2. u \in Creation!Locals /\ u.el = c.el + 1 /\ u.r = c.r /\ u.pc = c.pc
        BY <1>0, <4>1 DEF Creation!Locals
      <4> QED BY <2>1, <2>2, <4>2
    <3>2. Creation!TypeOK' /\ Creation!Apart'
      BY <2>1, <3>1 DEF Creation!TypeOK, Creation!Apart
    <3>3. Creation!WalkSees'
      <4>1. \A k \in 1 .. n : k < c.el + 1 => k < c.el \/ k = c.el
        BY <1>0
      <4>2. \A k \in 1 .. n : k < c.el + 1 => fantomes[k] # fantome
        BY <2>1, <2>2, <4>1 DEF Creation!WalkSees
      <4> QED BY <2>1, <3>1, <4>2 DEF Creation!WalkSees
    <3> QED BY <2>1, <3>2, <3>3
  <2>3. CASE creator' = [c EXCEPT !.pc = "draw", !.calls = Append(@, c.el + 1)]
    <3>1. Append(c.calls, c.el + 1) \in Seq(Nat \ {0})
      BY <1>0, AppendProperties
    <3>2. /\ creator' \in Creation!Locals /\ creator'.pc = "draw"
          /\ creator'.r = c.r
      BY <1>0, <2>3, <3>1 DEF Creation!Locals
    <3>3. Creation!TypeOK' /\ Creation!Apart' /\ Creation!WalkSees'
      BY <2>1, <3>2 DEF Creation!TypeOK, Creation!Apart, Creation!WalkSees
    <3> QED BY <2>1, <3>3
  <2> QED BY <1>2, <2>2, <2>3 DEF Creation!Look
<1>3. CASE Creation!Return
  <2> DEFINE e == c.calls[Len(c.calls)]
             k == SubSeq(c.calls, 1, Len(c.calls) - 1)
  <2>1. /\ c.pc = "walk" /\ c.el > n /\ c.calls # <<>>
        /\ UNCHANGED <<fantomes, fantome>>
        /\ creator' = [c EXCEPT !.el = e, !.calls = k]
    BY <1>3 DEF Creation!Return
  <2>2. e \in Nat \ {0} /\ k \in Seq(Nat \ {0})
    BY <1>0, <2>1, PopType
  <2> HIDE DEF e, k
  <2>3. creator' \in Creation!Locals /\ creator'.pc = "walk" /\ creator'.r = c.r
    BY <1>0, <2>1, <2>2 DEF Creation!Locals
  <2>4. Creation!TypeOK' /\ Creation!Apart'
    BY <2>1, <2>3 DEF Creation!TypeOK, Creation!Apart
  <2>5. Creation!WalkSees'
    BY <1>0, <2>1, <2>3 DEF Creation!WalkSees
  <2> QED BY <2>1, <2>4, <2>5
<1>4. CASE Creation!AddGhost
  <2>1. /\ c.pc = "walk" /\ c.el > n /\ UNCHANGED fantome
        /\ fantomes' = Append(fantomes, fantome)
    BY <1>4 DEF Creation!AddGhost
  <2>2. PICK r \in Nat : creator' = [c EXCEPT !.pc = IF r = 0 THEN "done" ELSE "draw",
                                              !.r = r]
    <3>1. PICK r \in IF fantomes = <<>> THEN 0 .. MaxAutres ELSE {c.r - 1} :
             creator' = [c EXCEPT !.pc = IF r = 0 THEN "done" ELSE "draw", !.r = r]
      BY <1>4 DEF Creation!AddGhost
    <3>2. fantomes # <<>> => c.r > 0
      BY <2>1 DEF Creation!WalkSees
    <3>3. r \in Nat
      BY <1>0, <3>2
    <3> QED BY <3>1, <3>3
  <2>3. /\ creator' \in Creation!Locals /\ creator'.r = r
        /\ creator'.pc = IF r = 0 THEN "done" ELSE "draw"
    BY <1>0, <2>2 DEF Creation!Locals
  <2>4. fantome \in Sol /\ \A k \in 1 .. n : fantomes[k] # fantome
    BY <1>0, <2>1 DEF Creation!TypeOK, Creation!WalkSees
  <2>5. /\ fantomes' \in Seq(Sol) /\ Len(fantomes') = n + 1
        /\ \A k \in 1 .. n : fantomes'[k] = fantomes[k]
        /\ fantomes'[n + 1] = fantome
    BY <1>0, <2>1, <2>4, AppendProperties
  <2>6. Creation!TypeOK'
    BY <2>3, <2>5 DEF Creation!TypeOK
  <2>7. Creation!Apart'
    <3>1. \A k \in 1 .. n + 1 : k = n + 1 \/ k \in 1 .. n
      BY <1>0
    <3> QED BY <2>4, <2>5, <3>1 DEF Creation!Apart
  <2>8. Creation!WalkSees'
    BY <2>2, <2>3 DEF Creation!WalkSees
  <2> QED BY <2>1, <2>6, <2>7, <2>8
<1> QED BY <1>1, <1>2, <1>3, <1>4 DEF Creation!Next

\* Meanwhile no player is placed.
LEMMA GhostsStep ==
  ASSUME IInv, Creation!Next, UNCHANGED players
  PROVE  IInv'
<1>1. Creation!IInv' /\ \A p \in Joueurs : pc[p] = "out"
  BY CreationStep DEF IInv, GhostsFirst
<1>2. TypeOK' /\ SomeoneWillSee' /\ GhostsFirst'
  BY <1>1 DEF players, IInv, TypeOK, SomeoneWillSee, GhostsFirst, Cell
<1>3. WalkSees'
  BY <1>1 DEF players, WalkSees
<1> QED BY <1>1, <1>2, <1>3 DEF IInv

-----------------------------------------------------------------------------
(* Every step of a thread preserves the invariant.                         *)

\* What the walks of the players rely upon.
Walks == TypeOK /\ SomeoneWillSee /\ WalkSees

\* A walk that passes a player who is elsewhere has seen it.
LEMMA PassStep ==
  ASSUME Walks, NEW p \in Joueurs, NEW q \in reste[p], UNCHANGED Hantees,
         pc[p] \in {"players", "looky"}, x[q] # x[p] \/ y[q] # y[p],
         Pass(p, q), UNCHANGED vis
  PROVE  Walks'
<1> USE DEF Walks, Pass
<1>1. q \in Joueurs
  BY DEF TypeOK
<1>2. Cell(p) # Cell(q) /\ \A r \in Joueurs : Cell(r)' = Cell(r)
  BY DEF Cell
<1>3. TypeOK'
  BY <1>1 DEF TypeOK
<1>4. SomeoneWillSee'
  BY <1>1, <1>2 DEF TypeOK, SomeoneWillSee
<1>5. WalkSees'
  BY <1>1, <1>2 DEF TypeOK, WalkSees, Others
<1> QED BY <1>3, <1>4, <1>5

\* A nested call starts from nothing.
LEMMA RecurseStep ==
  ASSUME Walks, NEW p \in Joueurs, NEW apres \in SUBSET Joueurs,
         Recurse(p, apres), UNCHANGED Hantees, UNCHANGED <<reste, x, y, tirage, vis, vu>>
  PROVE  Walks'
<1>1. /\ appels' \in [Joueurs -> Seq(SUBSET Joueurs)]
      /\ pc' = [pc EXCEPT ![p] = "draw"]
  BY RecurseType DEF Walks
<1>2. TypeOK'
  BY <1>1 DEF Walks, TypeOK
<1>3. \A r \in Joueurs : Cell(r)' = Cell(r)
  BY DEF Cell
<1>4. SomeoneWillSee'
  BY <1>3 DEF Walks, SomeoneWillSee
<1>5. WalkSees'
  BY <1>1, <1>3 DEF Walks, TypeOK, WalkSees
<1> QED BY <1>2, <1>4, <1>5 DEF Walks

LEMMA StepInvariant ==
  ASSUME Walks, NEW p \in Joueurs, Step(p), UNCHANGED Hantees
  PROVE  Walks'
<1> USE PlacementAssumption DEF Walks, Coordinates, Others, Cell
<1>1. CASE Begin(p)
  BY <1>1 DEF Begin, TypeOK, SomeoneWillSee, WalkSees
<1>2. CASE Draw(p)
  <2> USE <1>2 DEF Draw
  <2>1. PICK c \in Sol : /\ tirage' = [tirage EXCEPT ![p] = c]
                         /\ x' = [x EXCEPT ![p] = c[1]]
    OBVIOUS
  <2>2. c[1] \in Nat
    OBVIOUS
  <2>3. TypeOK'
    BY <2>1, <2>2 DEF TypeOK
  <2>4. SomeoneWillSee'
    BY <2>1 DEF TypeOK, SomeoneWillSee
  <2>5. WalkSees'
    BY <2>1 DEF TypeOK, WalkSees
  <2> QED BY <2>3, <2>4, <2>5
<1>3. CASE WriteY(p)
  <2> USE <1>3 DEF WriteY
  <2>1. tirage[p] \in Sol /\ x[p] = tirage[p][1] /\ tirage[p][2] \in Nat
    BY DEF WalkSees
  <2>2. tirage[p] = <<tirage[p][1], tirage[p][2]>>
    BY <2>1
  <2>3. TypeOK'
    BY <2>1 DEF TypeOK
  <2>4. SomeoneWillSee'
    <3>1. vu[p] = {} /\ vu' = vu
      BY DEF WalkSees
    <3>2. \A q \in Joueurs : q # p => x'[q] = x[q] /\ y'[q] = y[q]
      BY DEF TypeOK
    <3> QED BY <3>1, <3>2 DEF SomeoneWillSee
  <2>5. Cell(p)' = tirage[p] /\ \A q \in Others(p) : Cell(q)' = Cell(q)
    BY <2>1, <2>2 DEF TypeOK
  <2>6. /\ pc' = [pc EXCEPT ![p] = "ghosts"]
        /\ UNCHANGED <<x, tirage, reste, vis, appels, vu>>
    OBVIOUS
  <2>7. WalkSees'
    <3> HIDE DEF Cell
    <3> HIDE <1>3 DEF WriteY
    <3> QED BY <2>1, <2>5, <2>6 DEF TypeOK, WalkSees
  <2> QED BY <2>3, <2>4, <2>7
<1>4. CASE LookAtGhosts(p)
  <2>1. CASE Recurse(p, Others(p)) /\ UNCHANGED <<reste, x, y, tirage, vis, vu>>
    BY <2>1, RecurseStep
  <2>2. CASE /\ pc[p] = "ghosts" /\ Cell(p) \notin Hantees
             /\ pc' = [pc EXCEPT ![p] = "players"]
             /\ reste' = [reste EXCEPT ![p] = Others(p)]
             /\ UNCHANGED <<appels, x, y, tirage, vis, vu>>
    <3>1. TypeOK'
      BY <2>2 DEF TypeOK
    <3>2. SomeoneWillSee'
      BY <2>2 DEF SomeoneWillSee
    <3>3. Cell(p) \in Sol \ Hantees
      BY <2>2 DEF WalkSees
    <3>4. WalkSees'
      <4>1. \A q \in Joueurs : Cell(q)' = Cell(q)
        BY <2>2
      <4> HIDE DEF Cell
      <4> QED BY <2>2, <3>3, <4>1 DEF TypeOK, WalkSees
    <3> QED BY <3>1, <3>2, <3>4
  <2> QED BY <1>4, <2>1, <2>2 DEF LookAtGhosts
<1>5. CASE LookAtX(p)
  <2>1. PICK q \in reste[p] :
          \/ x[q] # x[p] /\ Pass(p, q) /\ UNCHANGED vis
          \/ /\ x[q] = x[p]
             /\ vis' = [vis EXCEPT ![p] = q]
             /\ pc' = [pc EXCEPT ![p] = "looky"]
             /\ UNCHANGED <<x, y, tirage, reste, appels, vu>>
    BY <1>5 DEF LookAtX
  <2>2. q \in Joueurs /\ pc[p] = "players"
    BY <1>5 DEF TypeOK, LookAtX
  <2>3. CASE x[q] # x[p] /\ Pass(p, q) /\ UNCHANGED vis
    BY <2>2, <2>3, PassStep
  <2>4. CASE /\ vis' = [vis EXCEPT ![p] = q]
             /\ pc' = [pc EXCEPT ![p] = "looky"]
             /\ UNCHANGED <<x, y, tirage, reste, appels, vu>>
    <3>1. TypeOK'
      BY <2>2, <2>4 DEF TypeOK
    <3>2. SomeoneWillSee'
      BY <2>4 DEF SomeoneWillSee
    <3>3. WalkSees'
      BY <2>2, <2>4 DEF TypeOK, WalkSees
    <3> QED BY <3>1, <3>2, <3>3
  <2> QED BY <2>1, <2>3, <2>4
<1>6. CASE LookAtY(p)
  <2>1. vis[p] \in reste[p]
    BY <1>6 DEF LookAtY, WalkSees
  <2>2. CASE y[vis[p]] # y[p] /\ Pass(p, vis[p]) /\ UNCHANGED vis
    BY <1>6, <2>1, <2>2, PassStep DEF LookAtY
  <2>3. CASE /\ Recurse(p, reste[p] \ {vis[p]})
             /\ UNCHANGED <<reste, x, y, tirage, vis, vu>>
    <3>1. reste[p] \ {vis[p]} \in SUBSET Joueurs
      BY DEF TypeOK
    <3> QED BY <2>3, <3>1, RecurseStep
  <2> QED BY <1>6, <2>2, <2>3 DEF LookAtY
<1>7. CASE Return(p)
  <2> USE <1>7 DEF Return
  <2>1. CASE appels[p] = <<>>
    <3>1. TypeOK' /\ SomeoneWillSee'
      BY <2>1 DEF TypeOK, SomeoneWillSee
    <3>2. WalkSees'
      BY <2>1 DEF TypeOK, WalkSees
    <3> QED BY <3>1, <3>2
  <2>2. CASE appels[p] # <<>>
    <3>1. /\ reste'  = [reste EXCEPT ![p] = appels[p][Len(appels[p])]]
          /\ appels' = [appels EXCEPT
                           ![p] = SubSeq(appels[p], 1, Len(appels[p]) - 1)]
          /\ UNCHANGED <<pc, x, y, tirage, vis, vu>>
      BY <2>2
    <3>2. /\ appels[p][Len(appels[p])] \in SUBSET Joueurs
          /\ SubSeq(appels[p], 1, Len(appels[p]) - 1) \in Seq(SUBSET Joueurs)
      BY <2>2, PopType DEF TypeOK
    <3>3. TypeOK'
      BY <3>1, <3>2 DEF TypeOK
    <3>4. SomeoneWillSee'
      BY <3>1 DEF SomeoneWillSee
    <3>5. WalkSees'
      BY <3>1 DEF TypeOK, WalkSees
    <3> QED BY <3>3, <3>4, <3>5
  <2> QED BY <2>1, <2>2
<1> QED BY <1>1, <1>2, <1>3, <1>4, <1>5, <1>6, <1>7 DEF Step

LEMMA GhostsStay ==
  ASSUME UNCHANGED ghosts
  PROVE  /\ UNCHANGED Hantees /\ Creation!Done' = Creation!Done
         /\ Creation!IInv' = Creation!IInv
  BY DEF ghosts, Hantees, Creation!Done, Creation!IInv, Creation!TypeOK,
     Creation!Apart, Creation!WalkSees

LEMMA NextInvariant == ASSUME IInv, [Next]_vars PROVE IInv'
<1>1. ASSUME NEW p \in Joueurs, Step(p), UNCHANGED ghosts PROVE IInv'
  <2>1. Walks' /\ Creation!IInv'
    BY <1>1, StepInvariant, GhostsStay DEF IInv, Walks
  <2>2. GhostsFirst'
    <3>1. pc[p] # "out" \/ Creation!Done
      BY <1>1 DEF Step, Begin, Draw, WriteY, LookAtGhosts, LookAtX, LookAtY,
         Return
    <3>2. \A q \in Joueurs : q # p => pc'[q] = pc[q]
      BY <1>1 DEF Step, Begin, Draw, WriteY, LookAtGhosts, LookAtX, LookAtY,
         Return, Recurse, Pass, IInv, TypeOK
    <3> QED BY <1>1, <3>1, <3>2, GhostsStay DEF IInv, GhostsFirst
  <2> QED BY <2>1, <2>2 DEF IInv, Walks
<1>2. CASE UNCHANGED vars
  <2>1. UNCHANGED players /\ UNCHANGED ghosts
    BY <1>2 DEF vars
  <2>2. UNCHANGED Hantees /\ Creation!IInv' /\ GhostsFirst'
    BY <2>1, GhostsStay DEF IInv, GhostsFirst, players
  <2> QED BY <2>1, <2>2
          DEF players, IInv, TypeOK, SomeoneWillSee, WalkSees, Cell
<1> QED BY <1>1, <1>2, GhostsStep DEF Next

-----------------------------------------------------------------------------
\* What the walks of the threads keep true at every step.
THEOREM Invariance == Spec => []IInv
<1> QED BY InitInvariant, NextInvariant, PTL DEF Spec

\* Players that have been placed are on different cells: each has looked at
\* the other since it moved, and the one that moved last would have seen it.
THEOREM PlacedApartHolds == Spec => []PlacedApart
<1>1. ASSUME IInv PROVE PlacedApart
  <2> SUFFICES ASSUME NEW p \in Joueurs, NEW q \in Joueurs,
                      pc[p] = "placed", pc[q] = "placed", p # q
               PROVE  Cell(p) # Cell(q)
    BY DEF PlacedApart
  <2>1. q \in vu[p] /\ p \in vu[q]
    BY <1>1 DEF IInv, WalkSees, Others
  <2> QED BY <1>1, <2>1 DEF IInv, SomeoneWillSee
<1> QED BY Invariance, <1>1, PTL

\* A player is placed on the floor and off the ghosts.
THEOREM PlacedOffGhostsHolds == Spec => []PlacedOffGhosts
<1>1. IInv => PlacedOffGhosts
  BY DEF IInv, WalkSees, PlacedOffGhosts
<1> QED BY Invariance, <1>1, PTL

\* The ghosts of a game start on different cells of the floor, however often
\* init_ghost_move has to call itself.
THEOREM GhostsApartHolds == Spec => []GhostsApart
<1>1. IInv => GhostsApart
  BY DEF IInv, Creation!IInv, GhostsApart
<1> QED BY Invariance, <1>1, PTL
=============================================================================
