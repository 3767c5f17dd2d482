-------------------------- MODULE LabyrinthProofs --------------------------
(***************************************************************************)
(* Proofs that TLAPS checks about the map of Labyrinth, for any size and   *)
(* any labels.                                                             *)
(***************************************************************************)
EXTENDS Labyrinth, Inductions, TLAPS

-----------------------------------------------------------------------------
(* A loop from k to n, whose body is the function op of the counter and of *)
(* the value so far.                                                       *)

Runs(f, op, n, M) ==
    f = [r \in (0 .. n) \X M |->
           IF r[1] = n THEN r[2] ELSE f[<<r[1] + 1, op[<<r[1], r[2]>>]>>]]

Rounds(n, M) == (0 .. n) \X M
Last(n, M)   == {r \in Rounds(n, M) : r[1] = n}
Value(n, M)  == [r \in Rounds(n, M) |-> r[2]]
ToGo(n, M) == [r \in Rounds(n, M) |-> n - r[1]]
Round(op, n, M) == [r \in Rounds(n, M) |-> <<r[1] + 1, op[<<r[1], r[2]>>]>>]

LEMMA RoundsDescend ==
  ASSUME NEW n \in Nat, NEW M, NEW op \in [(0 .. n - 1) \X M -> M]
  PROVE  /\ ToGo(n, M) \in [Rounds(n, M) -> Nat]
         /\ \A r \in Rounds(n, M) :
               IF r \in Last(n, M) THEN Value(n, M)[r] \in M
               ELSE /\ Round(op, n, M)[r] \in Rounds(n, M)
                    /\ ToGo(n, M)[Round(op, n, M)[r]] < ToGo(n, M)[r]
         /\ \A f : Runs(f, op, n, M)
                   <=> Descends(f, Rounds(n, M), Last(n, M), Value(n, M), Round(op, n, M))
<1>1. ToGo(n, M) \in [Rounds(n, M) -> Nat]
  BY DEF ToGo, Rounds
<1>2. ASSUME NEW r \in Rounds(n, M)
      PROVE  IF r \in Last(n, M) THEN Value(n, M)[r] \in M
             ELSE /\ Round(op, n, M)[r] \in Rounds(n, M)
                  /\ ToGo(n, M)[Round(op, n, M)[r]] < ToGo(n, M)[r]
  <2>1. r[1] \in 0 .. n /\ r[2] \in M
    BY DEF Rounds
  <2>2. CASE r[1] = n
    BY <2>1, <2>2 DEF Last, Value
  <2>3. CASE r[1] # n
    <3>1. r[1] \in 0 .. n - 1 /\ r[1] + 1 \in 0 .. n
      BY <2>1, <2>3
    <3>2. op[<<r[1], r[2]>>] \in M
      BY <2>1, <3>1
    <3> DEFINE q == <<r[1] + 1, op[<<r[1], r[2]>>]>>
    <3>3. Round(op, n, M)[r] = q
      BY DEF Round
    <3>4. q \in Rounds(n, M) /\ q[1] = r[1] + 1
      BY <3>1, <3>2 DEF Rounds
    <3> HIDE DEF q
    <3>5. ToGo(n, M)[q] = n - (r[1] + 1) /\ ToGo(n, M)[r] = n - r[1]
      BY <3>4 DEF ToGo
    <3>6. n - (r[1] + 1) < n - r[1]
      BY <2>1
    <3> QED BY <2>3, <3>3, <3>4, <3>5, <3>6 DEF Last
  <2> QED BY <2>2, <2>3
<1>3. ASSUME NEW f
      PROVE  Runs(f, op, n, M)
             <=> Descends(f, Rounds(n, M), Last(n, M), Value(n, M), Round(op, n, M))
  <2>1. \A r \in Rounds(n, M) :
          (IF r[1] = n THEN r[2] ELSE f[<<r[1] + 1, op[<<r[1], r[2]>>]>>])
          = (IF r \in Last(n, M) THEN Value(n, M)[r] ELSE f[Round(op, n, M)[r]])
    BY DEF Last, Value, Round
  <2>2. [r \in Rounds(n, M) |->
           IF r[1] = n THEN r[2] ELSE f[<<r[1] + 1, op[<<r[1], r[2]>>]>>]]
        = [r \in Rounds(n, M) |->
             IF r \in Last(n, M) THEN Value(n, M)[r] ELSE f[Round(op, n, M)[r]]]
    BY <2>1
  <2>3. Rounds(n, M) = (0 .. n) \X M
    BY DEF Rounds
  <2> QED BY <2>2, <2>3 DEF Runs, Descends
<1> QED BY <1>1, <1>2, <1>3

\* It comes to an end.
LEMMA LoopEnds ==
  ASSUME NEW n \in Nat, NEW M, NEW op \in [(0 .. n - 1) \X M -> M]
  PROVE  \E f : Runs(f, op, n, M)
<1>1. \E f \in [Rounds(n, M) -> M] :
         Descends(f, Rounds(n, M), Last(n, M), Value(n, M), Round(op, n, M))
  BY RoundsDescend, DescentEnds
<1> QED BY <1>1, RoundsDescend

\* Every round is in a relation that is reflexive and transitive.
Repeats(op, n, M, Rel) ==
    /\ op \in [(0 .. n - 1) \X M -> M]
    /\ \A b \in M : <<b, b>> \in Rel
    /\ \A a, b, c \in M : <<a, b>> \in Rel /\ <<b, c>> \in Rel => <<a, c>> \in Rel
    /\ \A k \in 0 .. n - 1, b \in M : <<b, op[<<k, b>>]>> \in Rel

\* What is true of one round, and can be repeated, is true of the whole loop.
LEMMA LoopKeeps ==
  ASSUME NEW n \in Nat, NEW M, NEW op, NEW Rel, Repeats(op, n, M, Rel),
         NEW f, Runs(f, op, n, M)
  PROVE  \A k \in 0 .. n, b \in M : f[<<k, b>>] \in M /\ <<b, f[<<k, b>>]>> \in Rel
<1> SUFFICES ASSUME NEW k \in 0 .. n, NEW b \in M
             PROVE  f[<<k, b>>] \in M /\ <<b, f[<<k, b>>]>> \in Rel
  OBVIOUS
<1> DEFINE T == {r \in Rounds(n, M) : <<b, r[2]>> \in Rel}
<1>1. op \in [(0 .. n - 1) \X M -> M]
  BY DEF Repeats
<1>2. ASSUME NEW r \in T, r \notin Last(n, M)
      PROVE  Round(op, n, M)[r] \in T
  <2>1. r[1] \in 0 .. n - 1 /\ r[2] \in M
    BY <1>2 DEF Rounds, Last
  <2>2. op[<<r[1], r[2]>>] \in M /\ <<r[2], op[<<r[1], r[2]>>]>> \in Rel
    BY <2>1 DEF Repeats
  <2>3. <<b, op[<<r[1], r[2]>>]>> \in Rel
    BY <2>1, <2>2 DEF Repeats
  <2>4. Round(op, n, M)[r] = <<r[1] + 1, op[<<r[1], r[2]>>]>>
    BY DEF Round
  <2>5. Round(op, n, M)[r] \in Rounds(n, M)
    BY <1>1, <1>2, RoundsDescend
  <2> QED BY <2>3, <2>4, <2>5
<1>3. \A r \in T : \E e \in T \cap Last(n, M) : f[r] = Value(n, M)[e]
  <2>1. Descends(f, Rounds(n, M), Last(n, M), Value(n, M), Round(op, n, M))
    BY <1>1, RoundsDescend
  <2>2. T \in SUBSET Rounds(n, M) /\ \A r \in T \ Last(n, M) : Round(op, n, M)[r] \in T
    BY <1>2
  <2>3. /\ ToGo(n, M) \in [Rounds(n, M) -> Nat]
        /\ \A r \in Rounds(n, M) \ Last(n, M) :
              /\ Round(op, n, M)[r] \in Rounds(n, M)
              /\ ToGo(n, M)[Round(op, n, M)[r]] < ToGo(n, M)[r]
    BY <1>1, RoundsDescend
  <2> HIDE DEF T
  <2> QED BY <2>1, <2>2, <2>3, DescentKeeps
<1>4. <<k, b>> \in T
  BY DEF Rounds, Repeats
<1>5. PICK e \in T \cap Last(n, M) : f[<<k, b>>] = Value(n, M)[e]
  BY <1>3, <1>4
<1>6. Value(n, M)[e] = e[2] /\ e[2] \in M /\ <<b, e[2]>> \in Rel
  BY DEF Value, Rounds
<1> QED BY <1>5, <1>6

\* When the loop ends with what it began, and no round can be undone, then no
\* round has changed anything.
LEMMA LoopRests ==
  ASSUME NEW n \in Nat, NEW M, NEW op, NEW Rel, Repeats(op, n, M, Rel),
         NEW f, Runs(f, op, n, M),
         \A a, b \in M : <<a, b>> \in Rel /\ <<b, a>> \in Rel => a = b,
         NEW a \in M, f[<<0, a>>] = a
  PROVE  \A k \in 0 .. n - 1 : op[<<k, a>>] = a
<1>0. \A k \in 0 .. n, b \in M : f[<<k, b>>] \in M /\ <<b, f[<<k, b>>]>> \in Rel
  BY LoopKeeps
<1>1. ASSUME NEW k \in 0 .. n - 1, f[<<k, a>>] = a
      PROVE  op[<<k, a>>] = a /\ f[<<k + 1, a>>] = a
  <2> DEFINE b == op[<<k, a>>]
  <2>1. k \in 0 .. n /\ k # n /\ k + 1 \in 0 .. n /\ b \in M
    BY DEF Repeats
  <2>2. f[<<k, a>>] = f[<<k + 1, b>>]
    BY <2>1 DEF Runs
  <2>3. <<a, b>> \in Rel
    BY DEF Repeats
  <2> HIDE DEF b
  <2>4. <<b, f[<<k + 1, b>>]>> \in Rel
    BY <1>0, <2>1
  <2>5. a = b
    BY <1>1, <2>1, <2>2, <2>3, <2>4
  <2> QED BY <1>1, <2>2, <2>5 DEF b
<1> DEFINE N == {k \in Nat : k <= n => f[<<k, a>>] = a}
<1>2. ASSUME NEW k \in N PROVE k + 1 \in N
  <2> SUFFICES ASSUME k + 1 <= n PROVE f[<<k + 1, a>>] = a
    OBVIOUS
  <2>1. k \in 0 .. n - 1 /\ k <= n
    OBVIOUS
  <2> QED BY <1>1, <2>1
<1>3. \A k \in Nat : k \in N
  <2>1. N \in SUBSET Nat /\ 0 \in N
    OBVIOUS
  <2> HIDE DEF N
  <2> QED BY <1>2, <2>1, NatInd
<1>4. ASSUME NEW k \in 0 .. n - 1 PROVE f[<<k, a>>] = a
  <2>1. k \in Nat /\ k <= n
    OBVIOUS
  <2> QED BY <1>3, <2>1
<1> QED BY <1>1, <1>4

-----------------------------------------------------------------------------
(* updateMap.                                                              *)

Maps == [Cells -> Nat]

\* Labels only grow, to labels that there were; no cell is walled in or freed.
Grows(a, b) ==
    \A c \in Cells : /\ a[c] <= b[c]
                     /\ a[c] = 0 <=> b[c] = 0
                     /\ \E d \in Cells : b[c] = a[d]
Grow == {r \in Maps \X Maps : Grows(r[1], r[2])}

\* The neighbour of c on side s has no lower label.
NotLower(a, c, s) ==
    LET n == Beside(c, s, 1) IN n \in Cells /\ a[n] # 0 => a[c] <= a[n]

LEMMA GrowOrder ==
  /\ \A a \in Maps : <<a, a>> \in Grow
  /\ \A a, b, c \in Maps : <<a, b>> \in Grow /\ <<b, c>> \in Grow => <<a, c>> \in Grow
  /\ \A a, b \in Maps : <<a, b>> \in Grow /\ <<b, a>> \in Grow => a = b
<1>1. \A a \in Maps : <<a, a>> \in Grow
  BY DEF Grow, Grows, Maps
<1>2. ASSUME NEW a \in Maps, NEW b \in Maps, NEW c \in Maps, Grows(a, b), Grows(b, c)
      PROVE  Grows(a, c)
  <2>1. ASSUME NEW x \in Cells
        PROVE  a[x] <= c[x] /\ (a[x] = 0 <=> c[x] = 0) /\ \E d \in Cells : c[x] = a[d]
    <3>1. a[x] <= b[x] /\ b[x] <= c[x] /\ a[x] \in Nat /\ b[x] \in Nat /\ c[x] \in Nat
      BY <1>2 DEF Grows, Maps
    <3>2. PICK d \in Cells : c[x] = b[d]
      BY <1>2 DEF Grows
    <3>3. PICK e \in Cells : b[d] = a[e]
      BY <1>2 DEF Grows
    <3> QED BY <1>2, <3>1, <3>2, <3>3 DEF Grows
  <2> QED BY <2>1 DEF Grows
<1>3. ASSUME NEW a \in Maps, NEW b \in Maps, Grows(a, b), Grows(b, a)
      PROVE  a = b
  <2>1. ASSUME NEW x \in Cells PROVE a[x] = b[x]
    <3>1. a[x] <= b[x] /\ b[x] <= a[x] /\ a[x] \in Nat /\ b[x] \in Nat
      BY <1>3 DEF Grows, Maps
    <3> QED BY <3>1
  <2> QED BY <2>1 DEF Maps
<1> QED BY <1>1, <1>2, <1>3 DEF Grow

LEMMA SpreadGrows ==
  ASSUME NEW a \in Maps, NEW c \in Cells, NEW s
  PROVE  /\ Spread(a, c, s) \in Maps /\ <<a, Spread(a, c, s)>> \in Grow
         /\ Spread(a, c, s) = a => NotLower(a, c, s)
<1> DEFINE n == Beside(c, s, 1)
           b == [a EXCEPT ![n] = a[c]]
<1>1. CASE n \in Cells /\ a[n] # 0 /\ a[n] < a[c]
  <2>1. Spread(a, c, s) = b
    BY <1>1 DEF Spread
  <2> HIDE DEF n
  <2>2. b \in Maps /\ b[n] = a[c] /\ \A x \in Cells \ {n} : b[x] = a[x]
    BY <1>1 DEF Maps
  <2> HIDE DEF b
  <2>3. ASSUME NEW x \in Cells
        PROVE  a[x] <= b[x] /\ (a[x] = 0 <=> b[x] = 0) /\ \E d \in Cells : b[x] = a[d]
    <3>0. a[x] \in Nat /\ a[c] \in Nat /\ a[n] \in Nat
      BY <1>1 DEF Maps
    <3>1. CASE x = n
      BY <1>1, <2>2, <3>0, <3>1
    <3>2. CASE x # n
      BY <2>2, <3>0, <3>2
    <3> QED BY <3>1, <3>2
  <2>4. b # a
    <3>1. a[c] \in Nat /\ a[n] \in Nat
      BY <1>1 DEF Maps
    <3> QED BY <1>1, <2>2, <3>1
  <2> QED BY <2>1, <2>2, <2>3, <2>4 DEF Grow, Grows
<1>2. CASE ~(n \in Cells /\ a[n] # 0 /\ a[n] < a[c])
  <2>1. Spread(a, c, s) = a
    BY <1>2 DEF Spread
  <2>2. NotLower(a, c, s)
    <3> SUFFICES ASSUME n \in Cells, a[n] # 0 PROVE a[c] <= a[n]
      BY DEF NotLower
    <3>1. a[c] \in Nat /\ a[n] \in Nat
      BY DEF Maps
    <3> HIDE DEF n
    <3> QED BY <1>2, <3>1
  <2> QED BY <2>1, <2>2, GrowOrder
<1> QED BY <1>1, <1>2

LEMMA AroundGrows ==
  ASSUME NEW a \in Maps, NEW c \in Cells
  PROVE  /\ SpreadAround(a, c) \in Maps /\ <<a, SpreadAround(a, c)>> \in Grow
         /\ SpreadAround(a, c) = a =>
               \A s \in {Right, Down, Up, Left} : NotLower(a, c, s)
<1> DEFINE b1 == Spread(a, c, Right)
           b2 == Spread(b1, c, Down)
           b3 == Spread(b2, c, Up)
           b4 == Spread(b3, c, Left)
<1>1. /\ b1 \in Maps /\ <<a, b1>> \in Grow /\ (b1 = a => NotLower(a, c, Right))
  BY SpreadGrows
<1> HIDE DEF b1
<1>2. /\ b2 \in Maps /\ <<b1, b2>> \in Grow /\ (b2 = b1 => NotLower(b1, c, Down))
  BY <1>1, SpreadGrows
<1> HIDE DEF b2
<1>3. /\ b3 \in Maps /\ <<b2, b3>> \in Grow /\ (b3 = b2 => NotLower(b2, c, Up))
  BY <1>2, SpreadGrows
<1> HIDE DEF b3
<1>4. /\ b4 \in Maps /\ <<b3, b4>> \in Grow /\ (b4 = b3 => NotLower(b3, c, Left))
  BY <1>3, SpreadGrows
<1>5. SpreadAround(a, c) = b4
  BY DEF SpreadAround, b1, b2, b3
<1> HIDE DEF b4
<1>6. <<a, b2>> \in Grow /\ <<a, b3>> \in Grow /\ <<a, b4>> \in Grow
  BY <1>1, <1>2, <1>3, <1>4, GrowOrder
<1>7. ASSUME b4 = a PROVE b1 = a /\ b2 = a /\ b3 = a
  <2>1. b3 = a
    BY <1>3, <1>4, <1>6, <1>7, GrowOrder
  <2>2. b2 = a
    BY <1>2, <1>3, <1>6, <2>1, GrowOrder
  <2>3. b1 = a
    BY <1>1, <1>2, <1>6, <2>2, GrowOrder
  <2> QED BY <2>1, <2>2, <2>3
<1> QED BY <1>1, <1>2, <1>3, <1>4, <1>5, <1>6, <1>7

Framed == height \in Nat /\ width \in Nat /\ height > 1 /\ width > 1

LEMMA RowGrows ==
  ASSUME Framed, NEW a \in Maps, NEW i \in 0 .. height - 1
  PROVE  /\ PassRow(a, i) \in Maps /\ <<a, PassRow(a, i)>> \in Grow
         /\ PassRow(a, i) = a =>
               \A j \in 0 .. width - 1 : SpreadAround(a, <<i, j>>) = a
<1> DEFINE op == [r \in (0 .. width - 1) \X Maps |-> SpreadAround(r[2], <<i, r[1]>>)]
           Q(g) == g = [r \in (0 .. width) \X Maps |->
                          IF r[1] = width THEN r[2]
                          ELSE g[<<r[1] + 1, SpreadAround(r[2], <<i, r[1]>>)>>]]
           f == CHOOSE g : Q(g)
<1>1. PassRow(a, i) = f[<<0, a>>]
  BY DEF PassRow, Maps
<1>2. \A j \in 0 .. width - 1, b \in Maps : op[<<j, b>>] = SpreadAround(b, <<i, j>>)
  OBVIOUS
<1>3. Repeats(op, width, Maps, Grow)
  <2>1. \A j \in 0 .. width - 1 : <<i, j>> \in Cells
    BY DEF Cells
  <2>2. op \in [(0 .. width - 1) \X Maps -> Maps]
    BY <2>1, AroundGrows
  <2>3. \A j \in 0 .. width - 1, b \in Maps : <<b, op[<<j, b>>]>> \in Grow
    BY <1>2, <2>1, AroundGrows
  <2> HIDE DEF op
  <2> QED BY <2>2, <2>3, GrowOrder DEF Repeats
<1>4. ASSUME NEW g PROVE Q(g) <=> Runs(g, op, width, Maps)
  <2>1. ASSUME NEW r \in (0 .. width) \X Maps
        PROVE  (IF r[1] = width THEN r[2]
                ELSE g[<<r[1] + 1, SpreadAround(r[2], <<i, r[1]>>)>>])
               = (IF r[1] = width THEN r[2] ELSE g[<<r[1] + 1, op[<<r[1], r[2]>>]>>])
    <3>1. CASE r[1] # width
      <4>1. r[1] \in 0 .. width - 1 /\ r[2] \in Maps
        BY <3>1 DEF Framed
      <4>2. op[<<r[1], r[2]>>] = SpreadAround(r[2], <<i, r[1]>>)
        BY <1>2, <4>1
      <4> QED BY <4>2
    <3> QED BY <3>1
  <2> HIDE DEF op
  <2> QED BY <2>1 DEF Runs
<1>5. Runs(f, op, width, Maps)
  <2>1. \E g : Runs(g, op, width, Maps)
    <3> HIDE DEF op
    <3> QED BY <1>3, LoopEnds DEF Framed, Repeats
  <2>2. Q(f)
    <3>1. \E g : Q(g)
      BY <1>4, <2>1
    <3> HIDE DEF Q
    <3> QED BY <3>1
  <2> HIDE DEF f, op, Q
  <2> QED BY <1>4, <2>2
<1> HIDE DEF f, op
<1>6. f[<<0, a>>] \in Maps /\ <<a, f[<<0, a>>]>> \in Grow
  BY <1>3, <1>5, LoopKeeps DEF Framed
<1>7. ASSUME f[<<0, a>>] = a
      PROVE  \A j \in 0 .. width - 1 : op[<<j, a>>] = a
  BY <1>3, <1>5, <1>7, GrowOrder, LoopRests DEF Framed
<1> QED BY <1>1, <1>2, <1>6, <1>7

LEMMA PassGrows ==
  ASSUME Framed, NEW a \in Maps
  PROVE  /\ Pass(a) \in Maps /\ <<a, Pass(a)>> \in Grow
         /\ Pass(a) = a =>
               \A c \in Cells, s \in {Right, Down, Up, Left} : NotLower(a, c, s)
<1> DEFINE op == [r \in (0 .. height - 1) \X Maps |-> PassRow(r[2], r[1])]
           Q(g) == g = [r \in (0 .. height) \X Maps |->
                          IF r[1] = height THEN r[2]
                          ELSE g[<<r[1] + 1, PassRow(r[2], r[1])>>]]
           f == CHOOSE g : Q(g)
<1>1. Pass(a) = f[<<0, a>>]
  BY DEF Pass, Maps
<1>2. \A i \in 0 .. height - 1, b \in Maps : op[<<i, b>>] = PassRow(b, i)
  OBVIOUS
<1>3. Repeats(op, height, Maps, Grow)
  <2>1. op \in [(0 .. height - 1) \X Maps -> Maps]
    BY RowGrows
  <2>2. \A i \in 0 .. height - 1, b \in Maps : <<b, op[<<i, b>>]>> \in Grow
    BY <1>2, RowGrows
  <2> HIDE DEF op
  <2> QED BY <2>1, <2>2, GrowOrder DEF Repeats
<1>4. ASSUME NEW g PROVE Q(g) <=> Runs(g, op, height, Maps)
  <2>1. ASSUME NEW r \in (0 .. height) \X Maps
        PROVE  (IF r[1] = height THEN r[2]
                ELSE g[<<r[1] + 1, PassRow(r[2], r[1])>>])
               = (IF r[1] = height THEN r[2] ELSE g[<<r[1] + 1, op[<<r[1], r[2]>>]>>])
    <3>1. CASE r[1] # height
      <4>1. r[1] \in 0 .. height - 1 /\ r[2] \in Maps
        BY <3>1 DEF Framed
      <4>2. op[<<r[1], r[2]>>] = PassRow(r[2], r[1])
        BY <1>2, <4>1
      <4> QED BY <4>2
    <3> QED BY <3>1
  <2> HIDE DEF op
  <2> QED BY <2>1 DEF Runs
<1>5. Runs(f, op, height, Maps)
  <2>1. \E g : Runs(g, op, height, Maps)
    <3> HIDE DEF op
    <3> QED BY <1>3, LoopEnds DEF Framed, Repeats
  <2>2. Q(f)
    <3>1. \E g : Q(g)
      BY <1>4, <2>1
    <3> HIDE DEF Q
    <3> QED BY <3>1
  <2> HIDE DEF f, op, Q
  <2> QED BY <1>4, <2>2
<1> HIDE DEF f, op
<1>6. f[<<0, a>>] \in Maps /\ <<a, f[<<0, a>>]>> \in Grow
  BY <1>3, <1>5, LoopKeeps DEF Framed
<1>7. ASSUME f[<<0, a>>] = a
      PROVE  \A c \in Cells, s \in {Right, Down, Up, Left} : NotLower(a, c, s)
  <2>1. \A i \in 0 .. height - 1 : op[<<i, a>>] = a
    BY <1>3, <1>5, <1>7, GrowOrder, LoopRests DEF Framed
  <2>2. \A i \in 0 .. height - 1 : PassRow(a, i) = a
    BY <1>2, <2>1
  <2>3. \A c \in Cells : SpreadAround(a, c) = a
    <3>1. \A i \in 0 .. height - 1, j \in 0 .. width - 1 : SpreadAround(a, <<i, j>>) = a
      BY <2>2, RowGrows
    <3>2. \A c \in Cells : /\ c = <<c[1], c[2]>> 
                           /\ c[1] \in 0 .. height - 1 /\ c[2] \in 0 .. width - 1
      BY DEF Cells
    <3> QED BY <3>1, <3>2
  <2> QED BY <2>3, AroundGrows
<1> QED BY <1>1, <1>6, <1>7

-----------------------------------------------------------------------------
(* TypeOK and TouchingAgree.                                               *)

\* createMap works on a block until the last one is done.
OnBlock == pc \in {"fill", "update"} => cell \in Blocks

Sound == TypeOK /\ OnBlock /\ TouchingAgree

LEMMA SizesFramed ==
  ASSUME TypeOK
  PROVE  /\ Framed
         /\ \A l \in Labels : l \in Nat /\ l # 0
         /\ pc # "done" => arr \in Maps
<1>1. Framed
  BY LabyrinthAssumption DEF TypeOK, Framed
<1>2. \A l \in Labels : l \in Nat /\ l # 0
  BY LabyrinthAssumption
<1>3. ASSUME pc # "done" PROVE arr \in Maps
  BY <1>2, <1>3 DEF TypeOK, Maps
<1> QED BY <1>1, <1>2, <1>3

LEMMA SoundInit ==
  ASSUME Init
  PROVE  Sound
<1>1. PICK size \in Sizes : height = size[1] /\ width = size[2]
  BY DEF Init
<1>2. Framed /\ <<height, width>> \in Sizes
  BY <1>1, LabyrinthAssumption DEF Framed
<1>3. PICK label \in [Blocks -> Labels] :
         arr = [c \in Cells |-> IF c \in Blocks THEN label[c] ELSE 0]
  BY DEF Init
<1>4. <<1, 1>> \in Blocks
  BY <1>2 DEF Blocks, Cells, Framed
<1>5. TypeOK
  <2>1. arr \in [Cells -> Labels \cup {0}]
    BY <1>3
  <2>2. <<1, 1>> \in (1 .. height + 1) \X (1 .. width + 1)
    BY <1>2 DEF Framed
  <2> QED BY <1>2, <2>1, <2>2 DEF Init, TypeOK
<1>6. TouchingAgree
  <2>1. Cells \ Beneath \subseteq Blocks
    BY <1>3 DEF Beneath
  <2>2. ASSUME NEW c \in Blocks, NEW s \in {Right, Down}
        PROVE  Beside(c, s, 1) \notin Blocks
    <3>1. c[1] \in Int /\ c[2] \in Int /\ c[1] % 2 = 1 /\ c[2] % 2 = 1
      BY DEF Blocks, Cells
    <3>2. (c[1] + 1) % 2 = 0 /\ (c[2] + 1) % 2 = 0
      BY <3>1
    <3> QED BY <3>2 DEF Beside, Right, Down, Blocks
  <2> QED BY <2>1, <2>2 DEF TouchingAgree
<1> QED BY <1>4, <1>5, <1>6 DEF Init, OnBlock, Sound

LEMMA SoundStep ==
  ASSUME Sound, Next
  PROVE  Sound'
<1> USE DEF Sound
<1>0. /\ Framed /\ (pc # "done" => arr \in Maps)
      /\ \A l \in Labels : l \in Nat /\ l # 0
  BY SizesFramed
<1>1. CASE Update
  <2>0. arr \in Maps /\ pc = "update"
    BY <1>0, <1>1 DEF Update
  <2>1. /\ arr' = Pass(arr) /\ pc' = IF arr' = arr THEN "fill" ELSE "update"
        /\ UNCHANGED <<height, width, cell, side>>
    BY <1>1 DEF Update
  <2>2. arr' \in Maps /\ <<arr, arr'>> \in Grow
    BY <1>0, <2>0, <2>1, PassGrows
  <2>3. arr' \in [Cells -> Labels \cup {0}]
    <3>1. \A c \in Cells : \E d \in Cells : arr'[c] = arr[d]
      BY <2>2 DEF Grow, Grows
    <3>2. \A d \in Cells : arr[d] \in Labels \cup {0}
      BY <2>0 DEF TypeOK
    <3> QED BY <2>2, <3>1, <3>2 DEF Maps
  <2>4. Cells' = Cells /\ Blocks' = Blocks
    BY <2>1 DEF Cells, Blocks
  <2>5. TypeOK' /\ OnBlock'
    BY <2>0, <2>1, <2>3, <2>4 DEF TypeOK, OnBlock
  <2>6. TouchingAgree'
    <3> SUFFICES ASSUME pc' = "fill", NEW c \in Cells, NEW s \in {Right, Down},
                        arr[c] # 0, Beside(c, s, 1) \in Cells, arr[Beside(c, s, 1)] # 0
                 PROVE  arr[Beside(c, s, 1)] = arr[c]
      <4>1. pc' = "fill" => arr' = arr
        BY <2>1
      <4> QED BY <2>4, <4>1 DEF TouchingAgree, Beneath
    <3> DEFINE n == Beside(c, s, 1)
               back == IF s = Right THEN Left ELSE Up
    <3>1. \A d \in Cells, t \in {Right, Down, Up, Left} : NotLower(arr, d, t)
      BY <1>0, <2>0, <2>1, PassGrows
    <3>2. Beside(n, back, 1) = c
      <4>1. c = <<c[1], c[2]>> /\ c[1] \in Int /\ c[2] \in Int
        BY DEF Cells
      <4>2. CASE s = Right
        BY <4>1, <4>2 DEF Beside, Right, Left
      <4>3. CASE s = Down
        BY <4>1, <4>3 DEF Beside, Right, Down, Up
      <4> QED BY <4>2, <4>3
    <3>3. back \in {Right, Down, Up, Left} /\ s \in {Right, Down, Up, Left}
      OBVIOUS
    <3>4. arr[c] \in Nat /\ arr[n] \in Nat
      BY <2>0 DEF Maps
    <3> HIDE DEF n, back
    <3>5. arr[c] <= arr[n]
      BY <3>1, <3>3 DEF NotLower, n
    <3>6. arr[n] <= arr[c]
      BY <3>1, <3>2, <3>3 DEF NotLower, n
    <3> QED BY <3>4, <3>5, <3>6 DEF n
  <2> QED BY <2>5, <2>6
<1>2. CASE Draw
  <2>1. /\ pc = "fill" /\ side' \in {1, 5}
        /\ UNCHANGED <<pc, height, width, arr, cell>>
    BY <1>2 DEF Draw
  <2>2. TypeOK'
    BY <2>1 DEF TypeOK, Cells
  <2>3. OnBlock' /\ TouchingAgree'
    BY <2>1 DEF OnBlock, TouchingAgree, Blocks, Cells, Beneath
  <2> QED BY <2>2, <2>3
<1>3. CASE Join
  <2> DEFINE n == Beside(cell, Sides[side], 2)
             w == Beside(cell, Sides[side], 1)
  <2>1. /\ pc = "fill" /\ side \in 1 .. 4 /\ side' = side + 1
        /\ UNCHANGED <<height, width, cell>>
    BY <1>3 DEF Join
  <2>2. Cells' = Cells /\ Blocks' = Blocks
    BY <2>1 DEF Cells, Blocks
  <2>3. side' \in 0 .. 5
    BY <2>1
  <2>4. CASE n \in Cells /\ arr[n] < arr[cell]
    <3>1. arr' = [arr EXCEPT ![n] = arr[cell], ![w] = arr[cell]] /\ pc' = "update"
      BY <1>3, <2>4 DEF Join
    <3>2. arr \in [Cells -> Labels \cup {0}] /\ cell \in Cells
      BY <2>1 DEF TypeOK, OnBlock, Blocks
    <3>3. arr' \in [Cells -> Labels \cup {0}]
      <4>1. arr[cell] \in Labels \cup {0}
        BY <3>2
      <4> HIDE DEF n, w
      <4> QED BY <3>1, <3>2, <4>1
    <3>4. TypeOK'
      BY <2>1, <2>2, <2>3, <3>1, <3>3 DEF TypeOK
    <3>5. OnBlock' /\ TouchingAgree'
      BY <2>1, <2>2, <3>1 DEF OnBlock, TouchingAgree
    <3> QED BY <3>4, <3>5
  <2>5. CASE ~(n \in Cells /\ arr[n] < arr[cell])
    <3>1. UNCHANGED <<arr, pc>>
      BY <1>3, <2>5 DEF Join
    <3>2. TypeOK'
      BY <2>1, <2>2, <2>3, <3>1 DEF TypeOK
    <3>3. OnBlock' /\ TouchingAgree'
      BY <2>1, <2>2, <3>1 DEF OnBlock, TouchingAgree, Beneath
    <3> QED BY <3>2, <3>3
  <2> QED BY <2>4, <2>5
<1>4. CASE NextBlock
  <2>1. /\ pc = "fill" /\ side' = 0
        /\ cell' = IF cell[2] + 2 < width THEN <<cell[1], cell[2] + 2>>
                                          ELSE <<cell[1] + 2, 1>>
        /\ pc' = IF cell' \in Cells THEN "fill" ELSE "trim"
        /\ UNCHANGED <<height, width, arr>>
    BY <1>4 DEF NextBlock
  <2>2. Cells' = Cells /\ Blocks' = Blocks
    BY <2>1 DEF Cells, Blocks
  <2>3. /\ cell[1] \in 0 .. height - 1 /\ cell[2] \in 0 .. width - 1
        /\ cell[1] % 2 = 1 /\ cell[2] % 2 = 1
    BY <2>1 DEF OnBlock, Blocks, Cells
  <2>4. /\ cell'[1] \in 1 .. height + 1 /\ cell'[2] \in 1 .. width + 1
        /\ cell'[1] % 2 = 1 /\ cell'[2] % 2 = 1
        /\ cell' = <<cell'[1], cell'[2]>>
    <3>1. CASE cell[2] + 2 < width
      <4>1. cell' = <<cell[1], cell[2] + 2>>
        BY <2>1, <3>1
      <4> QED BY <1>0, <2>3, <3>1, <4>1 DEF Framed
    <3>2. CASE ~(cell[2] + 2 < width)
      <4>1. cell' = <<cell[1] + 2, 1>>
        BY <2>1, <3>2
      <4> QED BY <1>0, <2>3, <4>1 DEF Framed
    <3> QED BY <3>1, <3>2
  <2>5. cell' \in (1 .. height + 1) \X (1 .. width + 1)
    BY <2>4
  <2>6. TypeOK'
    <3>1. pc' \in {"fill", "trim"} /\ side' \in 0 .. 5
      BY <2>1
    <3> QED BY <2>1, <2>2, <2>5, <3>1 DEF TypeOK
  <2>7. OnBlock'
    BY <2>1, <2>2, <2>4 DEF OnBlock, Blocks
  <2>8. TouchingAgree'
    BY <2>1, <2>2 DEF TouchingAgree, Beneath
  <2> QED BY <2>6, <2>7, <2>8
<1>5. CASE Trim
  <2>1. /\ pc' = "done" /\ UNCHANGED <<height, width, cell, side>>
        /\ arr' \in [Cells -> {0, 1}]
    BY <1>5 DEF Trim
  <2>2. Cells' = Cells
    BY <2>1 DEF Cells
  <2>3. TypeOK'
    BY <2>1, <2>2 DEF TypeOK
  <2>4. OnBlock' /\ TouchingAgree'
    BY <2>1 DEF OnBlock, TouchingAgree
  <2> QED BY <2>3, <2>4
<1> QED BY <1>1, <1>2, <1>3, <1>4, <1>5 DEF Next

LEMMA SoundStutter ==
  ASSUME Sound, UNCHANGED vars
  PROVE  Sound'
<1>1. /\ pc' = pc /\ height' = height /\ width' = width /\ arr' = arr
      /\ cell' = cell /\ side' = side
  BY DEF vars
<1>2. Cells' = Cells /\ Blocks' = Blocks /\ Beneath' = Beneath
  BY <1>1 DEF Cells, Blocks, Beneath
<1> QED BY <1>1, <1>2 DEF Sound, TypeOK, OnBlock, TouchingAgree

THEOREM SoundHolds == Spec => []Sound
<1>1. Init => Sound
  BY SoundInit
<1>2. Sound /\ [Next]_vars => Sound'
  BY SoundStep, SoundStutter
<1> QED BY <1>1, <1>2, PTL DEF Spec

\* Labels are only ever those drawn for blocks, and the visit of the blocks
\* stays on the map.
THEOREM TypeCorrect == Spec => []TypeOK
<1>1. Sound => TypeOK
  BY DEF Sound
<1> QED BY <1>1, SoundHolds, PTL

\* When updateMap has stopped, pieces of wall that touch have one label.
THEOREM TouchingAgreeHolds == Spec => []TouchingAgree
<1>1. Sound => TouchingAgree
  BY DEF Sound
<1> QED BY <1>1, SoundHolds, PTL

-----------------------------------------------------------------------------
(* Walls as the edges of a graph: each stands between two blocks.          *)

First(w)  == IF w[1] % 2 = 1 THEN <<w[1], w[2] - 1>> ELSE <<w[1] - 1, w[2]>>
Second(w) == IF w[1] % 2 = 1 THEN <<w[1], w[2] + 1>> ELSE <<w[1] + 1, w[2]>>

\* The walls that there can be between blocks of B.
Between(B) == {w \in Int \X Int : /\ w[1] % 2 # w[2] % 2
                                  /\ First(w) \in B /\ Second(w) \in B}

Touches(w, b) == b \in {First(w), Second(w)}

\* Of the walls of A, w is the only one that touches b.
Only(w, b, A) == w \in A /\ Touches(w, b) /\ \A x \in A : Touches(x, b) => x = w

\* Of the walls of A, one touches b.
Leaf(b, A) == \E w \in A : Only(w, b, A)

\* The walls W close no loop: any of them have two blocks where they end.
Forest(W, B) ==
    /\ W \subseteq Between(B)
    /\ \A A \in SUBSET W : A # {} => \A u \in B : \E b \in B \ {u} : Leaf(b, A)

LEMMA WallBetween ==
  ASSUME NEW i \in Int, NEW j \in Int, i % 2 = 1, j % 2 = 1
  PROVE  /\ First(<<i, j + 1>>) = <<i, j>> /\ Second(<<i, j + 1>>) = <<i, j + 2>>
         /\ First(<<i + 1, j>>) = <<i, j>> /\ Second(<<i + 1, j>>) = <<i + 2, j>>
         /\ (i + 1) % 2 = 0 /\ (j + 1) % 2 = 0 /\ (i + 2) % 2 = 1 /\ (j + 2) % 2 = 1
<1>1. (i + 1) % 2 = 0 /\ (j + 1) % 2 = 0 /\ (i + 2) % 2 = 1 /\ (j + 2) % 2 = 1
  OBVIOUS
<1>2. j + 1 - 1 = j /\ j + 1 + 1 = j + 2 /\ i + 1 - 1 = i /\ i + 1 + 1 = i + 2
  OBVIOUS
<1> QED BY <1>1, <1>2 DEF First, Second

LEMMA EndsDiffer ==
  ASSUME NEW B, NEW w \in Between(B)
  PROVE  First(w) # Second(w) /\ First(w) \in B /\ Second(w) \in B
<1>1. w[1] \in Int /\ w[2] \in Int /\ First(w) \in B /\ Second(w) \in B
  BY DEF Between
<1>2. w[2] - 1 # w[2] + 1 /\ w[1] - 1 # w[1] + 1
  BY <1>1
<1>3. First(w) # Second(w)
  BY <1>2 DEF First, Second
<1> QED BY <1>1, <1>3

\* A wall between blocks that hang together with none of each other closes no
\* loop.
LEMMA ForestJoin ==
  ASSUME NEW B, NEW W, Forest(W, B), NEW w \in Between(B), NEW X \in SUBSET B,
         \A e \in W : First(e) \in X <=> Second(e) \in X,
         NEW p \in X, NEW q \in B \ X, {First(w), Second(w)} = {p, q}
  PROVE  Forest(W \cup {w}, B)
<1>1. W \cup {w} \subseteq Between(B)
  BY DEF Forest
<1>2. ASSUME NEW A \in SUBSET (W \cup {w}), A # {}, NEW u \in B
      PROVE  \E b \in B \ {u} : Leaf(b, A)
  <2>1. CASE w \notin A
    <3>1. A \in SUBSET W
      BY <2>1
    <3> QED BY <1>2, <3>1 DEF Forest
  <2>2. CASE w \in A
    <3>1. \A b : Touches(w, b) <=> b \in {p, q}
      BY DEF Touches
    <3>2. \E b \in X : Leaf(b, A)
      <4> DEFINE AX == {e \in A \ {w} : First(e) \in X}
      <4>1. \A e \in A \ {w}, b \in X : Touches(e, b) => e \in AX
        BY DEF Touches
      <4>2. CASE AX = {}
        <5>1. Only(w, p, A)
          BY <2>2, <3>1, <4>1, <4>2 DEF Only
        <5> QED BY <2>2, <5>1 DEF Leaf
      <4>3. CASE AX # {}
        <5>1. AX \in SUBSET W /\ p \in B
          OBVIOUS
        <5>2. PICK b \in B \ {p} : Leaf(b, AX)
          <6> HIDE DEF AX
          <6> QED BY <4>3, <5>1 DEF Forest
        <5>3. PICK e \in AX : Only(e, b, AX)
          BY <5>2 DEF Leaf
        <5>4. b \in X
          BY <5>1, <5>3 DEF Only, Touches
        <5>5. Only(e, b, A)
          BY <3>1, <4>1, <5>2, <5>3, <5>4 DEF Only
        <5> QED BY <5>4, <5>5 DEF Leaf, Only
      <4> QED BY <4>2, <4>3
    <3>3. \E b \in B \ X : Leaf(b, A)
      <4> DEFINE AO == {e \in A \ {w} : First(e) \notin X}
      <4>1. \A e \in A \ {w}, b \in B \ X : Touches(e, b) => e \in AO
        BY DEF Touches
      <4>2. CASE AO = {}
        <5>1. Only(w, q, A)
          BY <2>2, <3>1, <4>1, <4>2 DEF Only
        <5> QED BY <2>2, <5>1 DEF Leaf
      <4>3. CASE AO # {}
        <5>1. AO \in SUBSET W
          OBVIOUS
        <5>2. PICK b \in B \ {q} : Leaf(b, AO)
          <6> HIDE DEF AO
          <6> QED BY <4>3, <5>1 DEF Forest
        <5>3. PICK e \in AO : Only(e, b, AO)
          BY <5>2 DEF Leaf
        <5>4. b \in B \ X
          BY <5>1, <5>3 DEF Only, Touches
        <5>5. Only(e, b, A)
          BY <3>1, <4>1, <5>2, <5>3, <5>4 DEF Only
        <5> QED BY <5>4, <5>5 DEF Leaf, Only
      <4> QED BY <4>2, <4>3
    <3> QED BY <3>2, <3>3
  <2> QED BY <2>1, <2>2
<1> QED BY <1>1, <1>2 DEF Forest

\* There are fewer walls than blocks.
LEMMA ForestSmall ==
  ASSUME NEW B, IsFiniteSet(B), B # {}, NEW W, IsFiniteSet(W), Forest(W, B)
  PROVE  Cardinality(W) <= Cardinality(B) - 1
<1> DEFINE Few(A, C) == Cardinality(A) <= Cardinality(C) - 1
           D == {A \in SUBSET W :
                   \A C \in SUBSET B : C # {} /\ A \subseteq Between(C) => Few(A, C)}
<1>0. \A C \in SUBSET B : /\ IsFiniteSet(C) /\ Cardinality(C) \in Nat
                          /\ C # {} => Cardinality(C) # 0
  BY FS_Subset, FS_CardinalityType, FS_EmptySet
<1>1. ASSUME NEW A \in SUBSET W, \A r \in SUBSET A : r # A => r \in D
      PROVE  A \in D
  <2> SUFFICES ASSUME NEW C \in SUBSET B, C # {}, A \subseteq Between(C)
               PROVE  Few(A, C)
    OBVIOUS
  <2>1. CASE A = {}
    <3>1. Cardinality(A) = 0
      BY <2>1, FS_EmptySet
    <3> QED BY <1>0, <3>1
  <2>2. CASE A # {}
    <3>1. PICK b \in B : Leaf(b, A)
      BY <2>2 DEF Forest
    <3>2. PICK w \in A : Only(w, b, A)
      BY <3>1 DEF Leaf
    <3>3. First(w) \in C /\ Second(w) \in C /\ First(w) # Second(w)
      BY EndsDiffer
    <3>4. b \in C /\ C \ {b} # {}
      BY <3>2, <3>3 DEF Only, Touches
    <3>5. A \ {w} \subseteq Between(C \ {b})
      BY <3>2 DEF Only, Touches, Between
    <3>6. Few(A \ {w}, C \ {b})
      <4>1. A \ {w} \in D
        BY <1>1
      <4> HIDE DEF Few
      <4> QED BY <3>4, <3>5, <4>1
    <3>7. /\ Cardinality(A \ {w}) = Cardinality(A) - 1
          /\ Cardinality(C \ {b}) = Cardinality(C) - 1
          /\ Cardinality(A) \in Nat /\ Cardinality(C) \in Nat
      <4>1. IsFiniteSet(A)
        BY FS_Subset
      <4> QED BY <1>0, <3>4, <4>1, FS_RemoveElement, FS_CardinalityType
    <3> QED BY <3>6, <3>7
  <2> QED BY <2>1, <2>2
<1>2. W \in D
  <2>1. D \in SUBSET SUBSET W
    OBVIOUS
  <2> HIDE DEF D
  <2> QED BY <1>1, <2>1, SubsetInduction
<1>3. W \subseteq Between(B)
  BY DEF Forest
<1> QED BY <1>2, <1>3

-----------------------------------------------------------------------------
(* The walls that createMap builds close no loop.                          *)

Walls == (Cells \ Beneath) \ Blocks

Trimmed(c) == \/ width % 2 # 1 /\ c[2] = width - 1
              \/ height % 2 # 1 /\ c[1] = height - 1

\* What floor a map with the walls W has in the end.
Floor(W) == {c \in Cells : c \notin Blocks \cup W \/ Trimmed(c)}

Shape ==
    /\ pc # "done" => Blocks \cap Beneath = {} /\ Forest(Walls, Blocks)
    /\ pc = "done" => \E W : Forest(W, Blocks) /\ Beneath = Floor(W)

LEMMA ShapeInit ==
  ASSUME Init
  PROVE  Shape
<1>1. PICK label \in [Blocks -> Labels] :
         arr = [c \in Cells |-> IF c \in Blocks THEN label[c] ELSE 0]
  BY DEF Init
<1>2. \A c \in Blocks : c \in Cells /\ label[c] # 0
  BY LabyrinthAssumption DEF Blocks
<1>3. Beneath = Cells \ Blocks
  BY <1>1, <1>2 DEF Beneath
<1>4. Blocks \cap Beneath = {} /\ Walls = {}
  BY <1>2, <1>3 DEF Walls
<1>5. Forest({}, Blocks)
  BY DEF Forest
<1> QED BY <1>4, <1>5 DEF Init, Shape

\* Where a block is joined to a lower one, another wall is added that closes no
\* loop: the two did not hang together, since their labels differ.
LEMMA JoinForest ==
  ASSUME Sound, pc = "fill", Blocks \cap Beneath = {}, Forest(Walls, Blocks),
         NEW s \in {Right, Down, Up, Left},
         Beside(cell, s, 2) \in Cells, arr[Beside(cell, s, 2)] < arr[cell]
  PROVE  /\ Beside(cell, s, 2) \in Blocks
         /\ Beside(cell, s, 1) \in Cells \ Blocks
         /\ Forest(Walls \cup {Beside(cell, s, 1)}, Blocks)
<1> DEFINE n == Beside(cell, s, 2)
           w == Beside(cell, s, 1)
<1>1. /\ cell \in Blocks /\ cell[1] \in 0 .. height - 1 /\ cell[2] \in 0 .. width - 1
      /\ cell[1] % 2 = 1 /\ cell[2] % 2 = 1 /\ cell = <<cell[1], cell[2]>>
  BY DEF Sound, OnBlock, Blocks, Cells
<1>2. Framed /\ arr \in Maps /\ TouchingAgree
  BY SizesFramed DEF Sound
<1>3. n \in Blocks /\ w \in Cells \ Blocks /\ w \in Int \X Int /\ w[1] % 2 # w[2] % 2
      /\ {First(w), Second(w)} = {cell, n}
  <2> DEFINE i == cell[1]
             j == cell[2]
  <2>1. i \in Int /\ j \in Int /\ i % 2 = 1 /\ j % 2 = 1 /\ cell = <<i, j>>
    BY <1>1
  <2>2. n[1] \in 0 .. height - 1 /\ n[2] \in 0 .. width - 1 /\ n \in Cells
    BY DEF Cells
  <2>3. i \in 0 .. height - 1 /\ j \in 0 .. width - 1
    BY <1>1
  <2> HIDE DEF i, j
  <2>4. CASE s = Right
    <3>1. n = <<i, j + 2>> /\ w = <<i, j + 1>>
      BY <2>1, <2>4 DEF Beside, Right
    <3> HIDE DEF n, w
    <3>2. /\ First(w) = cell /\ Second(w) = n /\ w[1] % 2 = 1 /\ w[2] % 2 = 0
          /\ n[1] % 2 = 1 /\ n[2] % 2 = 1
      BY <2>1, <3>1, WallBetween
    <3>3. w \in Cells /\ w \in Int \X Int
      <4>1. n[1] \in 0 .. height - 1 /\ n[2] \in 0 .. width - 1
        BY <2>2
      <4>2. height \in Int /\ width \in Int
        BY <1>2 DEF Framed
      <4>3. w[1] \in 0 .. height - 1 /\ w[2] \in 0 .. width - 1 /\ w = <<w[1], w[2]>>
        BY <2>1, <2>3, <3>1, <4>1, <4>2
      <4> QED BY <4>3 DEF Cells
    <3>4. n \in Blocks /\ w \notin Blocks
      BY <2>2, <3>2 DEF Blocks
    <3> QED BY <3>2, <3>3, <3>4
  <2>5. CASE s = Down
    <3>1. n = <<i + 2, j>> /\ w = <<i + 1, j>>
      BY <2>1, <2>5 DEF Beside, Down
    <3> HIDE DEF n, w
    <3>2. /\ First(w) = cell /\ Second(w) = n /\ w[1] % 2 = 0 /\ w[2] % 2 = 1
          /\ n[1] % 2 = 1 /\ n[2] % 2 = 1
      BY <2>1, <3>1, WallBetween
    <3>3. w \in Cells /\ w \in Int \X Int
      <4>1. n[1] \in 0 .. height - 1 /\ n[2] \in 0 .. width - 1
        BY <2>2
      <4>2. height \in Int /\ width \in Int
        BY <1>2 DEF Framed
      <4>3. w[1] \in 0 .. height - 1 /\ w[2] \in 0 .. width - 1 /\ w = <<w[1], w[2]>>
        BY <2>1, <2>3, <3>1, <4>1, <4>2
      <4> QED BY <4>3 DEF Cells
    <3>4. n \in Blocks /\ w \notin Blocks
      BY <2>2, <3>2 DEF Blocks
    <3> QED BY <3>2, <3>3, <3>4
  <2>6. CASE s = Up
    <3>1. n = <<i - 2, j>> /\ w = <<i - 1, j>>
      BY <2>1, <2>6 DEF Beside, Up
    <3> HIDE DEF n, w
    <3> DEFINE h == i - 2
    <3>2. h \in Int /\ h % 2 = 1 /\ n = <<h, j>> /\ w = <<h + 1, j>> /\ cell = <<h + 2, j>>
      BY <2>1, <3>1
    <3> HIDE DEF h
    <3>3. /\ First(w) = n /\ Second(w) = cell /\ w[1] % 2 = 0 /\ w[2] % 2 = 1
          /\ n[1] % 2 = 1 /\ n[2] % 2 = 1
      BY <2>1, <3>2, WallBetween
    <3>4. w \in Cells /\ w \in Int \X Int
      <4>1. n[1] \in 0 .. height - 1 /\ n[2] \in 0 .. width - 1
        BY <2>2
      <4>2. height \in Int /\ width \in Int
        BY <1>2 DEF Framed
      <4>3. w[1] \in 0 .. height - 1 /\ w[2] \in 0 .. width - 1 /\ w = <<w[1], w[2]>>
        BY <2>1, <2>3, <3>1, <4>1, <4>2
      <4> QED BY <4>3 DEF Cells
    <3>5. n \in Blocks /\ w \notin Blocks
      BY <2>2, <3>3 DEF Blocks
    <3> QED BY <3>3, <3>4, <3>5
  <2>7. CASE s = Left
    <3>1. n = <<i, j - 2>> /\ w = <<i, j - 1>>
      BY <2>1, <2>7 DEF Beside, Left
    <3> HIDE DEF n, w
    <3> DEFINE h == j - 2
    <3>2. h \in Int /\ h % 2 = 1 /\ n = <<i, h>> /\ w = <<i, h + 1>> /\ cell = <<i, h + 2>>
      BY <2>1, <3>1
    <3> HIDE DEF h
    <3>3. /\ First(w) = n /\ Second(w) = cell /\ w[1] % 2 = 1 /\ w[2] % 2 = 0
          /\ n[1] % 2 = 1 /\ n[2] % 2 = 1
      BY <2>1, <3>2, WallBetween
    <3>4. w \in Cells /\ w \in Int \X Int
      <4>1. n[1] \in 0 .. height - 1 /\ n[2] \in 0 .. width - 1
        BY <2>2
      <4>2. height \in Int /\ width \in Int
        BY <1>2 DEF Framed
      <4>3. w[1] \in 0 .. height - 1 /\ w[2] \in 0 .. width - 1 /\ w = <<w[1], w[2]>>
        BY <2>1, <2>3, <3>1, <4>1, <4>2
      <4> QED BY <4>3 DEF Cells
    <3>5. n \in Blocks /\ w \notin Blocks
      BY <2>2, <3>3 DEF Blocks
    <3> QED BY <3>3, <3>4, <3>5
  <2> QED BY <2>4, <2>5, <2>6, <2>7
<1> HIDE DEF n, w
<1>4. w \in Between(Blocks)
  BY <1>1, <1>3 DEF Between
<1> DEFINE X == {b \in Blocks : arr[b] = arr[cell]}
<1>5. n \notin X /\ cell \in X
  <2>1. arr[n] \in Nat /\ arr[cell] \in Nat /\ arr[n] < arr[cell]
    BY <1>1, <1>2, <1>3 DEF n, Maps, Blocks
  <2> QED BY <1>1, <2>1
<1>6. ASSUME NEW e \in Walls PROVE First(e) \in X <=> Second(e) \in X
  <2>1. /\ First(e) \in Blocks /\ Second(e) \in Blocks /\ e[1] % 2 # e[2] % 2
        /\ e \in Cells \ Beneath /\ e = <<e[1], e[2]>> /\ e[1] \in Int /\ e[2] \in Int
    BY DEF Forest, Between, Walls, Cells
  <2>2. First(e) \in Cells \ Beneath /\ Second(e) \in Cells \ Beneath
    BY <2>1 DEF Blocks
  <2>3. \E t \in {Right, Down} : Beside(First(e), t, 1) = e /\ Beside(e, t, 1) = Second(e)
    <3>1. CASE e[1] % 2 = 1
      <4>1. First(e) = <<e[1], e[2] - 1>> /\ Second(e) = <<e[1], e[2] + 1>>
        BY <3>1 DEF First, Second
      <4>2. Beside(First(e), Right, 1) = e /\ Beside(e, Right, 1) = Second(e)
        BY <2>1, <4>1 DEF Beside, Right
      <4> QED BY <4>2
    <3>2. CASE e[1] % 2 # 1
      <4>1. First(e) = <<e[1] - 1, e[2]>> /\ Second(e) = <<e[1] + 1, e[2]>>
        BY <3>2 DEF First, Second
      <4>2. Beside(First(e), Down, 1) = e /\ Beside(e, Down, 1) = Second(e)
        BY <2>1, <4>1 DEF Beside, Down
      <4> QED BY <4>2
    <3> QED BY <3>1, <3>2
  <2>4. arr[First(e)] = arr[e] /\ arr[e] = arr[Second(e)]
    BY <1>2, <2>1, <2>2, <2>3 DEF TouchingAgree
  <2> QED BY <2>1, <2>4
<1>7. Forest(Walls \cup {w}, Blocks)
  <2>1. X \in SUBSET Blocks /\ cell \in X /\ n \in Blocks \ X
    BY <1>3, <1>5
  <2> HIDE DEF X
  <2> QED BY <1>3, <1>4, <1>6, <2>1, ForestJoin
<1> QED BY <1>3, <1>7 DEF n, w

LEMMA ShapeStep ==
  ASSUME Sound, Shape, Next
  PROVE  Shape'
<1>0. /\ Framed /\ (pc # "done" => arr \in Maps) /\ pc \in {"fill", "update", "trim", "done"}
  BY SizesFramed DEF Sound, TypeOK
<1>1. CASE Update
  <2>1. /\ arr' = Pass(arr) /\ pc = "update" /\ pc' \in {"fill", "update"}
        /\ UNCHANGED <<height, width>>
    BY <1>1 DEF Update
  <2>2. <<arr, arr'>> \in Grow
    BY <1>0, <2>1, PassGrows
  <2>3. Cells' = Cells /\ Blocks' = Blocks
    BY <2>1 DEF Cells, Blocks
  <2>4. Beneath' = Beneath
    BY <2>2, <2>3 DEF Beneath, Grow, Grows
  <2>5. Walls' = Walls
    BY <2>3, <2>4 DEF Walls
  <2> QED BY <2>1, <2>3, <2>4, <2>5 DEF Shape
<1>2. CASE Draw \/ NextBlock
  <2>1. /\ pc = "fill" /\ pc' \in {"fill", "trim"}
        /\ UNCHANGED <<height, width, arr>>
    BY <1>2 DEF Draw, NextBlock
  <2>2. Cells' = Cells /\ Blocks' = Blocks /\ Beneath' = Beneath
    BY <2>1 DEF Cells, Blocks, Beneath
  <2>3. Walls' = Walls
    BY <2>2 DEF Walls
  <2> QED BY <2>1, <2>2, <2>3 DEF Shape
<1>3. CASE Join
  <2> DEFINE s == Sides[side]
             n == Beside(cell, s, 2)
             w == Beside(cell, s, 1)
  <2>1. pc = "fill" /\ side \in 1 .. 4 /\ UNCHANGED <<height, width>>
    BY <1>3 DEF Join
  <2>2. Cells' = Cells /\ Blocks' = Blocks
    BY <2>1 DEF Cells, Blocks
  <2>3. Blocks \cap Beneath = {} /\ Forest(Walls, Blocks)
    BY <2>1 DEF Shape
  <2>4. CASE n \in Cells /\ arr[n] < arr[cell]
    <3>1. arr' = [arr EXCEPT ![n] = arr[cell], ![w] = arr[cell]] /\ pc' = "update"
      BY <1>3, <2>4 DEF Join
    <3>2. s \in {Right, Down, Up, Left}
      <4>1. side = 1 \/ side = 2 \/ side = 3 \/ side = 4
        BY <2>1
      <4> QED BY <4>1 DEF Sides
    <3> HIDE DEF s
    <3>3. /\ n \in Blocks /\ w \in Cells \ Blocks /\ Forest(Walls \cup {w}, Blocks)
      BY <2>1, <2>3, <2>4, <3>2, JoinForest
    <3>4. arr \in Maps /\ arr[cell] # 0
      <4>1. cell \in Blocks
        BY <2>1 DEF Sound, OnBlock
      <4> QED BY <1>0, <2>1, <2>3, <4>1 DEF Beneath, Blocks
    <3> HIDE DEF n, w
    <3>5. \A c \in Cells : arr'[c] = 0 <=> arr[c] = 0 /\ c \notin {n, w}
      BY <3>1, <3>4 DEF Maps
    <3>6. Beneath' = Beneath \ {w}
      BY <2>2, <2>3, <3>3, <3>5 DEF Beneath
    <3>7. Walls' = Walls \cup {w}
      BY <2>2, <3>3, <3>6 DEF Walls
    <3> QED BY <2>2, <2>3, <3>1, <3>3, <3>6, <3>7 DEF Shape
  <2>5. CASE ~(n \in Cells /\ arr[n] < arr[cell])
    <3>1. UNCHANGED <<arr, pc>>
      BY <1>3, <2>5 DEF Join
    <3>2. Beneath' = Beneath
      BY <2>2, <3>1 DEF Beneath
    <3>3. Walls' = Walls
      BY <2>2, <3>2 DEF Walls
    <3> QED BY <2>1, <2>2, <2>3, <3>1, <3>2, <3>3 DEF Shape
  <2> QED BY <2>4, <2>5
<1>4. CASE Trim
  <2>1. /\ pc = "trim" /\ pc' = "done" /\ UNCHANGED <<height, width>>
        /\ arr' = [c \in Cells |-> IF arr[c] = 0 \/ Trimmed(c) THEN 0 ELSE 1]
    BY <1>4 DEF Trim, Trimmed
  <2>2. Cells' = Cells /\ Blocks' = Blocks
    BY <2>1 DEF Cells, Blocks
  <2>3. Floor(Walls) = {c \in Cells : arr[c] = 0 \/ Trimmed(c)}
    BY <2>1 DEF Shape, Floor, Walls, Beneath
  <2>4. Beneath' = Floor(Walls)
    BY <2>1, <2>2, <2>3 DEF Beneath
  <2>5. \A W : Floor(W)' = Floor(W)
    BY <2>1, <2>2 DEF Floor, Trimmed
  <2>6. Forest(Walls, Blocks)
    BY <2>1 DEF Shape
  <2>7. \E W : Forest(W, Blocks)' /\ Beneath' = Floor(W)'
    BY <2>2, <2>4, <2>5, <2>6
  <2> QED BY <2>1, <2>7 DEF Shape
<1> QED BY <1>1, <1>2, <1>3, <1>4 DEF Next

LEMMA ShapeStutter ==
  ASSUME Shape, UNCHANGED vars
  PROVE  Shape'
<1>1. pc' = pc /\ height' = height /\ width' = width /\ arr' = arr
  BY DEF vars
<1>2. Cells' = Cells /\ Blocks' = Blocks /\ Beneath' = Beneath
  BY <1>1 DEF Cells, Blocks, Beneath
<1>3. Walls' = Walls /\ \A W : Floor(W)' = Floor(W)
  BY <1>1, <1>2 DEF Walls, Floor, Trimmed
<1> QED BY <1>1, <1>2, <1>3 DEF Shape

THEOREM ShapeHolds == Spec => [](Sound /\ Shape)
<1>1. Init => Sound /\ Shape
  BY SoundInit, ShapeInit
<1>2. Sound /\ Shape /\ [Next]_vars => Sound' /\ Shape'
  BY SoundStep, SoundStutter, ShapeStep, ShapeStutter
<1> QED BY <1>1, <1>2, PTL DEF Spec

-----------------------------------------------------------------------------
(* EnoughFloor.                                                            *)

LEMMA FloorLeft ==
  ASSUME Sound, Shape
  PROVE  EnoughFloor
<1>0. Framed
  BY SizesFramed DEF Sound
<1>1. IsFiniteSet(Cells) /\ Cardinality(Cells) = height * width
  <2>1. /\ IsFiniteSet(0 .. height - 1) /\ Cardinality(0 .. height - 1) = height
        /\ IsFiniteSet(0 .. width - 1) /\ Cardinality(0 .. width - 1) = width
    BY <1>0, FS_Interval DEF Framed
  <2> DEFINE I == 0 .. height - 1
             J == 0 .. width - 1
  <2> HIDE DEF I, J
  <2>2. IsFiniteSet(I \X J) /\ Cardinality(I \X J) = Cardinality(I) * Cardinality(J)
    BY <2>1, FS_Product DEF I, J
  <2>3. Cells = I \X J /\ Cardinality(I) = height /\ Cardinality(J) = width
    BY <2>1 DEF I, J, Cells
  <2> QED BY <2>2, <2>3
<1>2. IsFiniteSet(Blocks) /\ Blocks # {} /\ Blocks \subseteq Cells
  <2>1. <<1, 1>> \in Blocks
    BY <1>0 DEF Framed, Blocks, Cells
  <2>2. Blocks \subseteq Cells
    BY DEF Blocks
  <2> QED BY <1>1, <2>1, <2>2, FS_Subset
<1>3. PICK W : Forest(W, Blocks) /\ Cells \ (Blocks \cup W) \subseteq Beneath
  <2>1. CASE pc # "done"
    <3>1. Cells \ (Blocks \cup Walls) \subseteq Beneath
      BY DEF Walls
    <3> QED BY <2>1, <3>1 DEF Shape
  <2>2. CASE pc = "done"
    <3>1. PICK W : Forest(W, Blocks) /\ Beneath = Floor(W)
      BY <2>2 DEF Shape
    <3> QED BY <3>1 DEF Floor
  <2> QED BY <2>1, <2>2
<1> DEFINE V == W \cap Cells
<1>4. Forest(V, Blocks) /\ Cells \ (Blocks \cup V) \subseteq Beneath
  <2>1. V \in SUBSET W
    OBVIOUS
  <2> QED BY <1>3, <2>1 DEF Forest
<1>5. IsFiniteSet(V)
  BY <1>1, FS_Subset
<1> HIDE DEF V
<1>6. Cardinality(V) <= Cardinality(Blocks) - 1
  BY <1>2, <1>4, <1>5, ForestSmall
<1>7. /\ IsFiniteSet(Blocks \cup V)
      /\ Cardinality(Blocks \cup V) <= Cardinality(Blocks) + Cardinality(V)
      /\ Cardinality(Blocks \cup V) \in Nat
  <2>1. /\ IsFiniteSet(Blocks \cup V)
        /\ Cardinality(Blocks \cup V)
              = Cardinality(Blocks) + Cardinality(V) - Cardinality(Blocks \cap V)
    BY <1>2, <1>5, FS_Union
  <2>2. IsFiniteSet(Blocks \cap V)
    BY <1>2, FS_Subset
  <2>3. /\ Cardinality(Blocks \cap V) \in Nat /\ Cardinality(Blocks) \in Nat
        /\ Cardinality(V) \in Nat /\ Cardinality(Blocks \cup V) \in Nat
    BY <1>2, <1>5, <2>1, <2>2, FS_CardinalityType
  <2> QED BY <2>1, <2>3
<1>8. Cardinality(Cells \ (Blocks \cup V)) >= height * width - Cardinality(Blocks \cup V)
  <2>1. Cardinality(Cells \ (Blocks \cup V))
           = Cardinality(Cells) - Cardinality(Cells \cap (Blocks \cup V))
    BY <1>1, FS_Difference
  <2>2. /\ Cardinality(Cells \cap (Blocks \cup V)) <= Cardinality(Blocks \cup V)
        /\ Cardinality(Cells \cap (Blocks \cup V)) \in Nat
    <3>1. Cells \cap (Blocks \cup V) \in SUBSET (Blocks \cup V)
      OBVIOUS
    <3> QED BY <1>7, <3>1, FS_Subset, FS_CardinalityType
  <2>3. Cardinality(Cells) \in Nat
    BY <1>1, FS_CardinalityType
  <2> QED BY <1>1, <1>7, <2>1, <2>2, <2>3
<1>9. /\ Cardinality(Cells \ (Blocks \cup V)) <= Cardinality(Beneath)
      /\ Cardinality(Beneath) \in Nat /\ Cardinality(Cells \ (Blocks \cup V)) \in Nat
  <2>1. Beneath \in SUBSET Cells
    BY DEF Beneath
  <2>2. IsFiniteSet(Beneath)
    BY <1>1, <2>1, FS_Subset
  <2>3. Cells \ (Blocks \cup V) \in SUBSET Beneath
    BY <1>4
  <2> QED BY <2>2, <2>3, FS_Subset, FS_CardinalityType
<1>10. Cardinality(Blocks) \in Nat /\ Cardinality(V) \in Nat /\ height * width \in Nat
  BY <1>0, <1>1, <1>2, <1>5, FS_CardinalityType DEF Framed
<1> HIDE DEF Framed
<1> QED BY <1>6, <1>7, <1>8, <1>9, <1>10 DEF EnoughFloor

\* Whatever labels are drawn and whatever blocks are joined, what is left of
\* the floor has the minimum that the placements of players and ghosts rely on.
THEOREM EnoughFloorHolds == Spec => []EnoughFloor
<1>1. Sound /\ Shape => EnoughFloor
  BY FloorLeft
<1> QED BY <1>1, ShapeHolds, PTL

-----------------------------------------------------------------------------
(* FloorInOnePiece.                                                        *)

\* A part R of the floor F that holds the corner and nothing leads out of.
Closed(R, F) == R \subseteq F /\ <<0, 0>> \in R /\ Around(R) \cap F \subseteq R

\* There is no such part but the whole.
Whole(F) == \A R : Closed(R, F) => R = F

LEMMA AroundIs ==
  /\ \A c, d, R : c \in R /\ d \in Around({c}) => d \in Around(R)
  /\ \A d, R : d \in Around(R) => \E c \in R : d \in Around({c})
  /\ \A i, j \in Int : Around({<<i, j>>})
                          = {<<i, j + 1>>, <<i + 1, j>>, <<i - 1, j>>, <<i, j - 1>>}
  /\ \A c \in Int \X Int : \A d \in Around({c}) : d \in Int \X Int /\ c \in Around({d})
<1>1. \A c, d, R : c \in R /\ d \in Around({c}) => d \in Around(R)
  BY DEF Around
<1>2. \A d, R : d \in Around(R) => \E c \in R : d \in Around({c})
  BY DEF Around
<1>3. ASSUME NEW i \in Int, NEW j \in Int
      PROVE  Around({<<i, j>>})
                = {<<i, j + 1>>, <<i + 1, j>>, <<i - 1, j>>, <<i, j - 1>>}
  <2>1. /\ Beside(<<i, j>>, Right, 1) = <<i, j + 1>>
        /\ Beside(<<i, j>>, Down, 1) = <<i + 1, j>>
        /\ Beside(<<i, j>>, Up, 1) = <<i - 1, j>>
        /\ Beside(<<i, j>>, Left, 1) = <<i, j - 1>>
    BY DEF Beside, Right, Down, Up, Left
  <2>2. Around({<<i, j>>}) = {Beside(<<i, j>>, s, 1) : s \in {Right, Down, Up, Left}}
    BY DEF Around
  <2> QED BY <2>1, <2>2
<1>4. ASSUME NEW c \in Int \X Int, NEW d \in Around({c})
      PROVE  d \in Int \X Int /\ c \in Around({d})
  <2>1. PICK i \in Int, j \in Int : c = <<i, j>>
    OBVIOUS
  <2>2. d \in {<<i, j + 1>>, <<i + 1, j>>, <<i - 1, j>>, <<i, j - 1>>}
    BY <1>3, <1>4, <2>1
  <2>3. CASE d = <<i, j + 1>>
    BY <1>3, <2>1, <2>3
  <2>4. CASE d = <<i + 1, j>>
    BY <1>3, <2>1, <2>4
  <2>5. CASE d = <<i - 1, j>>
    BY <1>3, <2>1, <2>5
  <2>6. CASE d = <<i, j - 1>>
    BY <1>3, <2>1, <2>6
  <2> QED BY <2>2, <2>3, <2>4, <2>5, <2>6
<1> QED BY <1>1, <1>2, <1>3, <1>4

\* Cells of the floor side by side are both in R, or neither is.
Links(F, R, i, j) ==
    <<i, j>> \in F => /\ <<i, j + 1>> \in F => (<<i, j>> \in R <=> <<i, j + 1>> \in R)
                      /\ <<i + 1, j>> \in F => (<<i, j>> \in R <=> <<i + 1, j>> \in R)

LEMMA Linked ==
  ASSUME NEW F, NEW R, Closed(R, F), NEW i \in Int, NEW j \in Int
  PROVE  Links(F, R, i, j)
<1> SUFFICES ASSUME <<i, j>> \in F
             PROVE  /\ <<i, j + 1>> \in F => (<<i, j>> \in R <=> <<i, j + 1>> \in R)
                    /\ <<i + 1, j>> \in F => (<<i, j>> \in R <=> <<i + 1, j>> \in R)
  BY DEF Links
<1>1. ASSUME NEW c \in Int \X Int, NEW d \in Around({c}), c \in F, d \in F
      PROVE  c \in R <=> d \in R
  <2>1. d \in Int \X Int /\ c \in Around({d})
    BY AroundIs
  <2> QED BY <1>1, <2>1, AroundIs DEF Closed
<1>2. <<i, j + 1>> \in Around({<<i, j>>}) /\ <<i + 1, j>> \in Around({<<i, j>>})
  BY AroundIs
<1> QED BY <1>1, <1>2

\* Before any wall is built.
LEMMA BareFloor ==
  ASSUME Framed
  PROVE  Whole(Floor({}))
<1> SUFFICES ASSUME NEW R, Closed(R, Floor({})) PROVE R = Floor({})
  BY DEF Whole
<1> DEFINE F == Floor({})
<1>1. ASSUME NEW i \in 0 .. height - 1, NEW j \in 0 .. width - 1, i % 2 = 0 \/ j % 2 = 0
      PROVE  <<i, j>> \in F
  BY <1>1 DEF Floor, Cells, Blocks
<1>0. Closed(R, F)
  OBVIOUS
<1> HIDE DEF F
<1>2. \A j \in Nat : j <= width - 1 => <<0, j>> \in R
  <2> DEFINE N == {j \in Nat : j <= width - 1 => <<0, j>> \in R}
  <2>1. 0 \in N
    BY <1>0 DEF Closed
  <2>2. ASSUME NEW j \in N PROVE j + 1 \in N
    <3> SUFFICES ASSUME j + 1 <= width - 1 PROVE <<0, j + 1>> \in R
      OBVIOUS
    <3>1. /\ j <= width - 1 /\ j \in 0 .. width - 1 /\ j + 1 \in 0 .. width - 1
          /\ 0 \in 0 .. height - 1 /\ 0 % 2 = 0
      BY DEF Framed
    <3>2. <<0, j>> \in F /\ <<0, j + 1>> \in F /\ <<0, j>> \in R
      BY <1>1, <3>1
    <3>3. Links(F, R, 0, j)
      BY <1>0, Linked, <3>1
    <3> QED BY <3>2, <3>3 DEF Links
  <2>3. N \in SUBSET Nat
    OBVIOUS
  <2>4. \A j \in Nat : j \in N
    <3> HIDE DEF N
    <3> QED BY <2>1, <2>2, <2>3, NatInd
  <2> QED BY <2>4
<1>3. ASSUME NEW j \in 0 .. width - 1, j % 2 = 0
      PROVE  \A i \in Nat : i <= height - 1 => <<i, j>> \in R
  <2> DEFINE N == {i \in Nat : i <= height - 1 => <<i, j>> \in R}
  <2>1. 0 \in N
    BY <1>2
  <2>2. ASSUME NEW i \in N PROVE i + 1 \in N
    <3> SUFFICES ASSUME i + 1 <= height - 1 PROVE <<i + 1, j>> \in R
      OBVIOUS
    <3>1. i <= height - 1 /\ i \in 0 .. height - 1 /\ i + 1 \in 0 .. height - 1
      BY DEF Framed
    <3>2. <<i, j>> \in F /\ <<i + 1, j>> \in F /\ <<i, j>> \in R
      BY <1>1, <1>3, <3>1
    <3>3. Links(F, R, i, j)
      BY <1>0, Linked, <3>1
    <3> QED BY <3>2, <3>3 DEF Links
  <2>3. N \in SUBSET Nat
    OBVIOUS
  <2>4. \A i \in Nat : i \in N
    <3> HIDE DEF N
    <3> QED BY <2>1, <2>2, <2>3, NatInd
  <2> QED BY <2>4
<1>4. ASSUME NEW c \in F PROVE c \in R
  <2>1. PICK i \in 0 .. height - 1, j \in 0 .. width - 1 : c = <<i, j>>
    BY DEF F, Floor, Cells
  <2>2. i \in Nat /\ i <= height - 1 /\ j \in Nat /\ j <= width - 1
    BY DEF Framed
  <2>3. CASE j % 2 = 0
    BY <1>3, <2>1, <2>2, <2>3
  <2>4. CASE j % 2 # 0
    <3> DEFINE h == j - 1
    <3>1. h \in 0 .. width - 1 /\ h % 2 = 0 /\ j = h + 1 /\ h \in Int
      BY <2>2, <2>4 DEF Framed
    <3> HIDE DEF h
    <3>2. <<i, h>> \in R /\ <<i, h>> \in F
      BY <1>1, <1>3, <2>2, <3>1
    <3>3. <<i, h + 1>> \in F
      BY <2>1, <3>1
    <3>4. <<i, h + 1>> \in R
      <4>1. Links(F, R, i, h)
        BY <1>0, Linked, <2>2, <3>1
      <4> QED BY <3>2, <3>3, <4>1 DEF Links
    <3> QED BY <2>1, <3>1, <3>4
  <2> QED BY <2>3, <2>4
<1> QED BY <1>0, <1>4 DEF Closed, F

\* What there is of the floor whatever walls are built.
LEMMA FloorIs ==
  ASSUME Framed, NEW A \in SUBSET Between(Blocks)
  PROVE  /\ \A i \in 0 .. height - 1, j \in 0 .. width - 1 :
              /\ i % 2 = 0 /\ j % 2 = 0 => <<i, j>> \in Floor(A)
              /\ i % 2 # j % 2 /\ <<i, j>> \notin A => <<i, j>> \in Floor(A)
              /\ Trimmed(<<i, j>>) => <<i, j>> \in Floor(A)
              /\ i % 2 = 1 /\ j % 2 = 1 /\ ~Trimmed(<<i, j>>) => <<i, j>> \notin Floor(A)
         /\ \A w \in A : ~Trimmed(w) => w \notin Floor(A)
<1>1. ASSUME NEW i \in 0 .. height - 1, NEW j \in 0 .. width - 1
      PROVE  /\ i % 2 = 0 /\ j % 2 = 0 => <<i, j>> \in Floor(A)
             /\ i % 2 # j % 2 /\ <<i, j>> \notin A => <<i, j>> \in Floor(A)
             /\ Trimmed(<<i, j>>) => <<i, j>> \in Floor(A)
             /\ i % 2 = 1 /\ j % 2 = 1 /\ ~Trimmed(<<i, j>>) => <<i, j>> \notin Floor(A)
  <2>1. <<i, j>> \in Cells
    BY DEF Cells
  <2>2. i % 2 = 0 /\ j % 2 = 0 => <<i, j>> \notin Blocks \cup A
    BY DEF Blocks, Between
  <2>3. i % 2 # j % 2 => <<i, j>> \notin Blocks
    BY DEF Blocks
  <2>4. i % 2 = 1 /\ j % 2 = 1 => <<i, j>> \in Blocks
    BY <2>1 DEF Blocks
  <2> HIDE DEF Trimmed
  <2> QED BY <2>1, <2>2, <2>3, <2>4 DEF Floor
<1>2. \A w \in A : ~Trimmed(w) => w \notin Floor(A)
  BY DEF Floor
<1> QED BY <1>1, <1>2

\* Around a block that one wall touches, one can walk from any side of that
\* wall to the other.
LEMMA Corners ==
  ASSUME Framed, NEW A \in SUBSET Between(Blocks), NEW R, Closed(R, Floor(A)),
         NEW i \in 0 .. height - 1, NEW j \in 0 .. width - 1, i % 2 = 1, j % 2 = 1,
         ~Trimmed(<<i, j>>), NEW w, Only(w, <<i, j>>, A)
  PROVE  /\ <<i - 1, j - 1>> \in R <=> <<i - 1, j + 1>> \in R
         /\ <<i - 1, j - 1>> \in R <=> <<i + 1, j - 1>> \in R
         /\ <<i - 1, j - 1>> \in R <=> <<i + 1, j + 1>> \in R
<1> DEFINE F == Floor(A)
<1>0. /\ height \in Nat /\ width \in Nat /\ i \in Int /\ j \in Int
  BY DEF Framed
<1>1. /\ i - 1 \in 0 .. height - 1 /\ i + 1 \in 0 .. height - 1
      /\ j - 1 \in 0 .. width - 1 /\ j + 1 \in 0 .. width - 1
      /\ (i - 1) % 2 = 0 /\ (i + 1) % 2 = 0 /\ (j - 1) % 2 = 0 /\ (j + 1) % 2 = 0
  <2>1. i # height - 1 /\ j # width - 1
    <3>1. i = height - 1 => height % 2 # 1
      BY <1>0
    <3>2. j = width - 1 => width % 2 # 1
      BY <1>0
    <3> QED BY <3>1, <3>2 DEF Trimmed
  <2>2. i # 0 /\ j # 0
    OBVIOUS
  <2> QED BY <1>0, <2>1, <2>2
<1>2. /\ <<i - 1, j - 1>> \in F /\ <<i - 1, j + 1>> \in F
      /\ <<i + 1, j - 1>> \in F /\ <<i + 1, j + 1>> \in F
  BY <1>1, FloorIs
<1>3. /\ <<i - 1, j>> = w \/ <<i - 1, j>> \in F
      /\ <<i + 1, j>> = w \/ <<i + 1, j>> \in F
      /\ <<i, j - 1>> = w \/ <<i, j - 1>> \in F
      /\ <<i, j + 1>> = w \/ <<i, j + 1>> \in F
  <2>1. /\ Touches(<<i - 1, j>>, <<i, j>>) /\ Touches(<<i + 1, j>>, <<i, j>>)
        /\ Touches(<<i, j - 1>>, <<i, j>>) /\ Touches(<<i, j + 1>>, <<i, j>>)
    <3>1. Second(<<i - 1, j>>) = <<i, j>>
      BY <1>0, <1>1 DEF Second
    <3>2. First(<<i + 1, j>>) = <<i, j>>
      BY <1>0, <1>1 DEF First
    <3>3. Second(<<i, j - 1>>) = <<i, j>>
      BY <1>0, <1>1 DEF Second
    <3>4. First(<<i, j + 1>>) = <<i, j>>
      BY <1>0, <1>1 DEF First
    <3> QED BY <3>1, <3>2, <3>3, <3>4 DEF Touches
  <2>2. \A x \in A : Touches(x, <<i, j>>) => x = w
    BY DEF Only
  <2> QED BY <1>1, <2>1, <2>2, FloorIs
<1>4. /\ Links(F, R, i - 1, j - 1) /\ Links(F, R, i - 1, j)
      /\ Links(F, R, i + 1, j - 1) /\ Links(F, R, i + 1, j)
      /\ Links(F, R, i, j - 1) /\ Links(F, R, i, j + 1) /\ Links(F, R, i - 1, j + 1)
  BY <1>0, Linked
<1> HIDE DEF F
<1>5. i - 1 + 1 = i /\ j - 1 + 1 = j
  BY <1>0
<1>6. <<i - 1, j>> # w => (<<i - 1, j - 1>> \in R <=> <<i - 1, j + 1>> \in R)
  BY <1>2, <1>3, <1>4, <1>5 DEF Links
<1>7. <<i + 1, j>> # w => (<<i + 1, j - 1>> \in R <=> <<i + 1, j + 1>> \in R)
  BY <1>2, <1>3, <1>4, <1>5 DEF Links
<1>8. <<i, j - 1>> # w => (<<i - 1, j - 1>> \in R <=> <<i + 1, j - 1>> \in R)
  BY <1>2, <1>3, <1>4, <1>5 DEF Links
<1>9. <<i, j + 1>> # w => (<<i - 1, j + 1>> \in R <=> <<i + 1, j + 1>> \in R)
  BY <1>2, <1>3, <1>4, <1>5 DEF Links
<1>10. /\ <<i - 1, j>> # <<i + 1, j>> /\ <<i - 1, j>> # <<i, j - 1>>
       /\ <<i - 1, j>> # <<i, j + 1>> /\ <<i + 1, j>> # <<i, j - 1>>
       /\ <<i + 1, j>> # <<i, j + 1>> /\ <<i, j - 1>> # <<i, j + 1>>
  BY <1>0
<1> QED BY <1>6, <1>7, <1>8, <1>9, <1>10

\* When a wall is built at a block that no other wall touches, one can still
\* walk from any side of it to the other.
LEMMA Detour ==
  ASSUME Framed, NEW A \in SUBSET Between(Blocks), NEW R, Closed(R, Floor(A)),
         NEW w \in A, ~Trimmed(w), NEW v, Only(w, v, A)
  PROVE  \A c, d \in Around({w}) \cap Floor(A) : c \in R => d \in R
<1> DEFINE F == Floor(A)
           i == w[1]
           j == w[2]
<1>0. height \in Nat /\ width \in Nat /\ height > 1 /\ width > 1
  BY DEF Framed
<1>1. /\ i \in Int /\ j \in Int /\ w = <<i, j>> /\ i % 2 # j % 2
      /\ First(w) \in Blocks /\ Second(w) \in Blocks /\ ~Trimmed(<<i, j>>)
  BY DEF Between
<1>2. v = First(w) \/ v = Second(w)
  BY DEF Only, Touches
<1> HIDE DEF i, j
<1>3. CASE i % 2 = 1
  <2>1. First(w) = <<i, j - 1>> /\ Second(w) = <<i, j + 1>>
    BY <1>1, <1>3 DEF First, Second
  <2> DEFINE p == j - 1
             q == j + 1
             g == i - 1
             h == i + 1
  <2>2. /\ j % 2 = 0 /\ p % 2 = 1 /\ q % 2 = 1 /\ g % 2 = 0 /\ h % 2 = 0
        /\ p + 1 = j /\ q - 1 = j /\ j + 1 = q /\ g + 1 = i /\ i + 1 = h
        /\ i - 1 = g /\ p \in Int /\ q \in Int /\ g \in Int /\ h \in Int
    BY <1>1, <1>3
  <2>3. /\ i \in 0 .. height - 1 /\ p \in 0 .. width - 1 /\ q \in 0 .. width - 1
        /\ j \in 0 .. width - 1
    <3>1. <<i, p>> \in Cells /\ <<i, q>> \in Cells
      BY <1>1, <2>1 DEF Blocks
    <3>2. i \in 0 .. height - 1 /\ p \in 0 .. width - 1 /\ q \in 0 .. width - 1
      BY <3>1 DEF Cells
    <3> QED BY <1>0, <1>1, <3>2
  <2>4. g \in 0 .. height - 1 /\ h \in 0 .. height - 1
    <3>1. i # height - 1
      <4>1. i = height - 1 => height % 2 # 1
        BY <1>0, <1>3
      <4> QED BY <1>1, <4>1 DEF Trimmed
    <3> QED BY <1>0, <1>1, <1>3, <2>3, <3>1
  <2>5. Around({w}) = {<<i, q>>, <<h, j>>, <<g, j>>, <<i, p>>}
    BY <1>1, AroundIs
  <2>6. <<i, p>> \notin F /\ (~Trimmed(<<i, q>>) => <<i, q>> \notin F) /\ ~Trimmed(<<i, p>>)
    <3>1. ~Trimmed(<<i, p>>)
      BY <1>0, <1>1, <2>3 DEF Trimmed
    <3> QED BY <1>3, <2>2, <2>3, <3>1, FloorIs
  <2>7. <<g, j>> \in F /\ <<h, j>> \in F
    BY <2>2, <2>3, <2>4, FloorIs
  <2>8. ASSUME Trimmed(<<i, q>>)
        PROVE  (<<g, j>> \in R <=> <<i, q>> \in R) /\ (<<h, j>> \in R <=> <<i, q>> \in R)
    <3>1. Trimmed(<<g, q>>) /\ Trimmed(<<h, q>>)
      BY <1>1, <2>8 DEF Trimmed
    <3>2. <<g, q>> \in F /\ <<h, q>> \in F /\ <<i, q>> \in F
      BY <2>3, <2>4, <2>8, <3>1, FloorIs
    <3>3. Links(F, R, g, j) /\ Links(F, R, g, q) /\ Links(F, R, i, q) /\ Links(F, R, h, j)
      BY <1>0, <1>1, <2>2, Linked
    <3> HIDE DEF F, p, q, g, h
    <3> QED BY <2>2, <2>7, <3>2, <3>3 DEF Links
  <2>9. <<g, j>> \in R <=> <<h, j>> \in R
    <3>1. CASE v = <<i, p>>
      <4> HIDE DEF F, p, q, g, h
      <4>1. Only(w, <<i, p>>, A)
        BY <3>1
      <4>2. /\ <<i - 1, p - 1>> \in R <=> <<i - 1, p + 1>> \in R
            /\ <<i - 1, p - 1>> \in R <=> <<i + 1, p + 1>> \in R
        BY <1>3, <2>2, <2>3, <2>6, <4>1, Corners
      <4> QED BY <2>2, <4>2
    <3>2. CASE v = <<i, q>> /\ ~Trimmed(<<i, q>>)
      <4> HIDE DEF F, p, q, g, h
      <4> QED BY <1>0, <1>3, <2>2, <2>3, <3>2, Corners
    <3>3. CASE Trimmed(<<i, q>>)
      BY <2>8, <3>3
    <3> QED BY <1>2, <2>1, <3>1, <3>2, <3>3
  <2> HIDE DEF p, q, g, h
  <2> QED BY <2>5, <2>6, <2>8, <2>9
<1>4. CASE i % 2 # 1
  <2>1. First(w) = <<i - 1, j>> /\ Second(w) = <<i + 1, j>>
    BY <1>1, <1>4 DEF First, Second
  <2> DEFINE p == i - 1
             q == i + 1
             g == j - 1
             h == j + 1
  <2>2. /\ j % 2 = 1 /\ p % 2 = 1 /\ q % 2 = 1 /\ g % 2 = 0 /\ h % 2 = 0 /\ i % 2 = 0
        /\ p + 1 = i /\ q - 1 = i /\ i + 1 = q /\ g + 1 = j /\ j + 1 = h
        /\ j - 1 = g /\ p \in Int /\ q \in Int /\ g \in Int /\ h \in Int
    BY <1>1, <1>4
  <2>3. /\ j \in 0 .. width - 1 /\ p \in 0 .. height - 1 /\ q \in 0 .. height - 1
        /\ i \in 0 .. height - 1
    <3>1. <<p, j>> \in Cells /\ <<q, j>> \in Cells
      BY <1>1, <2>1 DEF Blocks
    <3>2. j \in 0 .. width - 1 /\ p \in 0 .. height - 1 /\ q \in 0 .. height - 1
      BY <3>1 DEF Cells
    <3> QED BY <1>0, <1>1, <3>2
  <2>4. g \in 0 .. width - 1 /\ h \in 0 .. width - 1
    <3>1. j # width - 1
      <4>1. j = width - 1 => width % 2 # 1
        BY <1>0, <2>2
      <4> QED BY <1>1, <4>1 DEF Trimmed
    <3> QED BY <1>0, <1>1, <2>2, <2>3, <3>1
  <2>5. Around({w}) = {<<i, h>>, <<q, j>>, <<p, j>>, <<i, g>>}
    BY <1>1, AroundIs
  <2>6. <<p, j>> \notin F /\ (~Trimmed(<<q, j>>) => <<q, j>> \notin F) /\ ~Trimmed(<<p, j>>)
    <3>1. ~Trimmed(<<p, j>>)
      BY <1>0, <1>1, <2>3 DEF Trimmed
    <3> QED BY <2>2, <2>3, <3>1, FloorIs
  <2>7. <<i, g>> \in F /\ <<i, h>> \in F
    BY <2>2, <2>3, <2>4, FloorIs
  <2>8. ASSUME Trimmed(<<q, j>>)
        PROVE  (<<i, g>> \in R <=> <<q, j>> \in R) /\ (<<i, h>> \in R <=> <<q, j>> \in R)
    <3>1. Trimmed(<<q, g>>) /\ Trimmed(<<q, h>>)
      BY <1>1, <2>8 DEF Trimmed
    <3>2. <<q, g>> \in F /\ <<q, h>> \in F /\ <<q, j>> \in F
      BY <2>3, <2>4, <2>8, <3>1, FloorIs
    <3>3. Links(F, R, i, g) /\ Links(F, R, q, g) /\ Links(F, R, q, j) /\ Links(F, R, i, h)
      BY <1>0, <1>1, <2>2, Linked
    <3> HIDE DEF F, p, q, g, h
    <3> QED BY <2>2, <2>7, <3>2, <3>3 DEF Links
  <2>9. <<i, g>> \in R <=> <<i, h>> \in R
    <3>1. CASE v = <<p, j>>
      <4> HIDE DEF F, p, q, g, h
      <4> QED BY <1>0, <2>2, <2>3, <2>6, <3>1, Corners
    <3>2. CASE v = <<q, j>> /\ ~Trimmed(<<q, j>>)
      <4> HIDE DEF F, p, q, g, h
      <4> QED BY <1>0, <2>2, <2>3, <3>2, Corners
    <3>3. CASE Trimmed(<<q, j>>)
      BY <2>8, <3>3
    <3> QED BY <1>2, <2>1, <3>1, <3>2, <3>3
  <2> HIDE DEF p, q, g, h
  <2> QED BY <2>5, <2>6, <2>8, <2>9
<1> QED BY <1>3, <1>4

LEMMA OneMoreWall ==
  ASSUME Framed, NEW A \in SUBSET Between(Blocks), NEW w \in A, NEW v, Only(w, v, A),
         Whole(Floor(A \ {w}))
  PROVE  Whole(Floor(A))
<1> DEFINE F == Floor(A)
           G == Floor(A \ {w})
<1>1. CASE Trimmed(w)
  <2>1. F = G
    BY <1>1 DEF Floor
  <2> QED BY <2>1
<1>2. CASE ~Trimmed(w)
  <2> SUFFICES ASSUME NEW R, Closed(R, F) PROVE R = F
    BY DEF Whole
  <2>0. w \in Int \X Int
    BY DEF Between
  <2>1. w \notin F /\ F \subseteq G /\ G \subseteq F \cup {w}
    BY <1>2 DEF Floor
  <2>2. \A c, d \in Around({w}) \cap F : c \in R => d \in R
    BY <1>2, Detour
  <2>3. R \subseteq F /\ <<0, 0>> \in R /\ Around(R) \cap F \subseteq R /\ F \subseteq Cells
    BY DEF Closed, Floor
  <2>4. Whole(G)
    OBVIOUS
  <2>5. w \in Cells
    <3>1. /\ w[1] \in Int /\ w[2] \in Int /\ w = <<w[1], w[2]>>
          /\ First(w) \in Cells /\ Second(w) \in Cells
      <4>1. First(w) \in Blocks /\ Second(w) \in Blocks
        BY DEF Between
      <4>2. Blocks \subseteq Cells
        BY DEF Blocks
      <4> QED BY <2>0, <4>1, <4>2
    <3> DEFINE i == w[1]
               j == w[2]
    <3>4. i \in 0 .. height - 1 /\ j \in 0 .. width - 1
      <4>1. CASE i % 2 = 1
        <5>1. <<i, j - 1>> \in Cells /\ <<i, j + 1>> \in Cells
          BY <3>1, <4>1 DEF First, Second
        <5>2. i \in 0 .. height - 1 /\ j - 1 >= 0 /\ j + 1 <= width - 1
          BY <3>1, <5>1 DEF Cells, Framed
        <5> QED BY <3>1, <5>2 DEF Framed
      <4>2. CASE i % 2 # 1
        <5>1. <<i - 1, j>> \in Cells /\ <<i + 1, j>> \in Cells
          BY <3>1, <4>2 DEF First, Second
        <5>2. j \in 0 .. width - 1 /\ i - 1 >= 0 /\ i + 1 <= height - 1
          BY <3>1, <5>1 DEF Cells, Framed
        <5> QED BY <3>1, <5>2 DEF Framed
      <4> QED BY <4>1, <4>2
    <3> QED BY <3>1, <3>4 DEF Cells
  <2>6. w \in G
    <3>1. w \notin Blocks
      BY <2>0 DEF Between, Blocks
    <3> QED BY <2>5, <3>1 DEF Floor
  <2> HIDE DEF F, G
  <2>7. CASE \E c \in Around({w}) \cap F : c \in R
    <3>1. Around({w}) \cap F \subseteq R
      BY <2>2, <2>7
    <3>2. Around(R \cup {w}) \cap G \subseteq R \cup {w}
      <4>1. \A d \in Around(R \cup {w}) : d \in Around(R) \/ d \in Around({w})
        BY DEF Around
      <4> QED BY <2>1, <2>3, <3>1, <4>1
    <3>3. Closed(R \cup {w}, G)
      BY <2>1, <2>3, <2>6, <3>2 DEF Closed
    <3>4. R \cup {w} = G
      BY <2>4, <3>3 DEF Whole
    <3> QED BY <2>1, <2>3, <3>4
  <2>8. CASE ~ \E c \in Around({w}) \cap F : c \in R
    <3>1. w \notin Around(R)
      <4> SUFFICES ASSUME w \in Around(R) PROVE FALSE
        OBVIOUS
      <4>1. PICK c \in R : w \in Around({c})
        BY AroundIs
      <4>2. c \in Int \X Int
        BY <2>3 DEF Cells
      <4>3. c \in Around({w})
        BY <4>1, <4>2, AroundIs
      <4> QED BY <2>3, <2>8, <4>3
    <3>2. Closed(R, G)
      BY <2>1, <2>3, <3>1 DEF Closed
    <3>3. R = G
      BY <2>4, <3>2 DEF Whole
    <3> QED BY <2>1, <2>3, <2>6, <3>3
  <2> QED BY <2>7, <2>8
<1> QED BY <1>1, <1>2

\* Walls that close no loop leave the floor in one piece: they can be built one
\* after the other, each at a block that none of the others touches.
LEMMA ForestWhole ==
  ASSUME Framed, NEW W, IsFiniteSet(W), Forest(W, Blocks)
  PROVE  Whole(Floor(W))
<1> DEFINE D == {A \in SUBSET W : Whole(Floor(A))}
<1>1. ASSUME NEW A \in SUBSET W, \A r \in SUBSET A : r # A => r \in D
      PROVE  A \in D
  <2>1. CASE A = {}
    BY <2>1, BareFloor
  <2>2. CASE A # {}
    <3>1. <<1, 1>> \in Blocks
      BY DEF Framed, Blocks, Cells
    <3>2. PICK v \in Blocks : Leaf(v, A)
      BY <2>2, <3>1 DEF Forest
    <3>3. PICK w \in A : Only(w, v, A)
      BY <3>2 DEF Leaf
    <3>4. A \in SUBSET Between(Blocks)
      BY DEF Forest
    <3>5. Whole(Floor(A \ {w}))
      BY <1>1
    <3>6. Whole(Floor(A))
      BY <3>3, <3>4, <3>5, OneMoreWall
    <3> QED BY <3>6
  <2> QED BY <2>1, <2>2
<1>2. W \in D
  <2>1. D \in SUBSET SUBSET W
    OBVIOUS
  <2> HIDE DEF D
  <2> QED BY <1>1, <2>1, SubsetInduction
<1> QED BY <1>2

\* Nothing is built on the border, or it is trimmed.
LEMMA BorderFree ==
  ASSUME Framed, NEW W \in SUBSET Between(Blocks)
  PROVE  Border \subseteq Floor(W)
<1> SUFFICES ASSUME NEW c \in Border, c \in Blocks \cup W, ~Trimmed(c) PROVE FALSE
  BY DEF Border, Floor
<1>0. /\ height \in Nat /\ width \in Nat /\ height > 1 /\ width > 1
  BY DEF Framed
<1> DEFINE i == c[1]
           j == c[2]
<1>1. /\ i \in 0 .. height - 1 /\ j \in 0 .. width - 1 /\ c = <<i, j>>
      /\ (i = 0 \/ i = height - 1 \/ j = 0 \/ j = width - 1)
  BY DEF Border, Cells
<1>2. /\ i = height - 1 => i % 2 = 0
      /\ j = width - 1 => j % 2 = 0
  <2>1. i = height - 1 => height % 2 = 1
    BY DEF Trimmed
  <2>2. j = width - 1 => width % 2 = 1
    BY DEF Trimmed
  <2> HIDE DEF i, j
  <2> QED BY <1>0, <1>1, <2>1, <2>2
<1>3. c \notin Blocks
  BY <1>0, <1>1, <1>2 DEF Blocks
<1>4. c \in W /\ i % 2 # j % 2 /\ First(c) \in Cells /\ Second(c) \in Cells
  BY <1>3 DEF Between, Blocks
<1>5. CASE i % 2 = 1
  <2>1. <<i, j - 1>> \in Cells /\ <<i, j + 1>> \in Cells
    BY <1>4, <1>5 DEF First, Second
  <2>2. j - 1 >= 0 /\ j + 1 <= width - 1
    BY <1>0, <1>1, <2>1 DEF Cells
  <2> QED BY <1>0, <1>1, <1>2, <1>5, <2>2
<1>6. CASE i % 2 # 1
  <2>1. <<i - 1, j>> \in Cells /\ <<i + 1, j>> \in Cells
    BY <1>4, <1>6 DEF First, Second
  <2>2. i - 1 >= 0 /\ i + 1 <= height - 1
    BY <1>0, <1>1, <2>1 DEF Cells
  <2>3. j % 2 = 1
    BY <1>1, <1>4, <1>6
  <2> QED BY <1>0, <1>1, <1>2, <2>2, <2>3
<1> QED BY <1>5, <1>6

\* The floor that can be walked to is a closed part.
LEMMA ReachedClosed ==
  ASSUME Framed, IsFiniteSet(Cells), <<0, 0>> \in Beneath
  PROVE  Closed(Reached, Beneath)
<1> DEFINE S == SUBSET Cells
           op == [r \in S |-> r \cup (Around(r) \cap Beneath)]
           res == [r \in S |-> r]
           End == {r \in S : op[r] = r}
           depth == [r \in S |-> Cardinality(Cells \ r)]
           T == {r \in S : <<0, 0>> \in r /\ r \subseteq Beneath}
           Q(g) == g = [r \in SUBSET Cells |->
                          LET wider == r \cup (Around(r) \cap Beneath)
                          IN  IF wider = r THEN r ELSE g[wider]]
           f == CHOOSE g : Q(g)
<1>1. Reached = f[{<<0, 0>>}]
  BY DEF Reached
<1>2. Beneath \subseteq Cells
  BY DEF Beneath
<1>3. \A r \in S : op[r] = r \cup (Around(r) \cap Beneath) /\ op[r] \in S
  BY <1>2
<1>4. ASSUME NEW g PROVE Q(g) <=> Descends(g, S, End, res, op)
  <2>1. \A r \in S :
           (LET wider == r \cup (Around(r) \cap Beneath)
            IN  IF wider = r THEN r ELSE g[wider])
           = (IF r \in End THEN res[r] ELSE g[op[r]])
    OBVIOUS
  <2>2. [r \in SUBSET Cells |-> LET wider == r \cup (Around(r) \cap Beneath)
                                IN  IF wider = r THEN r ELSE g[wider]]
        = [r \in S |-> IF r \in End THEN res[r] ELSE g[op[r]]]
    BY <2>1
  <2> QED BY <2>2 DEF Descends
<1>5. depth \in [S -> Nat]
  BY FS_Subset, FS_CardinalityType
<1>6. ASSUME NEW r \in S \ End
      PROVE  op[r] \in S /\ depth[op[r]] < depth[r]
  <2>1. op[r] \in S /\ r \subseteq op[r] /\ op[r] # r
    BY <1>3
  <2>2. depth[op[r]] = Cardinality(Cells \ op[r]) /\ depth[r] = Cardinality(Cells \ r)
    BY <2>1
  <2> HIDE DEF op, depth
  <2>3. Cells \ op[r] \in SUBSET (Cells \ r) /\ Cells \ op[r] # Cells \ r
    BY <2>1
  <2>4. /\ IsFiniteSet(Cells \ r)
        /\ Cardinality(Cells \ r) \in Nat /\ Cardinality(Cells \ op[r]) \in Nat
    BY FS_Subset, FS_CardinalityType
  <2>5. /\ Cardinality(Cells \ op[r]) <= Cardinality(Cells \ r)
        /\ Cardinality(Cells \ op[r]) # Cardinality(Cells \ r)
    BY <2>3, <2>4, FS_Subset
  <2> QED BY <2>1, <2>2, <2>4, <2>5
<1>7. Descends(f, S, End, res, op)
  <2>1. \E g : Descends(g, S, End, res, op)
    <3>1. \A r \in S : IF r \in End THEN res[r] \in S
                       ELSE op[r] \in S /\ depth[op[r]] < depth[r]
      BY <1>6
    <3> HIDE DEF S, End, res, op, depth
    <3> QED BY <1>5, <3>1, DescentEnds
  <2>2. Q(f)
    <3>1. \E g : Q(g)
      BY <1>4, <2>1
    <3> HIDE DEF Q
    <3> QED BY <3>1
  <2> HIDE DEF f, S, End, res, op, Q
  <2> QED BY <1>4, <2>2
<1> HIDE DEF f
<1>8. T \in SUBSET S /\ \A r \in T \ End : op[r] \in T
  BY <1>3
<1>9. {<<0, 0>>} \in T
  BY <1>2
<1>10. PICK e \in T \cap End : f[{<<0, 0>>}] = res[e]
  <2> HIDE DEF S, End, res, op, depth, T
  <2> QED BY <1>5, <1>6, <1>7, <1>8, <1>9, DescentKeeps
<1>11. Reached = e
  BY <1>1, <1>10
<1>12. Around(e) \cap Beneath \subseteq e
  OBVIOUS
<1> QED BY <1>11, <1>12 DEF Closed

LEMMA OnePiece ==
  ASSUME Sound, Shape
  PROVE  FloorInOnePiece
<1> SUFFICES ASSUME pc = "done" PROVE Reached = Beneath /\ Border \subseteq Beneath
  BY DEF FloorInOnePiece
<1>0. Framed
  BY SizesFramed DEF Sound
<1>1. PICK W : Forest(W, Blocks) /\ Beneath = Floor(W)
  BY DEF Shape
<1> DEFINE V == W \cap Cells
<1>2. IsFiniteSet(Cells)
  <2>1. IsFiniteSet(0 .. height - 1) /\ IsFiniteSet(0 .. width - 1)
    BY <1>0, FS_Interval DEF Framed
  <2> QED BY <2>1, FS_Product DEF Cells
<1>3. Forest(V, Blocks) /\ Beneath = Floor(V) /\ V \in SUBSET Between(Blocks)
  <2>1. V \in SUBSET W
    OBVIOUS
  <2> QED BY <1>1, <2>1 DEF Forest, Floor
<1>4. IsFiniteSet(V)
  BY <1>2, FS_Subset
<1> HIDE DEF V
<1>5. Whole(Beneath) /\ Border \subseteq Beneath
  BY <1>0, <1>3, <1>4, ForestWhole, BorderFree
<1>6. <<0, 0>> \in Border
  BY <1>0 DEF Framed, Border, Cells
<1>7. Closed(Reached, Beneath)
  BY <1>0, <1>2, <1>5, <1>6, ReachedClosed
<1> QED BY <1>5, <1>7 DEF Whole

\* Wherever players and ghosts are placed in a finished map of any size, they
\* can walk to each other.
THEOREM FloorInOnePieceHolds == Spec => []FloorInOnePiece
<1>1. Sound /\ Shape => FloorInOnePiece
  BY OnePiece
<1> QED BY <1>1, ShapeHolds, PTL

-----------------------------------------------------------------------------
(* NearerEnd.                                                              *)

LEMMA CellsFinite ==
  ASSUME Framed
  PROVE  IsFiniteSet(Cells)
<1>1. IsFiniteSet(0 .. height - 1) /\ IsFiniteSet(0 .. width - 1)
  BY FS_Interval DEF Framed
<1> QED BY <1>1, FS_Product DEF Cells

LEMMA Fewer ==
  ASSUME NEW S, IsFiniteSet(S), NEW T \in SUBSET S, NEW x \in S \ T
  PROVE  Cardinality(T) < Cardinality(S)
<1>1. T # S /\ IsFiniteSet(T)
  BY FS_Subset
<1>2. Cardinality(T) \in Nat /\ Cardinality(S) \in Nat
  BY <1>1, FS_CardinalityType
<1>3. Cardinality(T) <= Cardinality(S) /\ Cardinality(T) # Cardinality(S)
  BY <1>1, FS_Subset
<1> QED BY <1>2, <1>3

\* A pass that changes a label leaves less to spread.
LEMMA PassSpreads ==
  ASSUME Framed, arr \in Maps, arr' \in Maps, Cells' = Cells,
         <<arr, arr'>> \in Grow, arr' # arr
  PROVE  Cardinality(Uneven') < Cardinality(Uneven)
<1> DEFINE V == {arr[c] : c \in Cells}
           W == {arr'[c] : c \in Cells}
<1>1. Uneven = {r \in Cells \X V : arr[r[1]] < r[2]}
  BY DEF Uneven
<1>2. Uneven' = {r \in Cells \X W : arr'[r[1]] < r[2]}
  BY DEF Uneven
<1>3. \A c \in Cells : /\ arr[c] <= arr'[c] /\ arr[c] \in Nat /\ arr'[c] \in Nat
                       /\ arr'[c] \in V
  BY DEF Grow, Grows, Maps
<1>4. W \subseteq V /\ W \subseteq Nat
  BY <1>3
<1>5. PICK c \in Cells : arr'[c] # arr[c]
  BY DEF Maps
<1>6. Uneven' \subseteq Uneven
  <2> SUFFICES ASSUME NEW r \in Cells \X W, arr'[r[1]] < r[2]
               PROVE  r \in Cells \X V /\ arr[r[1]] < r[2]
    BY <1>1, <1>2
  <2>1. r[1] \in Cells /\ r[2] \in W /\ r[2] \in V /\ r[2] \in Nat
    BY <1>4
  <2>2. arr[r[1]] <= arr'[r[1]] /\ arr[r[1]] \in Nat /\ arr'[r[1]] \in Nat
    BY <1>3, <2>1
  <2> HIDE DEF V, W
  <2> QED BY <2>1, <2>2
<1> DEFINE x == <<c, arr'[c]>>
<1>7. x \in Uneven \ Uneven'
  <2>1. x \in Cells \X V /\ x[1] = c /\ x[2] = arr'[c]
    BY <1>3
  <2>2. arr[c] < arr'[c] /\ ~(arr'[c] < arr'[c])
    BY <1>3, <1>5
  <2> HIDE DEF V, W, x
  <2> QED BY <1>1, <1>2, <2>1, <2>2
<1>8. IsFiniteSet(Uneven)
  <2>1. IsFiniteSet(Cells)
    BY CellsFinite
  <2>2. IsFiniteSet(V)
    <3>1. arr \in Surjection(Cells, V)
      BY DEF Maps, Surjection
    <3> HIDE DEF V
    <3> QED BY <2>1, <3>1, FS_Surjection
  <2>3. IsFiniteSet(Cells \X V)
    BY <2>1, <2>2, FS_Product
  <2>4. Uneven \in SUBSET (Cells \X V)
    BY <1>1
  <2> QED BY <2>3, <2>4, FS_Subset
<1> QED BY <1>6, <1>7, <1>8, Fewer

LEMMA NearerStep ==
  ASSUME Sound, Next
  PROVE  Nearer
<1>0. Framed /\ (pc # "done" => arr \in Maps) /\ side \in 0 .. 5
  BY SizesFramed DEF Sound, TypeOK
<1>1. CASE Update
  <2>1. /\ arr' = Pass(arr) /\ pc = "update" /\ pc' = IF arr' = arr THEN "fill" ELSE "update"
        /\ UNCHANGED <<height, width, cell, side>>
    BY <1>1 DEF Update
  <2>2. Cells' = Cells /\ Blocks' = Blocks
    BY <2>1 DEF Cells, Blocks
  <2>3. Ahead' = Ahead
    BY <2>1, <2>2 DEF Ahead
  <2>4. pc' = "update" => Cardinality(Uneven') < Cardinality(Uneven)
    <3> SUFFICES ASSUME arr' # arr PROVE Cardinality(Uneven') < Cardinality(Uneven)
      BY <2>1
    <3>1. arr' \in Maps /\ <<arr, arr'>> \in Grow
      BY <1>0, <2>1, PassGrows
    <3> QED BY <1>0, <2>1, <2>2, <3>1, PassSpreads
  <2> QED BY <2>1, <2>3, <2>4 DEF Nearer
<1>2. CASE Draw \/ Join
  <2>1. /\ pc = "fill" /\ pc' \in {"fill", "update"} /\ side' > side
        /\ UNCHANGED <<height, width, cell>>
    <3>1. CASE Draw
      BY <3>1 DEF Draw
    <3>2. CASE Join
      BY <1>0, <3>2 DEF Join
    <3> QED BY <1>2, <3>1, <3>2
  <2>2. Blocks' = Blocks
    BY <2>1 DEF Cells, Blocks
  <2>3. Ahead' = Ahead
    BY <2>1, <2>2 DEF Ahead
  <2> QED BY <2>1, <2>3 DEF Nearer
<1>3. CASE NextBlock
  <2>1. /\ pc = "fill"
        /\ cell' = IF cell[2] + 2 < width THEN <<cell[1], cell[2] + 2>>
                                          ELSE <<cell[1] + 2, 1>>
        /\ pc' \in {"fill", "trim"}
        /\ UNCHANGED <<height, width, arr>>
    BY <1>3 DEF NextBlock
  <2>2. Blocks' = Blocks
    BY <2>1 DEF Cells, Blocks
  <2>3. cell \in Blocks /\ cell[1] \in Int /\ cell[2] \in Int
    BY <2>1 DEF Sound, OnBlock, Blocks, Cells
  <2>4. cell \in Ahead
    BY <2>1, <2>3 DEF Ahead
  <2>5. Ahead' \subseteq Ahead \ {cell}
    <3> SUFFICES ASSUME pc' = "fill", NEW b \in Blocks,
                        b[1] > cell'[1] \/ (b[1] = cell'[1] /\ b[2] >= cell'[2])
                 PROVE  b # cell /\ (b[1] > cell[1] \/ (b[1] = cell[1] /\ b[2] >= cell[2]))
      BY <2>1, <2>2 DEF Ahead
    <3>1. b[1] \in Int /\ b[2] \in Int
      BY DEF Blocks, Cells
    <3>2. CASE cell[2] + 2 < width
      <4>1. cell'[1] = cell[1] /\ cell'[2] = cell[2] + 2
        BY <2>1, <3>2
      <4> QED BY <2>3, <3>1, <4>1
    <3>3. CASE ~(cell[2] + 2 < width)
      <4>1. cell'[1] = cell[1] + 2
        BY <2>1, <3>3
      <4> QED BY <2>3, <3>1, <4>1
    <3> QED BY <3>2, <3>3
  <2>6. IsFiniteSet(Ahead)
    <3>1. Ahead \in SUBSET Cells
      BY DEF Ahead, Blocks
    <3> QED BY <1>0, <3>1, CellsFinite, FS_Subset
  <2>7. Cardinality(Ahead') < Cardinality(Ahead)
    BY <2>4, <2>5, <2>6, Fewer
  <2> QED BY <2>7 DEF Nearer
<1>4. CASE Trim
  BY <1>4 DEF Trim, Nearer
<1> QED BY <1>1, <1>2, <1>3, <1>4 DEF Next

\* createMap cannot go on for ever, on a map of any size: of the quantities that
\* NearerEnd names, the first that changes gets smaller.
THEOREM NearerEndHolds == Spec => NearerEnd
<1>1. Sound /\ [Next]_vars => [Nearer]_vars
  BY NearerStep
<1> QED BY <1>1, SoundHolds, PTL DEF Spec, NearerEnd
=============================================================================
