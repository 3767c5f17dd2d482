---------------------------- MODULE ListeProofs ----------------------------
(***************************************************************************)
(* Proofs that TLAPS checks about Liste: for any number of threads and     *)
(* elements, the pointers of a list describe one sequence, and the list    *)
(* implements the one of Suite.                                            *)
(***************************************************************************)
EXTENDS Liste, SequenceTheorems, TLAPS

\* No element is in the list twice.
Distinct ==
    \A j, k \in 1 .. Len(ordre) : ordre[j] = ordre[k] => j = k

\* The elements of the list are in use.
InUse == \A k \in 1 .. Len(ordre) : mem[ordre[k]] = "live"

\* What a thread is about to free has left the list.
FreeOK ==
    \A t \in Walkers : pc[t] = "free" =>
        /\ el[t] \in Elements /\ mem[el[t]] # "none"
        /\ \A k \in 1 .. Len(ordre) : ordre[k] # el[t]

\* Nothing that was in the list when a thread read its last element is behind
\* that element now: others only go behind it, and those are new.
Behind ==
    \A t \in Walkers : pc[t] = "add" =>
        /\ \A e \in avant[t] : mem[e] # "none"
        /\ el[t] # NoEl => mem[el[t]] # "none"
        /\ el[t] = NoEl => avant[t] = {}
        /\ \A j, k \in 1 .. Len(ordre) :
              ordre[j] = el[t] /\ ordre[k] \in avant[t] => k <= j

IInv == TypeOK /\ WellLinked /\ Distinct /\ InUse /\ FreeOK /\ Behind

-----------------------------------------------------------------------------
(* Sequences.                                                              *)

\* What InsertAt returns.
LEMMA InsertFacts ==
  ASSUME NEW S, NEW s \in Seq(S), NEW k \in 1 .. Len(s) + 1, NEW e \in S
  PROVE  /\ InsertAt(s, k, e) \in Seq(S)
         /\ Len(InsertAt(s, k, e)) = Len(s) + 1
         /\ \A j \in 1 .. Len(s) + 1 :
               InsertAt(s, k, e)[j] = IF j < k THEN s[j]
                                      ELSE IF j = k THEN e ELSE s[j - 1]
<1> DEFINE a == SubSeq(s, 1, k - 1)
           b == SubSeq(s, k, Len(s))
<1>1. Len(s) \in Nat /\ k \in Int
  BY LenProperties
<1>2. /\ a \in Seq(S) /\ Len(a) = k - 1
      /\ \A n \in 1 .. k - 1 : a[n] = s[n]
  <2>1. \A n \in 1 .. k - 1 : s[n] \in S
    BY <1>1, ElementOfSeq
  <2> QED BY <1>1, <2>1, SubSeqProperties
<1>3. /\ b \in Seq(S) /\ Len(b) = Len(s) - k + 1
      /\ \A n \in 1 .. Len(s) - k + 1 : b[n] = s[k + n - 1]
  <2>1. \A n \in k .. Len(s) : s[n] \in S
    BY <1>1, ElementOfSeq
  <2> QED BY <1>1, <2>1, SubSeqProperties
<1> HIDE DEF a, b
<1>4. <<e>> \in Seq(S) /\ Len(<<e>>) = 1 /\ <<e>>[1] = e
  OBVIOUS
<1>5. /\ a \o <<e>> \in Seq(S) /\ Len(a \o <<e>>) = k
      /\ \A n \in 1 .. k : (a \o <<e>>)[n] = IF n <= k - 1 THEN s[n] ELSE e
  <2> DEFINE d == <<e>>
  <2>0. d \in Seq(S) /\ Len(d) = 1
    BY <1>4
  <2> HIDE DEF d
  <2>1. Len(a) + Len(d) = k
    BY <1>1, <1>2, <2>0
  <2>5. /\ a \o d \in Seq(S) /\ Len(a \o d) = Len(a) + Len(d)
        /\ \A n \in 1 .. Len(a) + Len(d) : (a \o d)[n] =
              IF n <= Len(a) THEN a[n] ELSE d[n - Len(a)]
    BY <1>2, <2>0, ConcatProperties
  <2>6. /\ a \o d \in Seq(S) /\ Len(a \o d) = k
        /\ \A n \in 1 .. k : (a \o d)[n] =
              IF n <= k - 1 THEN a[n] ELSE d[n - (k - 1)]
    BY <1>2, <2>1, <2>5
  <2>2. /\ a \o <<e>> \in Seq(S) /\ Len(a \o <<e>>) = k
        /\ \A n \in 1 .. k : (a \o <<e>>)[n] =
              IF n <= k - 1 THEN a[n] ELSE <<e>>[n - (k - 1)]
    BY <2>6 DEF d
  <2>3. \A n \in 1 .. k : ~(n <= k - 1) => n - (k - 1) = 1
    BY <1>1
  <2>4. \A n \in 1 .. k : n <= k - 1 => n \in 1 .. k - 1
    BY <1>1
  <2> QED BY <1>2, <1>4, <2>2, <2>3, <2>4
<1> DEFINE c == a \o <<e>>
<1> HIDE DEF c
<1>6. InsertAt(s, k, e) = c \o b
  BY DEF InsertAt, a, b, c
<1>7. /\ c \o b \in Seq(S) /\ Len(c \o b) = Len(s) + 1
      /\ \A j \in 1 .. Len(s) + 1 :
            (c \o b)[j] = IF j <= k THEN c[j] ELSE b[j - k]
  <2>1. c \in Seq(S) /\ Len(c) = k
    BY <1>5 DEF c
  <2>2. Len(c) + Len(b) = Len(s) + 1
    BY <1>1, <1>3, <2>1
  <2> QED BY <1>3, <2>1, <2>2, ConcatProperties
<1>8. ASSUME NEW j \in 1 .. Len(s) + 1
      PROVE  (c \o b)[j] = IF j < k THEN s[j] ELSE IF j = k THEN e ELSE s[j - 1]
  <2>1. CASE j < k
    <3>1. j <= k /\ j \in 1 .. k /\ j <= k - 1
      BY <1>1, <2>1
    <3> QED BY <1>5, <1>7, <2>1, <3>1 DEF c
  <2>2. CASE j = k
    <3>1. j <= k /\ j \in 1 .. k /\ ~(j <= k - 1) /\ ~(j < k)
      BY <1>1, <2>2
    <3>2. (c \o b)[j] = c[j]
      BY <1>7, <3>1
    <3>3. c[j] = e
      BY <1>5, <3>1 DEF c
    <3> QED BY <2>2, <3>1, <3>2, <3>3
  <2>3. CASE j > k
    <3>1. /\ ~(j <= k) /\ ~(j < k) /\ j # k /\ j - k \in 1 .. Len(s) - k + 1
          /\ k + (j - k) - 1 = j - 1
      BY <1>1, <2>3
    <3>2. (c \o b)[j] = b[j - k]
      BY <1>7, <3>1
    <3>3. b[j - k] = s[k + (j - k) - 1]
      BY <1>3, <3>1
    <3> QED BY <3>1, <3>2, <3>3
  <2>4. j < k \/ j = k \/ j > k
    BY <1>1
  <2> QED BY <2>1, <2>2, <2>3, <2>4
<1> QED BY <1>6, <1>7, <1>8

\* What RemoveAt returns.
LEMMA RemoveFacts ==
  ASSUME NEW S, NEW s \in Seq(S), NEW k \in 1 .. Len(s)
  PROVE  /\ RemoveAt(s, k) \in Seq(S)
         /\ Len(RemoveAt(s, k)) = Len(s) - 1
         /\ \A j \in 1 .. Len(s) - 1 :
               RemoveAt(s, k)[j] = IF j < k THEN s[j] ELSE s[j + 1]
<1> DEFINE a == SubSeq(s, 1, k - 1)
           b == SubSeq(s, k + 1, Len(s))
<1>1. Len(s) \in Nat /\ k \in Int
  BY LenProperties
<1>2. /\ a \in Seq(S) /\ Len(a) = k - 1
      /\ \A n \in 1 .. k - 1 : a[n] = s[n]
  <2>1. \A n \in 1 .. k - 1 : s[n] \in S
    BY <1>1, ElementOfSeq
  <2> QED BY <1>1, <2>1, SubSeqProperties
<1>3. /\ b \in Seq(S) /\ Len(b) = Len(s) - k
      /\ \A n \in 1 .. Len(s) - k : b[n] = s[k + n]
  <2>1. \A n \in k + 1 .. Len(s) : s[n] \in S
    BY <1>1, ElementOfSeq
  <2> QED BY <1>1, <2>1, SubSeqProperties
<1> HIDE DEF a, b
<1>4. RemoveAt(s, k) = a \o b
  BY DEF RemoveAt, a, b
<1>5. /\ a \o b \in Seq(S) /\ Len(a \o b) = Len(s) - 1
      /\ \A j \in 1 .. Len(s) - 1 :
            (a \o b)[j] = IF j <= k - 1 THEN a[j] ELSE b[j - (k - 1)]
  <2>1. Len(a) + Len(b) = Len(s) - 1
    BY <1>1, <1>2, <1>3
  <2>2. /\ a \o b \in Seq(S) /\ Len(a \o b) = Len(a) + Len(b)
        /\ \A j \in 1 .. Len(a) + Len(b) :
              (a \o b)[j] = IF j <= Len(a) THEN a[j] ELSE b[j - Len(a)]
    BY <1>2, <1>3, ConcatProperties
  <2> QED BY <1>2, <2>1, <2>2
<1>6. ASSUME NEW j \in 1 .. Len(s) - 1
      PROVE  (a \o b)[j] = IF j < k THEN s[j] ELSE s[j + 1]
  <2>1. CASE j < k
    <3>1. j <= k - 1 /\ j \in 1 .. k - 1
      BY <1>1, <2>1
    <3> QED BY <1>2, <1>5, <2>1, <3>1
  <2>2. CASE ~(j < k)
    <3>1. /\ ~(j <= k - 1) /\ j - (k - 1) \in 1 .. Len(s) - k
          /\ k + (j - (k - 1)) = j + 1
      BY <1>1, <2>2
    <3>2. (a \o b)[j] = b[j - (k - 1)]
      BY <1>5, <3>1
    <3>3. b[j - (k - 1)] = s[k + (j - (k - 1))]
      BY <1>3, <3>1
    <3> QED BY <2>2, <3>1, <3>2, <3>3
  <2> QED BY <2>1, <2>2
<1> QED BY <1>4, <1>5, <1>6

\* Rank finds an element of a list.
LEMMA RankFacts ==
  ASSUME NEW s \in Seq(Elements), NEW e \in ToSet(s)
  PROVE  Rank(s, e) \in 1 .. Len(s) /\ s[Rank(s, e)] = e /\ e \in Elements
<1>1. DOMAIN s = 1 .. Len(s)
  BY LenProperties
<1>2. PICK k \in 1 .. Len(s) : s[k] = e
  BY <1>1 DEF ToSet
<1>3. \E j \in DOMAIN s : s[j] = e
  BY <1>1, <1>2
<1>4. Rank(s, e) \in DOMAIN s /\ s[Rank(s, e)] = e
  BY <1>3 DEF Rank
<1>5. s[k] \in Elements
  BY ElementOfSeq
<1> QED BY <1>1, <1>2, <1>4, <1>5

\* Bounds of intervals.
LEMMA EndsOfRange ==
  ASSUME NEW n \in Nat, NEW k \in 1 .. n
  PROVE  /\ k = n <=> k + 1 \notin 1 .. n
         /\ k = 1 <=> k - 1 \notin 1 .. n
OBVIOUS

LEMMA InnerRange ==
  ASSUME NEW n \in Int, 1 <= n, n # 1
  PROVE  n > 1 /\ 1 \in 1 .. n - 1 /\ n - 1 \in 1 .. n - 1
OBVIOUS

LEMMA NextInRange ==
  ASSUME NEW n \in Int, NEW m \in 1 .. n, m # n
  PROVE  m + 1 <= n
OBVIOUS

LEMMA NotLast ==
  ASSUME NEW n \in Nat, NEW m \in 1 .. n, m # n
  PROVE  m \in 1 .. n - 1 /\ ~(m < m)
OBVIOUS

\* The pointers nx and pv of the elements describe the sequence s.
Chain(s, nx, pv) ==
    \A k \in 1 .. Len(s) :
        /\ nx[s[k]] = IF k = Len(s) THEN NoEl ELSE s[k + 1]
        /\ pv[s[k]] = IF k = 1 THEN NoEl ELSE s[k - 1]

\* The sequence u is s with e behind its r-th element, and the pointers nx2
\* and pv2 are nx and pv with e linked there.
PutAfter(s, nx, pv, r, e, u, nx2, pv2) ==
    /\ Chain(s, nx, pv)
    /\ \A j, k \in 1 .. Len(s) : s[j] = s[k] => j = k
    /\ \A k \in 1 .. Len(s) : s[k] # e
    /\ Len(u) = Len(s) + 1
    /\ \A j \in 1 .. Len(s) + 1 :
          u[j] = IF j < r + 1 THEN s[j] ELSE IF j = r + 1 THEN e ELSE s[j - 1]
    /\ \A x \in Elements : nx2[x] = IF x = s[r] THEN e
                                     ELSE IF x = e THEN nx[s[r]] ELSE nx[x]
    /\ \A x \in Elements : pv2[x] = IF x = e THEN s[r]
                                     ELSE IF x = nx[s[r]] THEN e ELSE pv[x]

\* Linking behind an element keeps the pointers in agreement (addEl).
LEMMA ChainAfter ==
  ASSUME NEW s \in Seq(Elements), NEW nx, NEW pv, NEW r \in 1 .. Len(s),
         NEW e \in Elements, NEW u, NEW nx2, NEW pv2,
         PutAfter(s, nx, pv, r, e, u, nx2, pv2)
  PROVE  Chain(u, nx2, pv2)
<1> USE DEF PutAfter
<1>1. Len(s) \in Nat /\ r \in Int
  BY LenProperties
<1>2. \A k \in 1 .. Len(s) : s[k] \in Elements /\ s[k] # NoEl
  BY ElementOfSeq, ListeAssumption
<1>3. nx[s[r]] = IF r = Len(s) THEN NoEl ELSE s[r + 1]
  BY DEF Chain
<1>4. \A k \in 1 .. Len(s) : s[k] = nx[s[r]] => k = r + 1
  <2>1. r # Len(s) => r + 1 \in 1 .. Len(s)
    BY <1>1
  <2> QED BY <1>2, <1>3, <2>1
<1>5. ASSUME NEW j \in 1 .. Len(u)
      PROVE  /\ nx2[u[j]] = IF j = Len(u) THEN NoEl ELSE u[j + 1]
             /\ pv2[u[j]] = IF j = 1 THEN NoEl ELSE u[j - 1]
  <2>1. CASE j < r
    <3>1. /\ j \in 1 .. Len(s) /\ j \in 1 .. Len(s) + 1 /\ j < r + 1 /\ j # r
          /\ j # r + 1 /\ j # Len(s) /\ j # Len(u) /\ j + 1 \in 1 .. Len(s) + 1
          /\ j + 1 < r + 1
      BY <1>1, <2>1
    <3>2. u[j] = s[j] /\ u[j + 1] = s[j + 1]
      BY <3>1
    <3>3. nx2[s[j]] = nx[s[j]] /\ pv2[s[j]] = pv[s[j]]
      BY <1>2, <1>4, <3>1
    <3>4. j # 1 => u[j - 1] = s[j - 1]
      BY <1>1, <2>1
    <3> QED BY <3>1, <3>2, <3>3, <3>4 DEF Chain
  <2>2. CASE j = r
    <3>1. /\ j \in 1 .. Len(s) + 1 /\ j < r + 1 /\ j # r + 1 /\ j # Len(u)
          /\ j + 1 \in 1 .. Len(s) + 1 /\ j + 1 = r + 1 /\ ~(j + 1 < r + 1)
      BY <1>1, <2>2
    <3>2. u[j] = s[r] /\ u[j + 1] = e
      BY <2>2, <3>1
    <3>3. nx2[s[r]] = e /\ pv2[s[r]] = pv[s[r]]
      BY <1>2, <1>4, <2>2, <3>1
    <3>4. j # 1 => u[j - 1] = s[r - 1]
      BY <1>1, <2>2
    <3> QED BY <2>2, <3>1, <3>2, <3>3, <3>4 DEF Chain
  <2>3. CASE j = r + 1
    <3>1. /\ j \in 1 .. Len(s) + 1 /\ ~(j < r + 1) /\ j # 1 /\ j - 1 = r
          /\ r \in 1 .. Len(s) + 1 /\ r < r + 1
      BY <1>1, <2>3
    <3>2. u[j] = e /\ u[j - 1] = s[r]
      BY <2>3, <3>1
    <3>3. nx2[e] = nx[s[r]] /\ pv2[e] = s[r]
      BY <1>2
    <3>4. CASE r = Len(s)
      <4>1. j = Len(u)
        BY <1>1, <2>3, <3>4
      <4> QED BY <1>3, <3>1, <3>2, <3>3, <3>4, <4>1
    <3>5. CASE r # Len(s)
      <4>1. /\ j # Len(u) /\ j + 1 \in 1 .. Len(s) + 1 /\ ~(j + 1 < r + 1)
            /\ j + 1 # r + 1 /\ (j + 1) - 1 = r + 1
        BY <1>1, <2>3, <3>5
      <4>2. u[j + 1] = s[r + 1]
        BY <4>1
      <4> QED BY <1>3, <3>1, <3>2, <3>3, <3>5, <4>1, <4>2
    <3> QED BY <3>4, <3>5
  <2>4. CASE j > r + 1
    <3>1. /\ j \in 1 .. Len(s) + 1 /\ ~(j < r + 1) /\ j # r + 1 /\ j # 1
          /\ j - 1 \in 1 .. Len(s) /\ j - 1 # r /\ j - 1 # 1
          /\ (j - 1) + 1 = j
      BY <1>1, <2>4
    <3>2. u[j] = s[j - 1]
      BY <3>1
    <3>3. nx2[s[j - 1]] = nx[s[j - 1]]
      BY <1>2, <3>1
    <3>4. nx[s[j - 1]] = IF j - 1 = Len(s) THEN NoEl ELSE s[j]
      <4>1. nx[s[j - 1]] = IF j - 1 = Len(s) THEN NoEl ELSE s[(j - 1) + 1]
        BY <3>1 DEF Chain
      <4> QED BY <3>1, <4>1
    <3>5. j # Len(u) => u[j + 1] = s[j]
      <4>0. j \in Int /\ 1 <= j /\ (j # Len(u) => j + 1 <= Len(s) + 1)
        <5>1. Len(u) = Len(s) + 1 /\ Len(u) \in Int /\ j \in Int /\ 1 <= j
          BY <1>1
        <5> HIDE DEF PutAfter
        <5> QED BY <5>1, NextInRange
      <4>1. j # Len(u) => /\ j + 1 \in 1 .. Len(s) + 1 /\ ~(j + 1 < r + 1)
                          /\ j + 1 # r + 1
        BY <1>1, <2>4, <4>0
      <4>2. j # Len(u) => u[j + 1] = s[(j + 1) - 1]
        BY <4>1
      <4>3. (j + 1) - 1 = j
        BY <1>1
      <4> QED BY <4>2, <4>3
    <3>6. j = Len(u) <=> j - 1 = Len(s)
      BY <1>1
    <3>7. pv2[s[j - 1]] = IF j - 1 = r + 1 THEN e ELSE pv[s[j - 1]]
      <4>1. j - 1 = r + 1 => s[j - 1] = nx[s[r]]
        BY <1>1, <1>3
      <4> QED BY <1>2, <1>4, <3>1, <4>1
    <3>8. u[j - 1] = IF j - 1 = r + 1 THEN e ELSE s[j - 2]
      <4>1. j - 1 \in 1 .. Len(s) + 1 /\ ~(j - 1 < r + 1) /\ (j - 1) - 1 = j - 2
        BY <1>1, <2>4, <3>1
      <4>2. u[j - 1] = IF j - 1 = r + 1 THEN e ELSE s[(j - 1) - 1]
        BY <4>1
      <4> QED BY <4>1, <4>2
    <3>9. pv[s[j - 1]] = s[j - 2]
      <4>1. pv[s[j - 1]] = IF j - 1 = 1 THEN NoEl ELSE s[(j - 1) - 1]
        BY <3>1 DEF Chain
      <4>2. (j - 1) - 1 = j - 2
        BY <1>1
      <4> QED BY <3>1, <4>1, <4>2
    <3> QED BY <3>1, <3>2, <3>3, <3>4, <3>5, <3>6, <3>7, <3>8, <3>9
  <2>5. j < r \/ j = r \/ j = r + 1 \/ j > r + 1
    BY <1>1
  <2> QED BY <2>1, <2>2, <2>3, <2>4, <2>5
<1> QED BY <1>5 DEF Chain

\* The same for an element in front of the others, the first of which is f.
PutFront(s, nx, pv, f, e, u, nx2, pv2) ==
    /\ Chain(s, nx, pv)
    /\ \A j, k \in 1 .. Len(s) : s[j] = s[k] => j = k
    /\ \A k \in 1 .. Len(s) : s[k] # e
    /\ Len(u) = Len(s) + 1
    /\ \A j \in 1 .. Len(s) + 1 :
          u[j] = IF j < 1 THEN s[j] ELSE IF j = 1 THEN e ELSE s[j - 1]
    /\ f = IF Len(s) = 0 THEN NoEl ELSE s[1]
    /\ \A x \in Elements : nx2[x] = IF x = e THEN f ELSE nx[x]
    /\ \A x \in Elements : pv2[x] = IF x = e THEN NoEl
                                     ELSE IF x = f THEN e ELSE pv[x]

\* Linking in front keeps the pointers in agreement (addEl with NULL).
LEMMA ChainFront ==
  ASSUME NEW s \in Seq(Elements), NEW nx, NEW pv, NEW f,
         NEW e \in Elements, NEW u, NEW nx2, NEW pv2,
         PutFront(s, nx, pv, f, e, u, nx2, pv2)
  PROVE  Chain(u, nx2, pv2)
<1> USE DEF PutFront
<1>1. Len(s) \in Nat
  BY LenProperties
<1>2. \A k \in 1 .. Len(s) : s[k] \in Elements /\ s[k] # NoEl
  BY ElementOfSeq, ListeAssumption
<1>3. \A k \in 1 .. Len(s) : s[k] = f <=> k = 1
  <2> TAKE k \in 1 .. Len(s)
  <2>1. Len(s) # 0 /\ 1 \in 1 .. Len(s)
    BY <1>1
  <2>2. f = s[1]
    BY <2>1
  <2> QED BY <2>1, <2>2
<1>4. ASSUME NEW j \in 1 .. Len(u)
      PROVE  /\ nx2[u[j]] = IF j = Len(u) THEN NoEl ELSE u[j + 1]
             /\ pv2[u[j]] = IF j = 1 THEN NoEl ELSE u[j - 1]
  <2>1. CASE j = 1
    <3>1. u[j] = e
      BY <1>1, <2>1
    <3>2. j = Len(u) <=> Len(s) = 0
      BY <1>1, <2>1
    <3>3. Len(s) # 0 => u[2] = s[1]
      BY <1>1
    <3>4. j + 1 = 2
      BY <2>1
    <3> QED BY <2>1, <3>1, <3>2, <3>3, <3>4
  <2>2. CASE j # 1
    <3>1. /\ j \in 1 .. Len(s) + 1 /\ ~(j < 1) /\ j - 1 \in 1 .. Len(s)
          /\ (j - 1) + 1 = j
      BY <1>1, <2>2
    <3>2. u[j] = s[j - 1]
      BY <2>2, <3>1
    <3>3. nx2[s[j - 1]] = nx[s[j - 1]]
      BY <1>2, <3>1
    <3>4. nx[s[j - 1]] = IF j - 1 = Len(s) THEN NoEl ELSE s[j]
      <4>1. nx[s[j - 1]] = IF j - 1 = Len(s) THEN NoEl ELSE s[(j - 1) + 1]
        BY <3>1 DEF Chain
      <4> QED BY <3>1, <4>1
    <3>5. j # Len(u) => u[j + 1] = s[j]
      <4>1. j # Len(u) => j + 1 \in 1 .. Len(s) + 1 /\ ~(j + 1 < 1) /\ j + 1 # 1
        BY <1>1, <2>2
      <4>2. j # Len(u) => u[j + 1] = s[(j + 1) - 1]
        BY <4>1
      <4>3. (j + 1) - 1 = j
        BY <1>1
      <4> QED BY <4>2, <4>3
    <3>6. j = Len(u) <=> j - 1 = Len(s)
      BY <1>1
    <3>7. pv2[s[j - 1]] = IF j - 1 = 1 THEN e ELSE pv[s[j - 1]]
      BY <1>2, <1>3, <3>1
    <3>8. u[j - 1] = IF j - 1 = 1 THEN e ELSE s[j - 2]
      <4>1. j - 1 \in 1 .. Len(s) + 1 /\ ~(j - 1 < 1) /\ (j - 1) - 1 = j - 2
        BY <1>1, <3>1
      <4>2. u[j - 1] = IF j - 1 = 1 THEN e ELSE s[(j - 1) - 1]
        BY <4>1
      <4> QED BY <4>1, <4>2
    <3>9. j - 1 # 1 => pv[s[j - 1]] = s[j - 2]
      <4>1. pv[s[j - 1]] = IF j - 1 = 1 THEN NoEl ELSE s[(j - 1) - 1]
        BY <3>1 DEF Chain
      <4>2. (j - 1) - 1 = j - 2
        BY <1>1
      <4> QED BY <3>1, <4>1, <4>2
    <3> QED BY <2>2, <3>1, <3>2, <3>3, <3>4, <3>5, <3>6, <3>7, <3>8, <3>9
  <2> QED BY <2>1, <2>2
<1> QED BY <1>4 DEF Chain

\* The sequence u is s without its r-th element, and nx2 and pv2 go round it.
TakenOut(s, nx, pv, r, u, nx2, pv2) ==
    /\ Chain(s, nx, pv)
    /\ \A j, k \in 1 .. Len(s) : s[j] = s[k] => j = k
    /\ Len(u) = Len(s) - 1
    /\ \A j \in 1 .. Len(s) - 1 : u[j] = IF j < r THEN s[j] ELSE s[j + 1]
    /\ \A x \in Elements :
          nx2[x] = IF r > 1 /\ x = s[r - 1]
                     THEN IF r = Len(s) THEN NoEl ELSE s[r + 1] ELSE nx[x]
    /\ \A x \in Elements :
          pv2[x] = IF r < Len(s) /\ x = s[r + 1]
                     THEN IF r = 1 THEN NoEl ELSE s[r - 1] ELSE pv[x]

\* Unlinking keeps the pointers in agreement (removeEl).
LEMMA ChainOut ==
  ASSUME NEW s \in Seq(Elements), NEW nx, NEW pv, NEW r \in 1 .. Len(s),
         NEW u, NEW nx2, NEW pv2,
         TakenOut(s, nx, pv, r, u, nx2, pv2)
  PROVE  Chain(u, nx2, pv2)
<1> USE DEF TakenOut
<1>1. Len(s) \in Nat /\ r \in Int
  BY LenProperties
<1>2. \A k \in 1 .. Len(s) : s[k] \in Elements
  BY ElementOfSeq
<1>3. /\ r > 1 => r - 1 \in 1 .. Len(s)
      /\ r < Len(s) => r + 1 \in 1 .. Len(s)
  BY <1>1
<1>4. ASSUME NEW k \in 1 .. Len(s)
      PROVE  /\ nx2[s[k]] = IF r > 1 /\ k = r - 1
                               THEN IF r = Len(s) THEN NoEl ELSE s[r + 1]
                               ELSE nx[s[k]]
             /\ pv2[s[k]] = IF r < Len(s) /\ k = r + 1
                               THEN IF r = 1 THEN NoEl ELSE s[r - 1]
                               ELSE pv[s[k]]
  BY <1>2, <1>3
<1>5. ASSUME NEW j \in 1 .. Len(u)
      PROVE  /\ nx2[u[j]] = IF j = Len(u) THEN NoEl ELSE u[j + 1]
             /\ pv2[u[j]] = IF j = 1 THEN NoEl ELSE u[j - 1]
  <2>1. CASE j < r
    <3>1. j \in 1 .. Len(s) /\ j \in 1 .. Len(s) - 1 /\ j # r + 1
      BY <1>1, <2>1
    <3>2. u[j] = s[j]
      BY <2>1, <3>1
    <3>3. /\ nx[s[j]] = IF j = Len(s) THEN NoEl ELSE s[j + 1]
          /\ pv[s[j]] = IF j = 1 THEN NoEl ELSE s[j - 1]
      BY <3>1 DEF Chain
    <3>4. j # 1 => u[j - 1] = s[j - 1]
      BY <1>1, <2>1
    <3>5. pv2[u[j]] = IF j = 1 THEN NoEl ELSE u[j - 1]
      BY <1>4, <3>1, <3>2, <3>3, <3>4
    <3>6. CASE j = r - 1
      <4>1. r > 1 /\ (j = Len(u) <=> r = Len(s))
        BY <1>1, <2>1, <3>6
      <4>2. r # Len(s) => u[j + 1] = s[r + 1]
        <5>3. r # Len(s) => r \in 1 .. Len(s) - 1 /\ ~(r < r)
          BY <1>1, NotLast
        <5>2. j + 1 = r
          BY <1>1, <3>6
        <5> QED BY <5>3, <5>2
      <4>3. nx2[s[j]] = IF r = Len(s) THEN NoEl ELSE s[r + 1]
        BY <1>4, <3>1, <3>6, <4>1
      <4> QED BY <3>2, <3>5, <4>1, <4>2, <4>3
    <3>7. CASE j # r - 1
      <4>1. j # Len(s) /\ j # Len(u) /\ j + 1 \in 1 .. Len(s) - 1 /\ j + 1 < r
        BY <1>1, <2>1, <3>7
      <4>2. u[j + 1] = s[j + 1]
        BY <4>1
      <4>3. nx2[s[j]] = nx[s[j]]
        BY <1>4, <3>1, <3>7
      <4> QED BY <3>2, <3>3, <3>5, <4>1, <4>2, <4>3
    <3> QED BY <3>6, <3>7
  <2>2. CASE ~(j < r)
    <3>1. /\ j + 1 \in 1 .. Len(s) /\ j \in 1 .. Len(s) - 1 /\ j + 1 # r - 1
          /\ j + 1 # 1 /\ (j + 1) - 1 = j /\ (j + 1) + 1 = j + 2
          /\ (j + 1 = Len(s) <=> j = Len(u))
      BY <1>1, <2>2
    <3>2. u[j] = s[j + 1]
      BY <2>2, <3>1
    <3>3. nx2[s[j + 1]] = nx[s[j + 1]]
      BY <1>4, <3>1
    <3>4. nx[s[j + 1]] = IF j + 1 = Len(s) THEN NoEl ELSE s[j + 2]
      <4>1. nx[s[j + 1]] = IF j + 1 = Len(s) THEN NoEl ELSE s[(j + 1) + 1]
        BY <3>1 DEF Chain
      <4> QED BY <3>1, <4>1
    <3>5. j # Len(u) => u[j + 1] = s[j + 2]
      <4>0. j \in Int /\ 1 <= j /\ (j # Len(u) => j + 1 <= Len(s) - 1)
        BY <1>1
      <4>1. j # Len(u) => j + 1 \in 1 .. Len(s) - 1 /\ ~(j + 1 < r)
        BY <1>1, <2>2, <4>0
      <4>2. j # Len(u) => u[j + 1] = s[(j + 1) + 1]
        BY <4>1
      <4> QED BY <3>1, <4>2
    <3>6. nx2[u[j]] = IF j = Len(u) THEN NoEl ELSE u[j + 1]
      BY <3>1, <3>2, <3>3, <3>4, <3>5
    <3>7. CASE j = r
      <4>1. r < Len(s) /\ j + 1 = r + 1
        BY <1>1, <3>1, <3>7
      <4>2. pv2[s[j + 1]] = IF r = 1 THEN NoEl ELSE s[r - 1]
        BY <1>4, <3>1, <4>1
      <4>3. j # 1 => u[j - 1] = s[r - 1]
        BY <1>1, <3>7
      <4> QED BY <3>2, <3>6, <3>7, <4>2, <4>3
    <3>8. CASE j # r
      <4>1. j # 1 /\ j + 1 # r + 1 /\ j - 1 \in 1 .. Len(s) - 1 /\ ~(j - 1 < r)
            /\ (j - 1) + 1 = j
        BY <1>1, <2>2, <3>8
      <4>2. u[j - 1] = s[j]
        <5>1. u[j - 1] = s[(j - 1) + 1]
          BY <4>1
        <5> QED BY <4>1, <5>1
      <4>3. pv2[s[j + 1]] = pv[s[j + 1]]
        BY <1>4, <3>1, <4>1
      <4>4. pv[s[j + 1]] = s[j]
        <5>1. pv[s[j + 1]] = IF j + 1 = 1 THEN NoEl ELSE s[(j + 1) - 1]
          BY <3>1 DEF Chain
        <5> QED BY <3>1, <5>1
      <4> QED BY <3>2, <3>6, <4>1, <4>2, <4>3, <4>4
    <3> QED BY <3>7, <3>8
  <2> QED BY <2>1, <2>2
<1> QED BY <1>5 DEF Chain

-----------------------------------------------------------------------------
(* The invariant.                                                          *)

\* The types of what is in the list.
LEMMA ListFacts ==
  ASSUME TypeOK
  PROVE  /\ ordre \in Seq(Elements) /\ Len(ordre) \in Nat
         /\ DOMAIN ordre = 1 .. Len(ordre)
         /\ \A k \in 1 .. Len(ordre) : ordre[k] \in Elements /\ ordre[k] # NoEl
         /\ \A e : e \in ToSet(ordre) <=> \E k \in 1 .. Len(ordre) : ordre[k] = e
         /\ ToSet(ordre) \subseteq Elements
<1>1. /\ ordre \in Seq(Elements) /\ Len(ordre) \in Nat
      /\ DOMAIN ordre = 1 .. Len(ordre)
  BY LenProperties DEF TypeOK
<1>2. \A k \in 1 .. Len(ordre) : ordre[k] \in Elements /\ ordre[k] # NoEl
  BY <1>1, ElementOfSeq, ListeAssumption
<1>3. \A e : e \in ToSet(ordre) <=> \E k \in 1 .. Len(ordre) : ordre[k] = e
  BY <1>1 DEF ToSet
<1> QED BY <1>1, <1>2, <1>3

\* The list at the start satisfies the invariant.
LEMMA InitInvariant == Init => IInv
<1> SUFFICES ASSUME Init PROVE IInv
  OBVIOUS
<1>1. /\ Debut \in Seq(Elements) /\ Len(Debut) \in Nat /\ DOMAIN Debut = 1 .. Len(Debut)
      /\ \A j, k \in 1 .. Len(Debut) : Debut[j] = Debut[k] => j = k
      /\ \A k \in 1 .. Len(Debut) : Debut[k] \in Elements
  <2>1. /\ Debut \in Seq(Elements)
        /\ \A j, k \in DOMAIN Debut : Debut[j] = Debut[k] => j = k
    BY ListeAssumption
  <2>2. Len(Debut) \in Nat /\ DOMAIN Debut = 1 .. Len(Debut)
    BY <2>1, LenProperties
  <2> QED BY <2>1, <2>2, ElementOfSeq
<1>2. /\ \A e : InDebut(e) => e \in ToSet(Debut)
      /\ \A k \in 1 .. Len(Debut) : InDebut(Debut[k])
  BY <1>1 DEF InDebut, ToSet
<1>3. \A k : DebutAt(k) \in Elements \cup {NoEl}
  BY <1>1 DEF DebutAt
<1>4. \A k \in 1 .. Len(Debut) : Rank(Debut, Debut[k]) = k
  <2> TAKE k \in 1 .. Len(Debut)
  <2>1. Debut[k] \in ToSet(Debut)
    BY <1>2
  <2>2. /\ Rank(Debut, Debut[k]) \in 1 .. Len(Debut)
        /\ Debut[Rank(Debut, Debut[k])] = Debut[k]
    BY <1>1, <2>1, RankFacts
  <2> QED BY <1>1, <2>2
<1>5. /\ ordre = Debut /\ first = DebutAt(1) /\ last = DebutAt(Len(Debut))
      /\ count = uint8(Len(Debut))
      /\ pc = [t \in Walkers |->
                 IF \E e \in ToSet(Debut) : Owner[e] = t THEN "in" ELSE "out"]
      /\ el = [t \in Walkers |-> NoEl] /\ i = [t \in Walkers |-> 0]
      /\ next = [e \in Elements |->
                   IF InDebut(e) THEN DebutAt(Rank(Debut, e) + 1) ELSE NoEl]
      /\ prev = [e \in Elements |->
                   IF InDebut(e) THEN DebutAt(Rank(Debut, e) - 1) ELSE NoEl]
      /\ data = [e \in Elements |-> IF InDebut(e) THEN Owner[e] ELSE NoEl]
      /\ mem = [e \in Elements |-> IF InDebut(e) THEN "live" ELSE "none"]
      /\ astray = FALSE
      /\ avant = [t \in Walkers |-> {}] /\ manque = [t \in Walkers |-> {}]
  BY DEF Init
<1>6. TypeOK
  <2>1. /\ pc \in [Walkers -> Locations]
        /\ el \in [Walkers -> Elements \cup {NoEl}] /\ i \in [Walkers -> Nat]
        /\ avant \in [Walkers -> SUBSET Elements]
        /\ manque \in [Walkers -> SUBSET Elements]
    BY <1>5 DEF Locations
  <2>2. first \in Elements \cup {NoEl} /\ last \in Elements \cup {NoEl}
    BY <1>3, <1>5
  <2>3. count \in 0 .. 255
    <3>1. \A n \in Nat : uint8(n) \in 0 .. 255
      BY DEF uint8
    <3> QED BY <1>1, <1>5, <3>1
  <2>4. /\ next \in [Elements -> Elements \cup {NoEl}]
        /\ prev \in [Elements -> Elements \cup {NoEl}]
    BY <1>3, <1>5
  <2>5. data \in [Elements -> Walkers \cup {NoEl}]
    <3>1. \A e \in ToSet(Debut) : Owner[e] \in Walkers
      BY ListeAssumption DEF Walkers
    <3> QED BY <1>2, <1>5, <3>1
  <2>6. mem \in [Elements -> {"none", "live", "freed"}]
    BY <1>5
  <2> QED BY <1>1, <1>5, <2>1, <2>2, <2>3, <2>4, <2>5, <2>6 DEF TypeOK
<1>7. WellLinked
  <2>1. /\ first = IF Debut = <<>> THEN NoEl ELSE Debut[1]
        /\ last = IF Debut = <<>> THEN NoEl ELSE Debut[Len(Debut)]
    <3>1. CASE Len(Debut) = 0
      BY <1>1, <1>5, <3>1, EmptySeq DEF DebutAt
    <3>2. CASE Len(Debut) # 0
      <4>1. 1 \in 1 .. Len(Debut) /\ Len(Debut) \in 1 .. Len(Debut)
        BY <1>1, <3>2
      <4>2. Debut # <<>>
        BY <3>2, EmptySeq
      <4> QED BY <1>5, <4>1, <4>2 DEF DebutAt
    <3> QED BY <3>1, <3>2
  <2>2. ASSUME NEW k \in 1 .. Len(Debut)
        PROVE  /\ next[Debut[k]] = IF k = Len(Debut) THEN NoEl ELSE Debut[k + 1]
               /\ prev[Debut[k]] = IF k = 1 THEN NoEl ELSE Debut[k - 1]
    <3>1. next[Debut[k]] = DebutAt(k + 1) /\ prev[Debut[k]] = DebutAt(k - 1)
      BY <1>1, <1>2, <1>4, <1>5
    <3>2. /\ k = Len(Debut) <=> k + 1 \notin 1 .. Len(Debut)
          /\ k = 1 <=> k - 1 \notin 1 .. Len(Debut)
      BY <1>1, EndsOfRange
    <3> QED BY <3>1, <3>2 DEF DebutAt
  <2> QED BY <1>5, <2>1, <2>2 DEF WellLinked
<1>8. Distinct
  BY <1>1, <1>5 DEF Distinct
<1>9. InUse
  BY <1>1, <1>2, <1>5 DEF InUse
<1>10. FreeOK /\ Behind
  <2>1. \A t \in Walkers : pc[t] \in {"in", "out"}
    BY <1>5
  <2> QED BY <2>1 DEF FreeOK, Behind
<1> QED BY <1>6, <1>7, <1>8, <1>9, <1>10 DEF IInv

\* Reading `last' preserves it, and fixes what may not be behind it later.
LEMMA ReadLastInvariant ==
  ASSUME IInv, NEW t \in Walkers, ReadLast(t)
  PROVE  IInv'
<1> USE DEF IInv
<1>1. /\ pc' = [pc EXCEPT ![t] = "add"] /\ el' = [el EXCEPT ![t] = last]
      /\ avant' = [avant EXCEPT ![t] = ToSet(ordre)]
      /\ UNCHANGED <<i, first, last, next, prev, count, data, mem, astray, ordre, manque>>
  BY DEF ReadLast, Goto, links
<1>2. ToSet(ordre) \in SUBSET Elements
  BY ListFacts
<1>3. TypeOK'
  BY <1>1, <1>2 DEF TypeOK, Locations
<1>4. WellLinked' /\ Distinct' /\ InUse'
  BY <1>1 DEF WellLinked, Distinct, InUse
<1>5. FreeOK'
  BY <1>1 DEF FreeOK, TypeOK
<1>6. Behind'
  <2> SUFFICES ASSUME NEW r \in Walkers, pc'[r] = "add"
               PROVE  /\ \A e \in avant'[r] : mem'[e] # "none"
                      /\ el'[r] # NoEl => mem'[el'[r]] # "none"
                      /\ el'[r] = NoEl => avant'[r] = {}
                      /\ \A j, k \in 1 .. Len(ordre') :
                            ordre'[j] = el'[r] /\ ordre'[k] \in avant'[r] => k <= j
    BY DEF Behind
  <2>1. CASE r # t
    BY <1>1, <2>1 DEF Behind, TypeOK
  <2>2. CASE r = t
    <3>1. el'[r] = last /\ avant'[r] = ToSet(ordre)
      BY <1>1, <2>2 DEF TypeOK
    <3>2. \A e \in ToSet(ordre) : mem[e] = "live"
      BY ListFacts DEF InUse
    <3>3. CASE Len(ordre) = 0
      <4>1. last = NoEl
        BY <3>3, ListFacts, EmptySeq DEF WellLinked
      <4>2. ToSet(ordre) = {}
        BY <3>3, ListFacts
      <4> QED BY <1>1, <3>1, <4>1, <4>2
    <3>4. CASE Len(ordre) # 0
      <4>1. Len(ordre) \in 1 .. Len(ordre)
        BY <3>4, ListFacts
      <4>2. last = ordre[Len(ordre)] /\ last # NoEl
        BY <3>4, <4>1, ListFacts, EmptySeq DEF WellLinked
      <4>3. mem[last] = "live"
        BY <4>1, <4>2 DEF InUse
      <4>4. \A j, k \in 1 .. Len(ordre) : ordre[j] = last => k <= j
        BY <4>1, <4>2, ListFacts DEF Distinct
      <4> QED BY <1>1, <3>1, <3>2, <4>2, <4>3, <4>4
    <3> QED BY <3>3, <3>4
  <2> QED BY <2>1, <2>2
<1> QED BY <1>3, <1>4, <1>5, <1>6

\* The steps of a thread that only move it along.
LEMMA LookInvariant ==
  ASSUME IInv, NEW t \in Walkers,
         WalkFirst(t) \/ WalkNot(t) \/ Test(t) \/ Walk(t) \/ GoAstray(t)
  PROVE  /\ IInv' /\ ordre' = ordre /\ avant' = avant
         /\ \A r \in Walkers : pc'[r] = "add" <=> pc[r] = "add"
<1> USE DEF IInv
<1>1. /\ UNCHANGED <<first, last, next, prev, count, data, mem, ordre, avant>>
      /\ pc' \in [Walkers -> Locations]
      /\ el' \in [Walkers -> Elements \cup {NoEl}]
      /\ i' \in [Walkers -> Nat]
      /\ astray' \in BOOLEAN /\ manque' \in [Walkers -> SUBSET Elements]
      /\ \A r \in Walkers : /\ pc'[r] \in {"add", "free"} => el'[r] = el[r]
                            /\ pc'[r] = "add" <=> pc[r] = "add"
                            /\ pc'[r] = "free" <=> pc[r] = "free"
  <2>1. CASE WalkFirst(t)
    <3>1. ToSet(ordre) \in SUBSET Elements
      BY ListFacts
    <3> QED BY <2>1, <3>1 DEF WalkFirst, Goto, TypeOK, Locations, links
  <2>2. CASE WalkNot(t)
    BY <2>2 DEF WalkNot, Goto, TypeOK, Locations, links, history
  <2>3. CASE Test(t)
    BY <2>3 DEF Test, Goto, TypeOK, Locations, links, history
  <2>4. CASE Walk(t)
    <3>1. el[t] \in Elements /\ pc[t] = "walk"
      BY <2>4 DEF Walk, Live
    <3>2. UNCHANGED <<first, last, next, prev, count, data, mem, astray, ordre, avant>>
      BY <2>4 DEF Walk, links
    <3>3. CASE data[el[t]] = t
      <4>1. pc' = [pc EXCEPT ![t] = "remove"] /\ UNCHANGED <<el, i, manque>>
        BY <2>4, <3>3 DEF Walk, Goto
      <4> QED BY <3>1, <3>2, <4>1 DEF TypeOK, Locations
    <3>4. CASE data[el[t]] # t
      <4>1. PICK l \in {"test", "walk"} : pc' = [pc EXCEPT ![t] = l]
        BY <2>4, <3>4 DEF Walk, Goto
      <4>2. /\ el' = [el EXCEPT ![t] = next[el[t]]]
            /\ i' = [i EXCEPT ![t] = i[t] + 1]
            /\ manque' = [manque EXCEPT ![t] = manque[t] \ {el[t]}]
        BY <2>4, <3>4 DEF Walk
      <4>3. next[el[t]] \in Elements \cup {NoEl} /\ i[t] + 1 \in Nat
            /\ manque[t] \ {el[t]} \in SUBSET Elements
        BY <3>1 DEF TypeOK
      <4> QED BY <3>1, <3>2, <4>1, <4>2, <4>3 DEF TypeOK, Locations
    <3> QED BY <3>3, <3>4
  <2>5. CASE GoAstray(t)
    BY <2>5 DEF GoAstray, TypeOK, threadVars, links, history
  <2> QED BY <2>1, <2>2, <2>3, <2>4, <2>5
<1>2. TypeOK'
  BY <1>1 DEF TypeOK
<1>3. WellLinked' /\ Distinct' /\ InUse'
  BY <1>1 DEF WellLinked, Distinct, InUse
<1>4. FreeOK'
  BY <1>1 DEF FreeOK
<1>5. Behind'
  BY <1>1 DEF Behind
<1> QED BY <1>1, <1>2, <1>3, <1>4, <1>5

\* addEl preserves the invariant, and inserts as Suite allows.
LEMMA AddInvariant ==
  ASSUME IInv, NEW t \in Walkers, Add(t)
  PROVE  /\ IInv'
         /\ \E e \in Elements, k \in 1 .. Len(ordre) + 1 :
               /\ e \notin ToSet(ordre)
               /\ \A j \in k .. Len(ordre) : ordre[j] \notin avant[t]
               /\ ordre' = InsertAt(ordre, k, e)
<1> USE DEF IInv
<1>1. PICK e \in Elements :
        /\ mem[e] = "none"
        /\ \/ el[t] = NoEl /\ LinkFront(e)
           \/ el[t] \in ToSet(ordre) /\ LinkAfter(el[t], e)
        /\ mem' = [mem EXCEPT ![e] = "live"]
        /\ data' = [data EXCEPT ![e] = t]
  BY DEF Add
<1>2. /\ pc[t] = "add" /\ count' = uint8(count + 1)
      /\ el' = [el EXCEPT ![t] = NoEl] /\ avant' = [avant EXCEPT ![t] = {}]
      /\ pc' = [pc EXCEPT ![t] = "in"] /\ UNCHANGED <<i, astray, manque>>
  BY DEF Add, Goto
<1>3. \A k \in 1 .. Len(ordre) : ordre[k] # e
  BY <1>1 DEF InUse
\* Where the element goes.
<1>4. PICK k \in 1 .. Len(ordre) + 1 :
        /\ ordre' = InsertAt(ordre, k, e)
        /\ \A j \in k .. Len(ordre) : ordre[j] \notin avant[t]
        /\ Chain(ordre', next', prev')
        /\ next' \in [Elements -> Elements \cup {NoEl}]
        /\ prev' \in [Elements -> Elements \cup {NoEl}]
        /\ first' = IF k = 1 THEN e ELSE first
        /\ last' = IF k = Len(ordre) + 1 THEN e ELSE last
  <2>1. CASE el[t] = NoEl /\ LinkFront(e)
    <3>1. /\ next' = [next EXCEPT ![e] = first]
          /\ prev' = [x \in Elements |-> IF x = e THEN NoEl
                              ELSE IF x = first THEN e ELSE prev[x]]
          /\ first' = e /\ last' = IF first = NoEl THEN e ELSE last
          /\ ordre' = InsertAt(ordre, 1, e)
      BY <2>1 DEF LinkFront
    <3>2. 1 \in 1 .. Len(ordre) + 1
      BY ListFacts
    <3>3. avant[t] = {}
      BY <1>2, <2>1 DEF Behind
    <3>4. first = IF Len(ordre) = 0 THEN NoEl ELSE ordre[1]
      BY ListFacts, EmptySeq DEF WellLinked
    <3>5. first = NoEl <=> 1 = Len(ordre) + 1
      <4>1. Len(ordre) # 0 => 1 \in 1 .. Len(ordre)
        BY ListFacts
      <4> QED BY <3>4, <4>1, ListFacts
    <3>6. /\ next' \in [Elements -> Elements \cup {NoEl}]
          /\ \A x \in Elements : next'[x] = IF x = e THEN first ELSE next[x]
      BY <3>1 DEF TypeOK
    <3>7. /\ prev' \in [Elements -> Elements \cup {NoEl}]
          /\ \A x \in Elements : prev'[x] = IF x = e THEN NoEl
                                     ELSE IF x = first THEN e ELSE prev[x]
      BY <3>1 DEF TypeOK
    <3>8. /\ Len(ordre') = Len(ordre) + 1
          /\ \A j \in 1 .. Len(ordre) + 1 :
                ordre'[j] = IF j < 1 THEN ordre[j]
                            ELSE IF j = 1 THEN e ELSE ordre[j - 1]
      <4>1. ordre \in Seq(Elements)
        BY ListFacts
      <4>2. /\ Len(InsertAt(ordre, 1, e)) = Len(ordre) + 1
            /\ \A j \in 1 .. Len(ordre) + 1 :
                  InsertAt(ordre, 1, e)[j] =
                     IF j < 1 THEN ordre[j] ELSE IF j = 1 THEN e ELSE ordre[j - 1]
        BY <3>2, <4>1, InsertFacts
      <4> QED BY <3>1, <4>2
    <3>9. Chain(ordre, next, prev)
      BY DEF WellLinked, Chain
    <3>10. Chain(ordre', next', prev')
      <4>1. ordre \in Seq(Elements)
        BY ListFacts
      <4>2. \A j, k \in 1 .. Len(ordre) : ordre[j] = ordre[k] => j = k
        BY DEF Distinct
      <4>3. PutFront(ordre, next, prev, first, e, ordre', next', prev')
        BY <1>3, <3>4, <3>6, <3>7, <3>8, <3>9, <4>2 DEF PutFront
      <4> QED BY <4>1, <4>3, ChainFront
    <3> QED BY <3>1, <3>2, <3>3, <3>5, <3>6, <3>7, <3>10
  <2>2. CASE el[t] \in ToSet(ordre) /\ LinkAfter(el[t], e)
    <3> DEFINE p == el[t]
               r == Rank(ordre, p)
    <3>0. r \in 1 .. Len(ordre) /\ ordre[r] = p /\ p \in Elements
      BY <2>2, ListFacts, RankFacts
    <3>1. /\ next' = [next EXCEPT ![e] = next[p], ![p] = e]
          /\ prev' = [x \in Elements |-> IF x = e THEN p
                              ELSE IF x = next[p] THEN e ELSE prev[x]]
          /\ first' = first /\ last' = IF last = p THEN e ELSE last
          /\ ordre' = InsertAt(ordre, r + 1, e)
      BY <2>2 DEF LinkAfter
    <3> HIDE DEF r, p
    <3>2. /\ r + 1 \in 1 .. Len(ordre) + 1 /\ r + 1 # 1
          /\ (r + 1 = Len(ordre) + 1 <=> r = Len(ordre))
      <4>1. Len(ordre) \in Nat
        BY ListFacts
      <4> QED BY <3>0, <4>1
    <3>3. \A j \in r + 1 .. Len(ordre) : ordre[j] \notin avant[t]
      <4> SUFFICES ASSUME NEW j \in r + 1 .. Len(ordre), ordre[j] \in avant[t]
                   PROVE  FALSE
        OBVIOUS
      <4>1. j \in 1 .. Len(ordre) /\ ~(j <= r)
        BY <3>0, ListFacts
      <4> QED BY <1>2, <3>0, <4>1 DEF Behind, p
    <3>4. last = p <=> r = Len(ordre)
      <4>1. Len(ordre) # 0 /\ Len(ordre) \in 1 .. Len(ordre)
        BY <3>0, ListFacts
      <4>2. last = ordre[Len(ordre)]
        BY <4>1, ListFacts, EmptySeq DEF WellLinked
      <4> QED BY <3>0, <4>1, <4>2 DEF Distinct
    <3>5. p # e /\ next[p] \in Elements \cup {NoEl}
      BY <1>3, <3>0 DEF TypeOK
    <3>6. /\ next' \in [Elements -> Elements \cup {NoEl}]
          /\ \A x \in Elements : next'[x] = IF x = ordre[r] THEN e
                                     ELSE IF x = e THEN next[ordre[r]] ELSE next[x]
      BY <3>0, <3>1, <3>5 DEF TypeOK
    <3>7. /\ prev' \in [Elements -> Elements \cup {NoEl}]
          /\ \A x \in Elements : prev'[x] = IF x = e THEN ordre[r]
                                     ELSE IF x = next[ordre[r]] THEN e ELSE prev[x]
      BY <3>0, <3>1, <3>5 DEF TypeOK
    <3>8. /\ Len(ordre') = Len(ordre) + 1
          /\ \A j \in 1 .. Len(ordre) + 1 :
                ordre'[j] = IF j < r + 1 THEN ordre[j]
                            ELSE IF j = r + 1 THEN e ELSE ordre[j - 1]
      <4>1. ordre \in Seq(Elements)
        BY ListFacts
      <4> DEFINE m == r + 1
      <4>2. m \in 1 .. Len(ordre) + 1
        BY <3>2
      <4>4. ordre' = InsertAt(ordre, m, e)
        BY <3>1
      <4> HIDE DEF m
      <4>3. /\ Len(ordre') = Len(ordre) + 1
            /\ \A j \in 1 .. Len(ordre) + 1 :
                  ordre'[j] = IF j < m THEN ordre[j]
                              ELSE IF j = m THEN e ELSE ordre[j - 1]
        <5>1. /\ InsertAt(ordre, m, e) \in Seq(Elements)
              /\ Len(InsertAt(ordre, m, e)) = Len(ordre) + 1
              /\ \A j \in 1 .. Len(ordre) + 1 :
                    InsertAt(ordre, m, e)[j] =
                       IF j < m THEN ordre[j] ELSE IF j = m THEN e ELSE ordre[j - 1]
          BY <4>1, <4>2, InsertFacts
        <5> QED BY <4>4, <5>1
      <4> QED BY <4>3 DEF m
    <3>9. Chain(ordre, next, prev)
      BY DEF WellLinked, Chain
    <3>10. Chain(ordre', next', prev')
      <4>1. ordre \in Seq(Elements)
        BY ListFacts
      <4>2. \A j, k \in 1 .. Len(ordre) : ordre[j] = ordre[k] => j = k
        BY DEF Distinct
      <4>3. PutAfter(ordre, next, prev, r, e, ordre', next', prev')
        BY <1>3, <3>6, <3>7, <3>8, <3>9, <4>2 DEF PutAfter
      <4> QED BY <3>0, <4>1, <4>3, ChainAfter
    <3> QED BY <3>1, <3>2, <3>3, <3>4, <3>6, <3>7, <3>10
  <2> QED BY <1>1, <2>1, <2>2
<1>5. /\ ordre' \in Seq(Elements) /\ Len(ordre') = Len(ordre) + 1
      /\ \A j \in 1 .. Len(ordre) + 1 :
            ordre'[j] = IF j < k THEN ordre[j]
                        ELSE IF j = k THEN e ELSE ordre[j - 1]
  <2>1. ordre \in Seq(Elements)
    BY ListFacts
  <2> QED BY <1>4, <2>1, InsertFacts
\* An element of the list is the new one, or one of the old ones.
<1> DEFINE old(j) == IF j < k THEN j ELSE j - 1
<1>6. /\ ordre'[k] = e
      /\ \A j \in 1 .. Len(ordre') : j # k => /\ old(j) \in 1 .. Len(ordre)
                                              /\ ordre'[j] = ordre[old(j)]
  BY <1>5, ListFacts
<1>7. /\ \A j, l \in 1 .. Len(ordre') :
            j # k /\ l # k /\ old(j) = old(l) => j = l
      /\ \A j, l \in 1 .. Len(ordre') :
            j # k /\ l # k /\ old(j) <= old(l) => j <= l
  BY <1>5, ListFacts
<1> HIDE DEF old
<1>8. TypeOK'
  <2>1. /\ pc' \in [Walkers -> Locations] /\ el' \in [Walkers -> Elements \cup {NoEl}]
        /\ avant' \in [Walkers -> SUBSET Elements]
    BY <1>2 DEF TypeOK, Locations
  <2>2. /\ mem' \in [Elements -> {"none", "live", "freed"}]
        /\ data' \in [Elements -> Walkers \cup {NoEl}]
    BY <1>1 DEF TypeOK
  <2>3. count' \in 0 .. 255
    BY <1>2 DEF TypeOK, uint8
  <2>4. first' \in Elements \cup {NoEl} /\ last' \in Elements \cup {NoEl}
    BY <1>4 DEF TypeOK
  <2> QED BY <1>2, <1>4, <1>5, <2>1, <2>2, <2>3, <2>4 DEF TypeOK
<1>9. WellLinked'
  <2>1. ordre' # <<>> /\ Len(ordre') \in 1 .. Len(ordre') /\ 1 \in 1 .. Len(ordre')
    BY <1>5, ListFacts, EmptySeq
  <2>2. first' = ordre'[1]
    <3>1. CASE k = 1
      BY <1>4, <1>6, <3>1
    <3>2. CASE k # 1
      <4>1. 1 < k /\ Len(ordre) # 0
        BY <3>2, ListFacts
      <4>2. first' = ordre[1]
        BY <1>4, <3>2, <4>1, ListFacts, EmptySeq DEF WellLinked
      <4> QED BY <1>5, <2>1, <4>1, <4>2
    <3> QED BY <3>1, <3>2
  <2>3. last' = ordre'[Len(ordre')]
    <3>1. CASE k = Len(ordre) + 1
      BY <1>4, <1>5, <1>6, <3>1
    <3>2. CASE k # Len(ordre) + 1
      <4>1. /\ Len(ordre) # 0 /\ ~(Len(ordre') < k) /\ Len(ordre') # k
            /\ Len(ordre') - 1 = Len(ordre) /\ Len(ordre') \in 1 .. Len(ordre) + 1
        BY <1>5, <3>2, ListFacts
      <4>2. last' = ordre[Len(ordre)]
        BY <1>4, <3>2, <4>1, ListFacts, EmptySeq DEF WellLinked
      <4> QED BY <1>5, <4>1, <4>2
    <3> QED BY <3>1, <3>2
  <2>4. count' = uint8(Len(ordre'))
    <3>1. count = uint8(Len(ordre))
      BY DEF WellLinked
    <3>2. Len(ordre) \in Nat
      BY ListFacts
    <3> QED BY <1>2, <1>5, <3>1, <3>2 DEF uint8
  <2> QED BY <1>4, <2>1, <2>2, <2>3, <2>4 DEF WellLinked, Chain
<1>10. Distinct'
  <2> SUFFICES ASSUME NEW j \in 1 .. Len(ordre'), NEW l \in 1 .. Len(ordre'),
                      ordre'[j] = ordre'[l]
               PROVE  j = l
    BY DEF Distinct
  <2>1. CASE j = k \/ l = k
    BY <1>3, <1>6, <2>1
  <2>2. CASE j # k /\ l # k
    BY <1>6, <1>7, <2>2 DEF Distinct
  <2> QED BY <2>1, <2>2
<1>11. InUse'
  <2> SUFFICES ASSUME NEW j \in 1 .. Len(ordre') PROVE mem'[ordre'[j]] = "live"
    BY DEF InUse
  <2>1. CASE j = k
    BY <1>1, <1>6, <2>1 DEF TypeOK
  <2>2. CASE j # k
    <3>1. old(j) \in 1 .. Len(ordre) /\ ordre'[j] = ordre[old(j)]
      BY <1>6, <2>2
    <3>2. mem[ordre'[j]] = "live" /\ ordre'[j] \in Elements
      BY <3>1, ListFacts DEF InUse
    <3> QED BY <1>1, <3>2 DEF TypeOK
  <2> QED BY <2>1, <2>2
<1>12. FreeOK'
  <2> SUFFICES ASSUME NEW r \in Walkers, pc'[r] = "free"
               PROVE  /\ el'[r] \in Elements /\ mem'[el'[r]] # "none"
                      /\ \A j \in 1 .. Len(ordre') : ordre'[j] # el'[r]
    BY DEF FreeOK
  <2>1. r # t /\ pc[r] = "free" /\ el'[r] = el[r]
    BY <1>2 DEF TypeOK
  <2>2. /\ el[r] \in Elements /\ mem[el[r]] # "none"
        /\ \A j \in 1 .. Len(ordre) : ordre[j] # el[r]
    BY <2>1 DEF FreeOK
  <2>3. el[r] # e /\ mem'[el[r]] # "none"
    BY <1>1, <2>2 DEF TypeOK
  <2> QED BY <1>6, <2>1, <2>2, <2>3
<1>13. Behind'
  <2> SUFFICES ASSUME NEW r \in Walkers, pc'[r] = "add"
               PROVE  /\ \A x \in avant'[r] : mem'[x] # "none"
                      /\ el'[r] # NoEl => mem'[el'[r]] # "none"
                      /\ el'[r] = NoEl => avant'[r] = {}
                      /\ \A j, l \in 1 .. Len(ordre') :
                            ordre'[j] = el'[r] /\ ordre'[l] \in avant'[r] => l <= j
    BY DEF Behind
  <2>1. r # t /\ pc[r] = "add" /\ el'[r] = el[r] /\ avant'[r] = avant[r]
    BY <1>2 DEF TypeOK
  <2>2. /\ \A x \in avant[r] : mem[x] # "none"
        /\ el[r] # NoEl => mem[el[r]] # "none"
        /\ el[r] = NoEl => avant[r] = {}
        /\ \A j, l \in 1 .. Len(ordre) :
              ordre[j] = el[r] /\ ordre[l] \in avant[r] => l <= j
    BY <2>1 DEF Behind
  <2>3. el[r] # e /\ e \notin avant[r]
    BY <1>1, <2>2, ListeAssumption
  <2>4. avant[r] \subseteq Elements /\ el[r] \in Elements \cup {NoEl}
    BY DEF TypeOK
  <2>5. /\ \A x \in avant[r] : mem'[x] # "none"
        /\ el[r] # NoEl => mem'[el[r]] # "none"
    BY <1>1, <2>2, <2>4 DEF TypeOK
  <2>6. ASSUME NEW j \in 1 .. Len(ordre'), NEW l \in 1 .. Len(ordre'),
               ordre'[j] = el[r], ordre'[l] \in avant[r]
        PROVE  l <= j
    <3>1. j # k /\ l # k
      BY <1>6, <2>3, <2>6
    <3>2. old(l) <= old(j)
      BY <1>6, <2>2, <2>6, <3>1
    <3> QED BY <1>7, <3>1, <3>2
  <2> QED BY <2>1, <2>2, <2>5, <2>6
<1>14. e \notin ToSet(ordre)
  BY <1>3, ListFacts
<1> QED BY <1>4, <1>8, <1>9, <1>10, <1>11, <1>12, <1>13, <1>14

\* removeEl preserves the invariant, and takes out one element or none.
LEMMA RemoveInvariant ==
  ASSUME IInv, NEW t \in Walkers, RemoveEl(t)
  PROVE  /\ IInv' /\ avant' = avant
         /\ \A x \in Walkers : pc'[x] = "add" <=> pc[x] = "add"
         /\ \/ ordre' = ordre
            \/ \E k \in DOMAIN ordre : ordre' = RemoveAt(ordre, k)
<1> USE DEF IInv
<1>1. /\ pc[t] = "remove" /\ el[t] \in ToSet(ordre) \cup {NoEl}
      /\ UNCHANGED <<el, i, data, mem, astray, avant>>
  BY DEF RemoveEl
<1>2. CASE el[t] = NoEl
  <2>1. /\ pc' = [pc EXCEPT ![t] = "out"]
        /\ UNCHANGED <<first, last, next, prev, count, ordre, manque>>
    BY <1>2 DEF RemoveEl, Goto, links
  <2>2. TypeOK'
    BY <1>1, <2>1 DEF TypeOK, Locations
  <2>3. WellLinked' /\ Distinct' /\ InUse'
    BY <1>1, <2>1 DEF WellLinked, Distinct, InUse
  <2>4. FreeOK'
    BY <1>1, <2>1 DEF FreeOK, TypeOK
  <2>5. Behind'
    BY <1>1, <2>1 DEF Behind, TypeOK
  <2>6. \A x \in Walkers : pc'[x] = "add" <=> pc[x] = "add"
    BY <1>1, <2>1 DEF TypeOK
  <2> QED BY <1>1, <2>1, <2>2, <2>3, <2>4, <2>5, <2>6
<1>3. CASE el[t] # NoEl
  <2> DEFINE e == el[t]
             r == Rank(ordre, e)
             n == Len(ordre)
  <2>1. r \in 1 .. n /\ ordre[r] = e /\ e \in Elements /\ r \in DOMAIN ordre
    <3>1. e \in ToSet(ordre)
      BY <1>1, <1>3
    <3> QED BY <3>1, RankFacts, ListFacts
  <2>2. /\ pc' = [pc EXCEPT ![t] = "free"] /\ count' = uint8(count - 1)
        /\ manque' = [x \in Walkers |-> {}] /\ Unlink(e)
    BY <1>3 DEF RemoveEl, Goto
  <2>3. /\ ordre' = RemoveAt(ordre, r)
        /\ \/ /\ prev[e] # NoEl /\ next[e] # NoEl
              /\ next' = [next EXCEPT ![prev[e]] = next[e]]
              /\ prev' = [prev EXCEPT ![next[e]] = prev[e]]
              /\ UNCHANGED <<first, last>>
           \/ /\ prev[e] = NoEl \/ next[e] = NoEl
              /\ first' = IF e = first THEN next[e] ELSE first
              /\ last'  = IF e = last THEN prev[e] ELSE last
              /\ prev'  = IF e = first /\ next[e] # NoEl
                            THEN [prev EXCEPT ![next[e]] = NoEl] ELSE prev
              /\ next'  = IF e = last /\ prev[e] # NoEl
                            THEN [next EXCEPT ![prev[e]] = NoEl] ELSE next
    BY <2>2 DEF Unlink
  <2> HIDE DEF r, e
  <2>4. ordre \in Seq(Elements) /\ n \in Nat /\ r \in Int
    BY <2>1, ListFacts
  <2>5. /\ ordre' \in Seq(Elements) /\ Len(ordre') = n - 1
        /\ \A j \in 1 .. n - 1 :
              ordre'[j] = IF j < r THEN ordre[j] ELSE ordre[j + 1]
    BY <2>1, <2>3, <2>4, RemoveFacts
  <2>6. /\ next[e] = IF r = n THEN NoEl ELSE ordre[r + 1]
        /\ prev[e] = IF r = 1 THEN NoEl ELSE ordre[r - 1]
    BY <2>1 DEF WellLinked
  <2>7. /\ r < n => r + 1 \in 1 .. n /\ ordre[r + 1] \in Elements /\ ordre[r + 1] # NoEl
        /\ r > 1 => r - 1 \in 1 .. n /\ ordre[r - 1] \in Elements /\ ordre[r - 1] # NoEl
    <3>1. /\ r < n => r + 1 \in 1 .. n
          /\ r > 1 => r - 1 \in 1 .. n
      BY <2>1, <2>4
    <3> QED BY <3>1, ListFacts
  <2>8. /\ r = n <=> ~(r < n)
        /\ r = 1 <=> ~(r > 1)
    BY <2>1, <2>4
  <2>9. /\ next[e] = NoEl <=> r = n
        /\ prev[e] = NoEl <=> r = 1
    BY <2>6, <2>7, <2>8
  <2>10. /\ n \in 1 .. n /\ 1 \in 1 .. n /\ first = ordre[1] /\ last = ordre[n]
    <3>1. n \in 1 .. n /\ 1 \in 1 .. n
      BY <2>1, <2>4
    <3>2. ordre # <<>>
      BY <2>1, <2>4, EmptySeq
    <3> QED BY <3>1, <3>2 DEF WellLinked
  <2>11. (e = first <=> r = 1) /\ (e = last <=> r = n)
    BY <2>1, <2>10 DEF Distinct
  <2>12. /\ first' = IF r = 1 THEN next[e] ELSE first
         /\ last'  = IF r = n THEN prev[e] ELSE last
    BY <2>3, <2>9, <2>11
  <2>13. /\ next' \in [Elements -> Elements \cup {NoEl}]
         /\ \A x \in Elements :
               next'[x] = IF r > 1 /\ x = ordre[r - 1]
                            THEN IF r = n THEN NoEl ELSE ordre[r + 1] ELSE next[x]
    <3>1. next' = IF r = 1 THEN next ELSE [next EXCEPT ![prev[e]] = next[e]]
      BY <2>3, <2>9, <2>11
    <3>2. next[e] \in Elements \cup {NoEl}
      BY <2>1 DEF TypeOK
    <3>3. CASE r = 1
      BY <2>8, <3>1, <3>3 DEF TypeOK
    <3>4. CASE r # 1
      <4>1. r > 1 /\ prev[e] = ordre[r - 1] /\ ordre[r - 1] \in Elements
        BY <2>6, <2>7, <2>8, <3>4
      <4>2. next' = [next EXCEPT ![ordre[r - 1]] = next[e]]
        BY <3>1, <3>4, <4>1
      <4> QED BY <2>6, <3>2, <4>1, <4>2 DEF TypeOK
    <3> QED BY <3>3, <3>4
  <2>14. /\ prev' \in [Elements -> Elements \cup {NoEl}]
         /\ \A x \in Elements :
               prev'[x] = IF r < n /\ x = ordre[r + 1]
                            THEN IF r = 1 THEN NoEl ELSE ordre[r - 1] ELSE prev[x]
    <3>1. prev' = IF r = n THEN prev ELSE [prev EXCEPT ![next[e]] = prev[e]]
      BY <2>3, <2>9, <2>11
    <3>2. prev[e] \in Elements \cup {NoEl}
      BY <2>1 DEF TypeOK
    <3>3. CASE r = n
      BY <2>8, <3>1, <3>3 DEF TypeOK
    <3>4. CASE r # n
      <4>1. r < n /\ next[e] = ordre[r + 1] /\ ordre[r + 1] \in Elements
        BY <2>6, <2>7, <2>8, <3>4
      <4>2. prev' = [prev EXCEPT ![ordre[r + 1]] = prev[e]]
        BY <3>1, <3>4, <4>1
      <4> QED BY <2>6, <3>2, <4>1, <4>2 DEF TypeOK
    <3> QED BY <3>3, <3>4
  <2>15. Chain(ordre', next', prev')
    <3>1. \A j, k \in 1 .. n : ordre[j] = ordre[k] => j = k
      BY DEF Distinct
    <3>2. Chain(ordre, next, prev)
      BY DEF WellLinked, Chain
    <3>3. TakenOut(ordre, next, prev, r, ordre', next', prev')
      BY <2>5, <2>13, <2>14, <3>1, <3>2 DEF TakenOut
    <3> QED BY <2>1, <2>4, <3>3, ChainOut
  \* An element of the list was in it before, and not where e was.
  <2> DEFINE old(j) == IF j < r THEN j ELSE j + 1
  <2>16. \A j \in 1 .. Len(ordre') :
            old(j) \in 1 .. n /\ old(j) # r /\ ordre'[j] = ordre[old(j)]
    BY <2>1, <2>4, <2>5
  <2>17. \A j, l \in 1 .. Len(ordre') :
            (old(j) = old(l) => j = l) /\ (old(j) <= old(l) => j <= l)
    BY <2>4, <2>5
  <2> HIDE DEF old
  <2>18. TypeOK'
    <3>1. pc' \in [Walkers -> Locations] /\ manque' \in [Walkers -> SUBSET Elements]
      BY <2>2 DEF TypeOK, Locations
    <3>2. count' \in 0 .. 255
      BY <2>2 DEF TypeOK, uint8
    <3>3. first' \in Elements \cup {NoEl} /\ last' \in Elements \cup {NoEl}
      BY <2>1, <2>12 DEF TypeOK
    <3> QED BY <1>1, <2>5, <2>13, <2>14, <3>1, <3>2, <3>3 DEF TypeOK
  <2>19. WellLinked'
    <3>1. CASE n = 1
      <4>1. r = 1 /\ r = n /\ Len(ordre') = 0
        BY <2>1, <2>4, <2>5, <3>1
      <4>2. ordre' = <<>>
        BY <2>5, <4>1, EmptySeq
      <4>3. first' = NoEl /\ last' = NoEl
        BY <2>9, <2>12, <4>1
      <4>4. count' = uint8(Len(ordre'))
        <5>1. count = uint8(n)
          BY DEF WellLinked
        <5> QED BY <2>2, <3>1, <4>1, <5>1 DEF uint8
      <4> QED BY <2>15, <4>2, <4>3, <4>4 DEF WellLinked, Chain
    <3>2. CASE n # 1
      <4>0. 1 <= n /\ n \in Int
        BY <2>1, <2>4
      <4>1. n > 1 /\ 1 \in 1 .. n - 1 /\ n - 1 \in 1 .. n - 1
        BY <3>2, <4>0, InnerRange
      <4>2. ordre' # <<>>
        BY <2>5, <4>1, EmptySeq
      <4>3. first' = ordre'[1]
        <5>1. CASE r = 1
          <6>1. ~(1 < r) /\ r + 1 = 1 + 1
            BY <5>1
          <6>2. r # n
            BY <3>2, <5>1
          <6> QED BY <2>5, <2>6, <2>12, <4>1, <5>1, <6>1, <6>2
        <5>2. CASE r # 1
          <6>1. 1 < r
            BY <2>1, <2>4, <5>2
          <6> QED BY <2>5, <2>10, <2>12, <4>1, <5>2, <6>1
        <5> QED BY <5>1, <5>2
      <4>4. last' = ordre'[Len(ordre')]
        <5>1. CASE r = n
          <6>1. n - 1 < r /\ r # 1 /\ r - 1 = n - 1
            BY <4>1, <5>1
          <6>2. ordre'[n - 1] = ordre[n - 1]
            BY <2>5, <4>1, <6>1
          <6>3. last' = ordre[n - 1]
            BY <2>6, <2>12, <5>1, <6>1
          <6> QED BY <2>5, <6>2, <6>3
        <5>2. CASE r # n
          <6>1. ~(n - 1 < r) /\ (n - 1) + 1 = n
            BY <2>1, <2>4, <5>2
          <6>2. ordre'[n - 1] = ordre[(n - 1) + 1]
            BY <2>5, <4>1, <6>1
          <6> QED BY <2>5, <2>10, <2>12, <5>2, <6>1, <6>2
        <5> QED BY <5>1, <5>2
      <4>5. count' = uint8(Len(ordre'))
        <5>1. count = uint8(n)
          BY DEF WellLinked
        <5> QED BY <2>2, <2>4, <2>5, <5>1 DEF uint8
      <4> QED BY <2>15, <4>2, <4>3, <4>4, <4>5 DEF WellLinked, Chain
    <3> QED BY <3>1, <3>2
  <2>20. Distinct'
    BY <2>16, <2>17 DEF Distinct
  <2>21. InUse'
    BY <1>1, <2>16 DEF InUse
  <2>22. FreeOK'
    <3> SUFFICES ASSUME NEW x \in Walkers, pc'[x] = "free"
                 PROVE  /\ el'[x] \in Elements /\ mem'[el'[x]] # "none"
                        /\ \A j \in 1 .. Len(ordre') : ordre'[j] # el'[x]
      BY DEF FreeOK
    <3>1. CASE x = t
      <4>1. mem[e] = "live"
        BY <2>1 DEF InUse
      <4>2. \A j \in 1 .. Len(ordre') : ordre'[j] # e
        BY <2>1, <2>16 DEF Distinct
      <4> QED BY <1>1, <2>1, <3>1, <4>1, <4>2 DEF e
    <3>2. CASE x # t
      <4>1. pc[x] = "free"
        BY <2>2, <3>2 DEF TypeOK
      <4> QED BY <1>1, <2>16, <4>1 DEF FreeOK
    <3> QED BY <3>1, <3>2
  <2>23. \A x \in Walkers : pc'[x] = "add" <=> pc[x] = "add"
    BY <1>1, <2>2 DEF TypeOK
  <2>24. Behind'
    <3> SUFFICES ASSUME NEW x \in Walkers, pc[x] = "add"
                 PROVE  /\ \A y \in avant[x] : mem[y] # "none"
                        /\ el[x] # NoEl => mem[el[x]] # "none"
                        /\ el[x] = NoEl => avant[x] = {}
                        /\ \A j, l \in 1 .. Len(ordre') :
                              ordre'[j] = el[x] /\ ordre'[l] \in avant[x] => l <= j
      BY <1>1, <2>23 DEF Behind
    <3>1. ASSUME NEW j \in 1 .. Len(ordre'), NEW l \in 1 .. Len(ordre'),
                 ordre'[j] = el[x], ordre'[l] \in avant[x]
          PROVE  l <= j
      <4>1. old(l) <= old(j)
        BY <2>16, <3>1 DEF Behind
      <4> QED BY <2>17, <4>1
    <3> QED BY <3>1 DEF Behind
  <2> QED BY <1>1, <2>1, <2>3, <2>18, <2>19, <2>20, <2>21, <2>22, <2>23, <2>24
<1> QED BY <1>2, <1>3

\* free preserves the invariant, for the element is not in the list any more.
LEMMA FreeInvariant ==
  ASSUME IInv, NEW t \in Walkers, Free(t)
  PROVE  /\ IInv' /\ ordre' = ordre /\ avant' = avant
         /\ \A x \in Walkers : pc'[x] = "add" <=> pc[x] = "add"
<1> USE DEF IInv
<1>1. /\ pc[t] = "free" /\ mem' = [mem EXCEPT ![el[t]] = "freed"]
      /\ el' = [el EXCEPT ![t] = NoEl] /\ pc' = [pc EXCEPT ![t] = "out"]
      /\ UNCHANGED <<i, first, last, next, prev, count, data, astray, ordre, avant, manque>>
  BY DEF Free, Goto, links, history
<1>2. /\ el[t] \in Elements
      /\ \A k \in 1 .. Len(ordre) : ordre[k] # el[t]
  BY <1>1 DEF FreeOK
<1>3. \A e \in Elements : mem[e] # "none" => mem'[e] # "none"
  BY <1>1, <1>2 DEF TypeOK
<1>4. \A x \in Walkers : /\ pc'[x] = "add" <=> pc[x] = "add"
                         /\ pc'[x] = "free" => pc[x] = "free" /\ x # t
                         /\ x # t => el'[x] = el[x]
  BY <1>1 DEF TypeOK
<1>5. TypeOK'
  BY <1>1, <1>2 DEF TypeOK, Locations
<1>6. WellLinked' /\ Distinct'
  BY <1>1 DEF WellLinked, Distinct
<1>7. InUse'
  BY <1>1, <1>2, ListFacts DEF InUse, TypeOK
<1>8. FreeOK'
  BY <1>1, <1>3, <1>4 DEF FreeOK
<1>9. Behind'
  <2> SUFFICES ASSUME NEW x \in Walkers, pc[x] = "add"
               PROVE  /\ \A y \in avant[x] : mem'[y] # "none"
                      /\ el[x] # NoEl => mem'[el[x]] # "none"
                      /\ el[x] = NoEl => avant[x] = {}
                      /\ \A j, l \in 1 .. Len(ordre) :
                            ordre[j] = el[x] /\ ordre[l] \in avant[x] => l <= j
    BY <1>1, <1>4 DEF Behind
  <2>1. avant[x] \subseteq Elements /\ el[x] \in Elements \cup {NoEl}
    BY DEF TypeOK
  <2> QED BY <1>3, <2>1 DEF Behind
<1> QED BY <1>1, <1>4, <1>5, <1>6, <1>7, <1>8, <1>9

-----------------------------------------------------------------------------
(* The theorems.                                                           *)

\* Every step preserves the invariant.
LEMMA StepInvariant == IInv /\ [Next]_vars => IInv'
<1> SUFFICES ASSUME IInv, [Next]_vars PROVE IInv'
  OBVIOUS
<1>1. CASE UNCHANGED vars
  BY <1>1 DEF IInv, TypeOK, WellLinked, Distinct, InUse, FreeOK, Behind,
              vars, threadVars, links, history
<1>2. CASE Next
  <2>1. PICK t \in Walkers : Step(t)
    BY <1>2 DEF Next
  <2> QED BY <2>1, ReadLastInvariant, AddInvariant, LookInvariant,
             RemoveInvariant, FreeInvariant DEF Step
<1> QED BY <1>1, <1>2

\* The invariant holds, for any number of threads that add, search, remove or
\* only walk, and of elements.
THEOREM Invariance == Spec => []IInv
<1> QED BY InitInvariant, StepInvariant, PTL DEF Spec

\* The pointers and the length keep their types.
THEOREM TypeCorrect == Spec => []TypeOK
<1>1. IInv => TypeOK
  BY DEF IInv
<1> QED BY <1>1, Invariance, PTL

\* Under the lock of addEl and removeEl alone, the pointers of every element,
\* those of the list and its length always describe one sequence, although
\* addEl is given a `last' that its caller read without the lock.
THEOREM WellLinkedHolds == Spec => []WellLinked
<1>1. IInv => WellLinked
  BY DEF IInv
<1> QED BY <1>1, Invariance, PTL

\* The operators on sequences are the same in Suite.
LEMMA SameOperators ==
  /\ Abstract!ToSet(ordre) = ToSet(ordre)
  /\ \A k, e : Abstract!InsertAt(ordre, k, e) = InsertAt(ordre, k, e)
  /\ \A k : Abstract!RemoveAt(ordre, k) = RemoveAt(ordre, k)
BY DEF ToSet, Abstract!ToSet, InsertAt, Abstract!InsertAt, RemoveAt, Abstract!RemoveAt

\* Every step of a thread on the pointers is a step, or none, of the sequence
\* of Suite; in particular addEl puts its element behind all those that were in
\* the list when its caller read `last'.
LEMMA StepImplements == IInv /\ [Next]_vars => [Abstract!Next]_(Abstract!vars)
<1> SUFFICES ASSUME IInv, [Next]_vars PROVE [Abstract!Next]_(Abstract!vars)
  OBVIOUS
<1> DEFINE calls == {t \in Walkers : pc[t] = "add"}
<1>1. CASE UNCHANGED vars
  <2>1. UNCHANGED <<pc, ordre, avant>>
    BY <1>1 DEF vars, threadVars, history
  <2> QED BY <2>1 DEF Abstract!vars
<1>2. CASE Next
  <2>1. PICK t \in Walkers : Step(t)
    BY <1>2 DEF Next
  <2>2. CASE ReadLast(t)
    <3>1. /\ pc[t] = "out" /\ pc' = [pc EXCEPT ![t] = "add"] /\ ordre' = ordre
          /\ avant' = [avant EXCEPT ![t] = ToSet(ordre)]
      BY <2>2 DEF ReadLast, Goto
    <3>2. t \notin calls /\ calls' = calls \cup {t}
      BY <3>1 DEF IInv, TypeOK
    <3>3. Abstract!Begin(t)
      BY <3>1, <3>2, SameOperators DEF Abstract!Begin
    <3> QED BY <3>3 DEF Abstract!Next
  <2>3. CASE Add(t)
    <3>1. /\ pc[t] = "add" /\ pc' = [pc EXCEPT ![t] = "in"]
          /\ avant' = [avant EXCEPT ![t] = {}]
      BY <2>3 DEF Add, Goto
    <3>2. t \in calls /\ calls' = calls \ {t}
      BY <3>1 DEF IInv, TypeOK
    <3>3. Abstract!Insert(t)
      <4>1. PICK e \in Elements, k \in 1 .. Len(ordre) + 1 :
              /\ e \notin ToSet(ordre)
              /\ \A j \in k .. Len(ordre) : ordre[j] \notin avant[t]
              /\ ordre' = InsertAt(ordre, k, e)
        BY <2>3, AddInvariant
      <4> QED BY <3>1, <3>2, <4>1, SameOperators DEF Abstract!Insert
    <3> QED BY <3>3 DEF Abstract!Next
  <2>4. CASE WalkFirst(t) \/ WalkNot(t) \/ Test(t) \/ Walk(t) \/ GoAstray(t) \/ Free(t)
    <3>1. /\ ordre' = ordre /\ avant' = avant
          /\ \A x \in Walkers : pc'[x] = "add" <=> pc[x] = "add"
      BY <2>4, LookInvariant, FreeInvariant
    <3>2. calls' = calls
      BY <3>1
    <3> QED BY <3>1, <3>2 DEF Abstract!vars
  <2>5. CASE RemoveEl(t)
    <3>1. /\ avant' = avant
          /\ \A x \in Walkers : pc'[x] = "add" <=> pc[x] = "add"
          /\ \/ ordre' = ordre
             \/ \E k \in DOMAIN ordre : ordre' = RemoveAt(ordre, k)
      BY <2>5, RemoveInvariant
    <3>2. calls' = calls
      BY <3>1
    <3>3. CASE ordre' = ordre
      BY <3>1, <3>2, <3>3 DEF Abstract!vars
    <3>4. CASE \E k \in DOMAIN ordre : ordre' = RemoveAt(ordre, k)
      <4>1. Abstract!Delete
        BY <3>1, <3>2, <3>4, SameOperators DEF Abstract!Delete
      <4> QED BY <4>1 DEF Abstract!Next
    <3> QED BY <3>1, <3>3, <3>4
  <2> QED BY <2>1, <2>2, <2>3, <2>4, <2>5 DEF Step
<1> QED BY <1>1, <1>2

\* The lists of list.c, in the hands of any number of threads, implement the
\* sequence of Suite.
THEOREM ImplementsHolds == Spec => Implements
<1>1. Init => Abstract!Init
  <2> SUFFICES ASSUME Init PROVE Abstract!Init
    OBVIOUS
  <2>1. \A t \in Walkers : pc[t] # "add"
    BY DEF Init
  <2> QED BY <2>1 DEF Init, Abstract!Init
<1> QED BY <1>1, InitInvariant, StepInvariant, StepImplements, PTL
        DEF Spec, Implements, Abstract!Spec

-----------------------------------------------------------------------------
(* The searches and the walks: who looks for its element with a `while'    *)
(* finds it before the end of the list, who has left is not in the list,   *)
(* and a reader misses nobody.                                             *)

Linked == ToSet(ordre)

\* Readers only walk, and nothing in the list is theirs.
Apart ==
    /\ \A r \in Readers : pc[r] \in {"out", "test", "walk", "listed"}
    /\ \A e \in Elements : data[e] \notin Readers

\* A thread has an element in the list from addEl to removeEl, and only one;
\* an element of its that has left the list and is not freed is one it frees.
OneOwn ==
    \A t \in Threads :
        /\ pc[t] \in {"in", "test", "walk", "remove"} =>
              \E e \in Linked : data[e] = t
        /\ pc[t] \in {"out", "add", "free"} => \A e \in Linked : data[e] # t
        /\ \A e, f \in Linked : data[e] = t /\ data[f] = t => e = f
        /\ \A e \in Elements \ Linked :
              mem[e] = "live" /\ data[e] = t => pc[t] = "free" /\ el[t] = e
        /\ pc[t] = "test" => t \in Counted
        /\ pc[t] = "remove" /\ t \notin Counted =>
              el[t] \in Linked /\ data[el[t]] = t

\* The elements of S are those from which the element of t can still be reached:
\* in the list they are not behind it, and those that have left the list still
\* point to one of S.
Track(t, S) ==
    /\ \A x \in S : mem[x] # "none" /\ (x \notin Linked => next[x] \in S)
    /\ \A j, k \in 1 .. Len(ordre) : ordre[j] \in S /\ data[ordre[k]] = t => j <= k

\* A search that follows the pointers is on such a track.
OnTrack ==
    \A t \in Threads \ Counted : pc[t] = "walk" =>
        \E S \in SUBSET Elements : el[t] \in S /\ Track(t, S)

SInv == IInv /\ Apart /\ OneOwn /\ OnTrack

-----------------------------------------------------------------------------
(* The steps that change the list.                                         *)

\* addEl puts a new element, of the one that calls, at some place, and moves no
\* pointer of an element that has left the list.
LEMMA AddStep ==
  ASSUME IInv, NEW t \in Walkers, Add(t)
  PROVE  \E e \in Elements, k \in 1 .. Len(ordre) + 1 :
            /\ mem[e] = "none" /\ e \notin Linked
            /\ mem' = [mem EXCEPT ![e] = "live"]
            /\ data' = [data EXCEPT ![e] = t]
            /\ Len(ordre') = Len(ordre) + 1
            /\ \A j \in 1 .. Len(ordre) + 1 :
                  ordre'[j] = IF j < k THEN ordre[j]
                              ELSE IF j = k THEN e ELSE ordre[j - 1]
            /\ Linked' = Linked \cup {e}
            /\ \A x \in Elements : x \notin Linked /\ x # e => next'[x] = next[x]
<1> USE DEF IInv
<1>1. PICK e \in Elements :
        /\ mem[e] = "none"
        /\ \/ el[t] = NoEl /\ LinkFront(e)
           \/ el[t] \in ToSet(ordre) /\ LinkAfter(el[t], e)
        /\ mem' = [mem EXCEPT ![e] = "live"]
        /\ data' = [data EXCEPT ![e] = t]
  BY DEF Add
<1>2. \A j \in 1 .. Len(ordre) : ordre[j] # e
  BY <1>1 DEF InUse
<1>3. e \notin Linked
  BY <1>2, ListFacts DEF Linked
<1>4. PICK k \in 1 .. Len(ordre) + 1 :
        /\ ordre' = InsertAt(ordre, k, e)
        /\ \A x \in Elements : x \notin Linked /\ x # e => next'[x] = next[x]
  <2>1. CASE el[t] = NoEl /\ LinkFront(e)
    <3>1. next' = [next EXCEPT ![e] = first] /\ ordre' = InsertAt(ordre, 1, e)
      BY <2>1 DEF LinkFront
    <3>2. 1 \in 1 .. Len(ordre) + 1
      BY ListFacts
    <3>3. \A x \in Elements : x # e => next'[x] = next[x]
      BY <3>1 DEF TypeOK
    <3> QED BY <3>1, <3>2, <3>3
  <2>2. CASE el[t] \in ToSet(ordre) /\ LinkAfter(el[t], e)
    <3> DEFINE r == Rank(ordre, el[t])
    <3>1. /\ next' = [next EXCEPT ![e] = next[el[t]], ![el[t]] = e]
          /\ ordre' = InsertAt(ordre, r + 1, e)
      BY <2>2 DEF LinkAfter
    <3>2. r \in 1 .. Len(ordre)
      BY <2>2, RankFacts, ListFacts
    <3>3. r + 1 \in 1 .. Len(ordre) + 1
      BY <3>2, ListFacts
    <3>4. \A x \in Elements : x \notin Linked /\ x # e => next'[x] = next[x]
      BY <2>2, <3>1 DEF TypeOK, Linked
    <3> QED BY <3>1, <3>3, <3>4
  <2> QED BY <1>1, <2>1, <2>2
<1>5. /\ ordre' \in Seq(Elements) /\ Len(ordre') = Len(ordre) + 1
      /\ \A j \in 1 .. Len(ordre) + 1 :
            ordre'[j] = IF j < k THEN ordre[j]
                        ELSE IF j = k THEN e ELSE ordre[j - 1]
  <2>1. ordre \in Seq(Elements)
    BY ListFacts
  <2>2. /\ InsertAt(ordre, k, e) \in Seq(Elements)
        /\ Len(InsertAt(ordre, k, e)) = Len(ordre) + 1
        /\ \A j \in 1 .. Len(ordre) + 1 :
              InsertAt(ordre, k, e)[j] =
                 IF j < k THEN ordre[j] ELSE IF j = k THEN e ELSE ordre[j - 1]
    BY <2>1, InsertFacts
  <2> QED BY <1>4, <2>2
<1>6. Linked' = Linked \cup {e}
  <2>1. /\ DOMAIN ordre' = 1 .. Len(ordre) + 1 /\ Len(ordre) \in Nat
        /\ DOMAIN ordre = 1 .. Len(ordre)
    BY <1>5, LenProperties, ListFacts
  <2>2. ASSUME NEW x \in Linked' PROVE x \in Linked \cup {e}
    <3>1. PICK j \in 1 .. Len(ordre) + 1 : ordre'[j] = x
      BY <2>1, <2>2 DEF Linked, ToSet
    <3>2. CASE j < k
      BY <1>5, <2>1, <3>1, <3>2, ListFacts DEF Linked
    <3>3. CASE j = k
      BY <1>5, <3>1, <3>3
    <3>4. CASE j > k
      <4>1. j - 1 \in 1 .. Len(ordre) /\ ~(j < k) /\ j # k
        BY <2>1, <3>4
      <4>2. ordre'[j] = ordre[j - 1]
        BY <1>5, <4>1
      <4> QED BY <3>1, <4>1, <4>2, ListFacts DEF Linked
    <3> QED BY <2>1, <3>2, <3>3, <3>4
  <2>3. ASSUME NEW x \in Linked PROVE x \in Linked'
    <3>1. PICK j \in 1 .. Len(ordre) : ordre[j] = x
      BY <2>3, ListFacts DEF Linked
    <3>2. CASE j < k
      <4>1. j \in 1 .. Len(ordre) + 1 /\ ordre'[j] = x
        BY <1>5, <2>1, <3>1, <3>2
      <4> QED BY <2>1, <4>1 DEF Linked, ToSet
    <3>3. CASE ~(j < k)
      <4>1. /\ j + 1 \in 1 .. Len(ordre) + 1 /\ ~(j + 1 < k) /\ j + 1 # k
            /\ (j + 1) - 1 = j
        BY <2>1, <3>3
      <4>2. ordre'[j + 1] = x
        BY <1>5, <3>1, <4>1
      <4> QED BY <2>1, <4>1, <4>2 DEF Linked, ToSet
    <3> QED BY <3>2, <3>3
  <2>4. e \in Linked'
    <3>1. ordre'[k] = e
      BY <1>5, <2>1
    <3> QED BY <2>1, <3>1 DEF Linked, ToSet
  <2> QED BY <2>2, <2>3, <2>4
<1> QED BY <1>1, <1>3, <1>4, <1>5, <1>6

\* removeEl takes the element out, and moves no pointer of one that has left.
LEMMA RemoveStep ==
  ASSUME IInv, NEW t \in Walkers, RemoveEl(t), el[t] # NoEl
  PROVE  \E r \in 1 .. Len(ordre) :
            /\ ordre[r] = el[t] /\ el[t] \in Elements
            /\ next[el[t]] = IF r = Len(ordre) THEN NoEl ELSE ordre[r + 1]
            /\ Len(ordre') = Len(ordre) - 1
            /\ \A j \in 1 .. Len(ordre) - 1 :
                  ordre'[j] = IF j < r THEN ordre[j] ELSE ordre[j + 1]
            /\ Linked' = Linked \ {el[t]}
            /\ \A x \in Elements : x \notin Linked' => next'[x] = next[x]
<1> USE DEF IInv
<1> DEFINE e == el[t]
           r == Rank(ordre, e)
<1>1. /\ e \in ToSet(ordre) /\ Unlink(e)
  BY DEF RemoveEl
<1>2. r \in 1 .. Len(ordre) /\ ordre[r] = e /\ e \in Elements
  BY <1>1, RankFacts, ListFacts
<1>3. ordre' = RemoveAt(ordre, r)
  BY <1>1 DEF Unlink
<1>4. /\ next[e] = IF r = Len(ordre) THEN NoEl ELSE ordre[r + 1]
      /\ prev[e] = IF r = 1 THEN NoEl ELSE ordre[r - 1]
  <2>1. \A k \in 1 .. Len(ordre) :
          /\ next[ordre[k]] = IF k = Len(ordre) THEN NoEl ELSE ordre[k + 1]
          /\ prev[ordre[k]] = IF k = 1 THEN NoEl ELSE ordre[k - 1]
    BY DEF WellLinked
  <2> HIDE DEF r, e
  <2> QED BY <1>2, <2>1
<1> HIDE DEF r, e
<1>5. /\ ordre' \in Seq(Elements) /\ Len(ordre') = Len(ordre) - 1
      /\ \A j \in 1 .. Len(ordre) - 1 :
            ordre'[j] = IF j < r THEN ordre[j] ELSE ordre[j + 1]
  BY <1>2, <1>3, ListFacts, RemoveFacts
<1>6. Linked' = Linked \ {e}
  <2>1. /\ DOMAIN ordre' = 1 .. Len(ordre) - 1 /\ Len(ordre) \in Nat
        /\ DOMAIN ordre = 1 .. Len(ordre)
    BY <1>5, LenProperties, ListFacts
  <2>2. \A k \in 1 .. Len(ordre) : ordre[k] = e => k = r
    BY <1>2 DEF Distinct
  <2>3. ASSUME NEW x \in Linked' PROVE x \in Linked \ {e}
    <3>1. PICK j \in 1 .. Len(ordre) - 1 : ordre'[j] = x
      BY <2>1, <2>3 DEF Linked, ToSet
    <3>2. CASE j < r
      <4>1. j \in 1 .. Len(ordre) /\ ordre[j] = x /\ j # r
        BY <1>2, <1>5, <2>1, <3>1, <3>2
      <4> QED BY <2>2, <4>1, ListFacts DEF Linked
    <3>3. CASE ~(j < r)
      <4>1. j + 1 \in 1 .. Len(ordre) /\ ordre[j + 1] = x /\ j + 1 # r
        BY <1>2, <1>5, <2>1, <3>1, <3>3
      <4> QED BY <2>2, <4>1, ListFacts DEF Linked
    <3> QED BY <3>2, <3>3
  <2>4. ASSUME NEW x \in Linked, x # e PROVE x \in Linked'
    <3>1. PICK j \in 1 .. Len(ordre) : ordre[j] = x
      BY ListFacts DEF Linked
    <3>2. j # r
      BY <1>2, <2>4, <3>1
    <3>3. CASE j < r
      <4>1. j \in 1 .. Len(ordre) - 1 /\ ordre'[j] = x
        BY <1>2, <1>5, <2>1, <3>1, <3>3
      <4> QED BY <2>1, <4>1 DEF Linked, ToSet
    <3>4. CASE j > r
      <4>1. /\ j - 1 \in 1 .. Len(ordre) - 1 /\ ~(j - 1 < r)
            /\ (j - 1) + 1 = j
        BY <1>2, <2>1, <3>4
      <4>2. ordre'[j - 1] = x
        BY <1>5, <3>1, <4>1
      <4> QED BY <2>1, <4>1, <4>2 DEF Linked, ToSet
    <3> QED BY <1>2, <2>1, <3>2, <3>3, <3>4
  <2> QED BY <2>3, <2>4
<1>7. prev[e] # NoEl => prev[e] \in Linked'
  <2>1. r # 1 => r - 1 \in 1 .. Len(ordre) - 1 /\ r - 1 < r
    BY <1>2, ListFacts
  <2>2. r # 1 => ordre'[r - 1] = prev[e]
    BY <1>4, <1>5, <2>1
  <2>3. DOMAIN ordre' = 1 .. Len(ordre) - 1
    BY <1>5, LenProperties
  <2> QED BY <1>4, <2>1, <2>2, <2>3 DEF Linked, ToSet
<1>8. ASSUME NEW x \in Elements, x \notin Linked' PROVE next'[x] = next[x]
  <2>1. x # prev[e] \/ prev[e] = NoEl
    BY <1>7, <1>8
  <2>2. \/ /\ prev[e] # NoEl /\ next' = [next EXCEPT ![prev[e]] = next[e]]
        \/ next' = IF e = last /\ prev[e] # NoEl
                     THEN [next EXCEPT ![prev[e]] = NoEl] ELSE next
    BY <1>1 DEF Unlink
  <2>3. x # NoEl
    BY ListeAssumption
  <2> QED BY <2>1, <2>2, <2>3 DEF TypeOK
<1> QED BY <1>2, <1>4, <1>5, <1>6, <1>8 DEF e

-----------------------------------------------------------------------------
(* What a step may change for the threads that do not take it.             *)

\* The location and the pointer of the others stay.
LEMMA OthersFrame ==
  ASSUME TypeOK, NEW t \in Walkers, Step(t)
  PROVE  \A s \in Walkers : s # t => pc'[s] = pc[s] /\ el'[s] = el[s] /\ i'[s] = i[s]
<1> SUFFICES ASSUME NEW s \in Walkers, s # t
             PROVE  pc'[s] = pc[s] /\ el'[s] = el[s] /\ i'[s] = i[s]
  OBVIOUS
<1>1. CASE ReadLast(t)
  BY <1>1 DEF ReadLast, Goto, TypeOK
<1>2. CASE Add(t)
  BY <1>2 DEF Add, Goto, TypeOK
<1>3. CASE WalkFirst(t)
  BY <1>3 DEF WalkFirst, Goto, TypeOK
<1>4. CASE WalkNot(t)
  BY <1>4 DEF WalkNot, Goto, TypeOK
<1>5. CASE Test(t)
  BY <1>5 DEF Test, Goto, TypeOK
<1>6. CASE Walk(t)
  BY <1>6 DEF Walk, Goto, TypeOK
<1>7. CASE RemoveEl(t)
  BY <1>7 DEF RemoveEl, Goto, TypeOK
<1>8. CASE Free(t)
  BY <1>8 DEF Free, Goto, TypeOK
<1>9. CASE GoAstray(t)
  BY <1>9 DEF GoAstray, threadVars
<1> QED BY <1>1, <1>2, <1>3, <1>4, <1>5, <1>6, <1>7, <1>8, <1>9 DEF Step

\* The steps that leave the list alone.
Look(t) == ReadLast(t) \/ WalkFirst(t) \/ WalkNot(t) \/ Test(t) \/ Walk(t) \/ GoAstray(t)

LEMMA LookFrame ==
  ASSUME NEW t \in Walkers, Look(t)
  PROVE  UNCHANGED <<first, last, next, prev, count, data, mem, ordre>>
BY DEF Look, ReadLast, WalkFirst, WalkNot, Test, Walk, GoAstray, links, history

-----------------------------------------------------------------------------
(* Readers and what belongs to them.                                       *)

LEMMA ApartInit == Init => Apart
<1> SUFFICES ASSUME Init PROVE Apart
  OBVIOUS
<1>1. \A e \in ToSet(Debut) : Owner[e] \in Threads
  BY ListeAssumption
<1>2. \A r \in Readers : r \in Walkers /\ r \notin Threads
  BY ListeAssumption DEF Walkers
<1>3. \A r \in Readers : pc[r] = "out"
  BY <1>1, <1>2 DEF Init
<1>4. \A e \in Elements : InDebut(e) => e \in ToSet(Debut)
  BY ListeAssumption, LenProperties DEF InDebut, ToSet
<1>5. \A e \in Elements : data[e] \in Threads \cup {NoEl}
  BY <1>1, <1>4 DEF Init
<1> QED BY <1>2, <1>3, <1>5, ListeAssumption DEF Apart, Walkers

LEMMA ApartStep ==
  ASSUME TypeOK, Apart, NEW t \in Walkers, Step(t)
  PROVE  Apart'
<1>1. \A r \in Readers : r \in Walkers /\ r \notin Threads
  BY ListeAssumption DEF Walkers
<1>2. t \in Readers => /\ pc[t] \in {"out", "test", "walk", "listed"}
                       /\ \A e \in Elements : data[e] # t
  BY DEF Apart
<1>3. t \in Readers => pc'[t] \in {"out", "test", "walk", "listed"}
  <2> SUFFICES ASSUME t \in Readers
               PROVE  pc'[t] \in {"out", "test", "walk", "listed"}
    OBVIOUS
  <2>1. CASE ReadLast(t)
    BY <1>1, <2>1 DEF ReadLast
  <2>2. CASE Add(t) \/ RemoveEl(t) \/ Free(t)
    BY <1>2, <2>2 DEF Add, RemoveEl, Free
  <2>3. CASE WalkFirst(t)
    BY <2>3 DEF WalkFirst, Goto, TypeOK
  <2>4. CASE WalkNot(t)
    BY <1>2, <2>4 DEF WalkNot
  <2>5. CASE Test(t)
    BY <2>5 DEF Test, Goto, TypeOK
  <2>6. CASE Walk(t)
    <3>1. el[t] \in Elements
      BY <2>6 DEF Walk, Live
    <3> QED BY <1>2, <2>6, <3>1 DEF Walk, Goto, TypeOK
  <2>7. CASE GoAstray(t)
    BY <1>2, <2>7 DEF GoAstray, threadVars
  <2> QED BY <2>1, <2>2, <2>3, <2>4, <2>5, <2>6, <2>7 DEF Step
<1>4. \A e \in Elements : data'[e] \notin Readers
  <2>1. CASE Add(t)
    <3>1. t \notin Readers
      BY <1>2, <2>1 DEF Add
    <3> QED BY <2>1, <3>1 DEF Add, Apart, TypeOK
  <2>2. CASE ~Add(t)
    <3>1. data' = data
      BY <2>2 DEF Step, ReadLast, WalkFirst, WalkNot, Test, Walk, RemoveEl, Free, GoAstray
    <3> QED BY <3>1 DEF Apart
  <2> QED BY <2>1, <2>2
<1> QED BY <1>1, <1>3, <1>4, OthersFrame DEF Apart

-----------------------------------------------------------------------------
(* The element of a thread.                                                *)

\* What OneOwn says of a thread.
Own(t) ==
    /\ pc[t] \in {"in", "test", "walk", "remove"} => \E e \in Linked : data[e] = t
    /\ pc[t] \in {"out", "add", "free"} => \A e \in Linked : data[e] # t
    /\ \A e, f \in Linked : data[e] = t /\ data[f] = t => e = f
    /\ \A e \in Elements \ Linked :
          mem[e] = "live" /\ data[e] = t => pc[t] = "free" /\ el[t] = e
    /\ pc[t] = "test" => t \in Counted
    /\ pc[t] = "remove" /\ t \notin Counted => el[t] \in Linked /\ data[el[t]] = t

LEMMA OwnInit == Init => OneOwn
<1> SUFFICES ASSUME Init, NEW t \in Threads PROVE Own(t)
  BY DEF OneOwn, Own
<1>1. t \in Walkers
  BY DEF Walkers
<1>2. /\ Linked = ToSet(Debut) /\ Linked \subseteq Elements
      /\ \A e \in Elements : InDebut(e) <=> e \in Linked
  <2>1. Debut \in Seq(Elements) /\ DOMAIN Debut = 1 .. Len(Debut)
    BY ListeAssumption, LenProperties
  <2>2. \A k \in 1 .. Len(Debut) : Debut[k] \in Elements
    BY <2>1, ElementOfSeq
  <2> QED BY <2>1, <2>2 DEF Init, Linked, InDebut, ToSet
<1>3. \A e \in Linked : data[e] = Owner[e]
  BY <1>2 DEF Init
<1>4. \A e \in Elements \ Linked : mem[e] = "none"
  BY <1>2 DEF Init
<1>5. pc[t] = IF \E e \in Linked : Owner[e] = t THEN "in" ELSE "out"
  BY <1>1, <1>2 DEF Init
<1>6. \A e, f \in Linked : Owner[e] = Owner[f] => e = f
  BY <1>2, ListeAssumption
<1>7. CASE \E e \in Linked : Owner[e] = t
  <2>1. pc[t] = "in"
    BY <1>5, <1>7
  <2> QED BY <1>3, <1>4, <1>6, <1>7, <2>1 DEF Own
<1>8. CASE ~ \E e \in Linked : Owner[e] = t
  <2>1. pc[t] = "out"
    BY <1>5, <1>8
  <2> QED BY <1>3, <1>4, <1>6, <1>8, <2>1 DEF Own
<1> QED BY <1>7, <1>8

\* The steps of a search keep its element, and one that follows the pointers
\* ends at it.
LEMMA OwnLook ==
  ASSUME IInv, OneOwn, NEW t \in Threads, Look(t)
  PROVE  Own(t)'
<1>1. UNCHANGED <<data, mem, ordre>> /\ Linked' = Linked
  BY LookFrame DEF Linked, Walkers
<1>2. Own(t)
  BY DEF OneOwn, Own
<1>3. /\ t \in Walkers /\ t \notin Readers /\ TypeOK
  BY ListeAssumption DEF Walkers, IInv
<1>4. CASE ReadLast(t)
  <2>1. pc[t] = "out" /\ pc'[t] = "add"
    BY <1>3, <1>4 DEF ReadLast, Goto, TypeOK
  <2> QED BY <1>1, <1>2, <2>1 DEF Own
<1>5. CASE WalkFirst(t)
  <2>1. pc[t] = "in" /\ pc'[t] = IF t \in Counted THEN "test" ELSE "walk"
    BY <1>3, <1>5 DEF WalkFirst, Goto, TypeOK
  <2> QED BY <1>1, <1>2, <2>1 DEF Own
<1>6. CASE WalkNot(t)
  <2>1. pc[t] = "in" /\ pc'[t] = "remove" /\ t \in Counted
    BY <1>3, <1>6 DEF WalkNot, Goto, TypeOK
  <2> QED BY <1>1, <1>2, <2>1 DEF Own
<1>7. CASE Test(t)
  <2>1. pc[t] = "test" /\ pc'[t] \in {"walk", "remove"} /\ t \in Counted
    BY <1>2, <1>3, <1>7 DEF Test, Goto, TypeOK, Own
  <2> QED BY <1>1, <1>2, <2>1 DEF Own
<1>8. CASE Walk(t)
  <2>1. /\ pc[t] = "walk" /\ el[t] \in Elements /\ mem[el[t]] = "live"
    BY <1>8 DEF Walk, Live
  <2>2. CASE data[el[t]] = t
    <3>1. pc'[t] = "remove" /\ el' = el
      BY <1>3, <1>8, <2>2 DEF Walk, Goto, TypeOK
    <3>2. el[t] \in Linked
      BY <1>2, <2>1, <2>2 DEF Own
    <3> QED BY <1>1, <1>2, <2>1, <2>2, <3>1, <3>2 DEF Own
  <2>3. CASE data[el[t]] # t
    <3>1. pc'[t] = IF t \in Counted THEN "test" ELSE "walk"
      BY <1>3, <1>8, <2>3 DEF Walk, Goto, TypeOK
    <3> QED BY <1>1, <1>2, <2>1, <3>1 DEF Own
  <2> QED BY <2>2, <2>3
<1>9. CASE GoAstray(t)
  BY <1>1, <1>2, <1>9 DEF GoAstray, threadVars, Own
<1> QED BY <1>4, <1>5, <1>6, <1>7, <1>8, <1>9 DEF Look

\* Who removes an element removes its own.
LEMMA RemovesOwn ==
  ASSUME IInv, Apart, OneOwn, CountedFinds, NEW t \in Walkers, RemoveEl(t)
  PROVE  t \in Threads /\ el[t] \in Linked /\ data[el[t]] = t /\ el[t] # NoEl
<1>1. pc[t] = "remove" /\ el[t] \in ToSet(ordre) \cup {NoEl}
  BY DEF RemoveEl
<1>2. t \in Threads
  BY <1>1 DEF Apart, Walkers
<1>3. el[t] \in Linked /\ data[el[t]] = t
  BY <1>1, <1>2 DEF OneOwn, CountedFinds, Linked
<1> QED BY <1>2, <1>3, ListFacts DEF Linked, IInv

LEMMA OwnStep ==
  ASSUME IInv, Apart, OneOwn, CountedFinds, NEW t \in Walkers, Step(t)
  PROVE  OneOwn'
<1> SUFFICES ASSUME NEW s \in Threads PROVE Own(s)'
  BY DEF OneOwn, Own
<1>1. /\ s \in Walkers /\ TypeOK /\ Linked \subseteq Elements
      /\ \A e \in Linked : mem[e] = "live"
  BY ListFacts DEF Walkers, IInv, Linked, InUse
<1>2. Own(s)
  BY DEF OneOwn, Own
<1>3. s # t => pc'[s] = pc[s] /\ el'[s] = el[s]
  BY <1>1, OthersFrame
<1>4. CASE Look(t)
  <2>1. UNCHANGED <<data, mem, ordre>> /\ Linked' = Linked
    BY <1>4, LookFrame DEF Linked
  <2>2. CASE s = t
    BY <1>4, <2>2, OwnLook
  <2>3. CASE s # t
    BY <1>2, <1>3, <2>1, <2>3 DEF Own
  <2> QED BY <2>2, <2>3
<1>5. CASE Add(t)
  <2>1. PICK e \in Elements :
          /\ mem[e] = "none" /\ e \notin Linked
          /\ mem' = [mem EXCEPT ![e] = "live"] /\ data' = [data EXCEPT ![e] = t]
          /\ Linked' = Linked \cup {e}
    BY <1>5, AddStep
  <2>2. /\ mem'[e] = "live" /\ data'[e] = t
        /\ \A x \in Elements : x # e => mem'[x] = mem[x] /\ data'[x] = data[x]
    BY <1>1, <2>1 DEF TypeOK
  <2>3. pc[t] = "add" /\ pc'[t] = "in"
    BY <1>1, <1>5 DEF Add, Goto, TypeOK
  <2>4. CASE s = t
    BY <1>1, <1>2, <2>1, <2>2, <2>3, <2>4 DEF Own
  <2>5. CASE s # t
    <3>1. \A x \in Linked : data'[x] = data[x] /\ x \in Linked'
      BY <1>1, <2>1, <2>2
    <3>2. \A x \in Linked' : data'[x] = s => x \in Linked /\ data[x] = s
      BY <1>1, <2>1, <2>2, <2>5
    <3>3. \A x \in Elements \ Linked' : /\ x \in Elements \ Linked
                                         /\ mem'[x] = mem[x] /\ data'[x] = data[x]
      BY <2>1, <2>2
    <3>4. ~(el'[s] \in Linked /\ data[el'[s]] = s) \/ data'[el'[s]] = s
      BY <3>1
    <3> QED BY <1>2, <1>3, <2>5, <3>1, <3>2, <3>3, <3>4 DEF Own
  <2> QED BY <2>4, <2>5
<1>6. CASE RemoveEl(t)
  <2>1. t \in Threads /\ el[t] \in Linked /\ data[el[t]] = t /\ el[t] # NoEl
    BY <1>6, RemovesOwn
  <2>2. Linked' = Linked \ {el[t]}
    BY <1>6, <2>1, RemoveStep
  <2>3. UNCHANGED <<el, data, mem>> /\ pc'[t] = "free"
    BY <1>1, <1>6, <2>1 DEF RemoveEl, Goto, TypeOK
  <2>4. CASE s = t
    BY <1>2, <2>1, <2>2, <2>3, <2>4 DEF Own
  <2>5. CASE s # t
    <3>1. \A x \in Linked : data[x] = s => x \in Linked'
      BY <2>1, <2>2, <2>5
    <3>2. Linked' \subseteq Linked
      BY <2>2
    <3>3. \A x \in Elements \ Linked' : data[x] = s => x \in Elements \ Linked
      BY <2>1, <2>2, <2>5
    <3> QED BY <1>2, <1>3, <2>3, <2>5, <3>1, <3>2, <3>3 DEF Own
  <2> QED BY <2>4, <2>5
<1>7. CASE Free(t)
  <2>1. /\ pc[t] = "free" /\ mem' = [mem EXCEPT ![el[t]] = "freed"]
        /\ data' = data /\ ordre' = ordre /\ Linked' = Linked
    BY <1>7 DEF Free, links, history, Linked
  <2>2. el[t] \in Elements /\ pc'[t] = "out" /\ el[t] \notin Linked
    <3>1. pc' = [pc EXCEPT ![t] = "out"]
      BY <1>7 DEF Free, Goto
    <3>2. el[t] \in Elements /\ \A k \in 1 .. Len(ordre) : ordre[k] # el[t]
      BY <2>1 DEF IInv, FreeOK
    <3> QED BY <1>1, <3>1, <3>2, ListFacts DEF TypeOK, Linked
  <2>3. /\ mem'[el[t]] = "freed"
        /\ \A x \in Elements : mem'[x] = "live" => mem[x] = "live" /\ x # el[t]
    BY <1>1, <2>1, <2>2 DEF TypeOK
  <2>4. CASE s = t
    BY <1>2, <2>1, <2>2, <2>3, <2>4 DEF Own
  <2>5. CASE s # t
    BY <1>2, <1>3, <2>1, <2>3, <2>5 DEF Own
  <2> QED BY <2>4, <2>5
<1> QED BY <1>4, <1>5, <1>6, <1>7 DEF Step, Look

-----------------------------------------------------------------------------
(* The way of a search that follows the pointers.                          *)

\* What the others do leaves a thread a track.  When an element of it is
\* removed, the one behind it joins the track, since what the thread looks for
\* is further behind.
LEMMA TrackAdd ==
  ASSUME IInv, NEW t \in Walkers, NEW s \in Threads, s # t, Add(t),
         NEW S \in SUBSET Elements, Track(s, S)
  PROVE  Track(s, S)'
<1>1. PICK e \in Elements, k \in 1 .. Len(ordre) + 1 :
        /\ mem[e] = "none" /\ e \notin Linked
        /\ mem' = [mem EXCEPT ![e] = "live"]
        /\ data' = [data EXCEPT ![e] = t]
        /\ Len(ordre') = Len(ordre) + 1
        /\ \A j \in 1 .. Len(ordre) + 1 :
              ordre'[j] = IF j < k THEN ordre[j]
                          ELSE IF j = k THEN e ELSE ordre[j - 1]
        /\ Linked' = Linked \cup {e}
        /\ \A x \in Elements : x \notin Linked /\ x # e => next'[x] = next[x]
  BY AddStep
<1>2. /\ TypeOK /\ Len(ordre) \in Nat
      /\ \A j \in 1 .. Len(ordre) : ordre[j] \in Elements
  BY ListFacts DEF IInv
<1>3. /\ \A x \in Elements : x # e => mem'[x] = mem[x] /\ data'[x] = data[x]
      /\ mem'[e] = "live" /\ data'[e] = t
  BY <1>1, <1>2 DEF TypeOK
<1>4. e \notin S
  BY <1>1 DEF Track
<1>5. ASSUME NEW x \in S PROVE mem'[x] # "none" /\ (x \notin Linked' => next'[x] \in S)
  BY <1>1, <1>3, <1>4 DEF Track
<1>6. ASSUME NEW j \in 1 .. Len(ordre'), NEW l \in 1 .. Len(ordre'),
             ordre'[j] \in S, data'[ordre'[l]] = s
      PROVE  j <= l
  <2>1. j \in 1 .. Len(ordre) + 1 /\ l \in 1 .. Len(ordre) + 1 /\ k \in Int
    BY <1>1
  <2>2. j # k /\ l # k
    <3>1. ordre'[k] = e
      BY <1>1, <1>2
    <3> QED BY <1>3, <1>4, <1>6, <3>1
  <2>3. PICK m \in 1 .. Len(ordre) : m = (IF j < k THEN j ELSE j - 1) /\ ordre'[j] = ordre[m]
    <3>1. CASE j < k
      BY <1>1, <1>2, <2>1, <3>1
    <3>2. CASE ~(j < k)
      <4>1. j - 1 \in 1 .. Len(ordre)
        BY <1>2, <2>1, <2>2, <3>2
      <4> QED BY <1>1, <2>1, <2>2, <3>2, <4>1
    <3> QED BY <3>1, <3>2
  <2>4. PICK n \in 1 .. Len(ordre) : n = (IF l < k THEN l ELSE l - 1) /\ ordre'[l] = ordre[n]
    <3>1. CASE l < k
      BY <1>1, <1>2, <2>1, <3>1
    <3>2. CASE ~(l < k)
      <4>1. l - 1 \in 1 .. Len(ordre)
        BY <1>2, <2>1, <2>2, <3>2
      <4> QED BY <1>1, <2>1, <2>2, <3>2, <4>1
    <3> QED BY <3>1, <3>2
  <2>5. ordre[m] \in S /\ data[ordre[n]] = s
    <3>1. ordre[n] # e
      BY <1>3, <1>6, <2>4
    <3> QED BY <1>2, <1>3, <1>6, <2>3, <2>4, <3>1
  <2>6. m <= n
    BY <2>5 DEF Track
  <2> QED BY <1>2, <2>1, <2>2, <2>3, <2>4, <2>6
<1> QED BY <1>5, <1>6 DEF Track

LEMMA TrackRemove ==
  ASSUME IInv, NEW t \in Walkers, NEW s \in Threads, RemoveEl(t),
         el[t] # NoEl, data[el[t]] # s, \E e \in Linked : data[e] = s,
         NEW S \in SUBSET Elements, Track(s, S)
  PROVE  \E U \in SUBSET Elements : S \subseteq U /\ Track(s, U)'
<1> DEFINE e == el[t]
           U == IF e \in S THEN S \cup {next[e]} ELSE S
<1>1. PICK r \in 1 .. Len(ordre) :
        /\ ordre[r] = e /\ e \in Elements
        /\ next[e] = IF r = Len(ordre) THEN NoEl ELSE ordre[r + 1]
        /\ Len(ordre') = Len(ordre) - 1
        /\ \A j \in 1 .. Len(ordre) - 1 :
              ordre'[j] = IF j < r THEN ordre[j] ELSE ordre[j + 1]
        /\ Linked' = Linked \ {e}
        /\ \A x \in Elements : x \notin Linked' => next'[x] = next[x]
  BY RemoveStep
<1>2. /\ TypeOK /\ Len(ordre) \in Nat
      /\ \A j \in 1 .. Len(ordre) : ordre[j] \in Elements /\ ordre[j] \in Linked
      /\ \A x \in Linked : \E j \in 1 .. Len(ordre) : ordre[j] = x
      /\ Distinct
  BY ListFacts DEF IInv, Linked
<1>3. mem' = mem /\ data' = data
  BY DEF RemoveEl
<1>4. PICK o \in 1 .. Len(ordre) : data[ordre[o]] = s
  BY <1>2
<1>5. e \in S => r + 1 \in 1 .. Len(ordre) /\ next[e] = ordre[r + 1]
  <2> SUFFICES ASSUME e \in S
               PROVE  r + 1 \in 1 .. Len(ordre) /\ next[e] = ordre[r + 1]
    OBVIOUS
  <2>1. r <= o /\ r # o
    BY <1>1, <1>4 DEF Track
  <2>2. r + 1 \in 1 .. Len(ordre) /\ r # Len(ordre)
    BY <1>2, <2>1
  <2> QED BY <1>1, <2>2
<1>6. U \in SUBSET Elements /\ S \subseteq U
  BY <1>2, <1>5
<1>7. \A x \in U : mem'[x] # "none" /\ (x \notin Linked' => next'[x] \in U)
  <2>1. ASSUME NEW x \in S PROVE mem'[x] # "none" /\ (x \notin Linked' => next'[x] \in U)
    <3>1. mem'[x] # "none"
      BY <1>3 DEF Track
    <3>2. ASSUME x \notin Linked' PROVE next'[x] \in U
      <4>1. next'[x] = next[x]
        BY <1>1, <3>2
      <4>2. CASE x = e
        BY <4>1, <4>2
      <4>3. CASE x # e
        <5>1. x \notin Linked
          BY <1>1, <3>2, <4>3
        <5> QED BY <4>1, <5>1 DEF Track
      <4> QED BY <4>2, <4>3
    <3> QED BY <3>1, <3>2
  <2>2. ASSUME e \in S PROVE mem'[next[e]] # "none" /\ next[e] \in Linked'
    <3>1. next[e] = ordre[r + 1] /\ r + 1 \in 1 .. Len(ordre) /\ r + 1 # r
      BY <1>5, <2>2
    <3>2. next[e] # e
      BY <1>1, <1>2, <3>1 DEF Distinct
    <3>3. mem[next[e]] = "live"
      BY <3>1 DEF IInv, InUse
    <3> QED BY <1>1, <1>2, <1>3, <3>1, <3>2, <3>3
  <2> QED BY <2>1, <2>2
<1>8. ASSUME NEW j \in 1 .. Len(ordre'), NEW l \in 1 .. Len(ordre'),
             ordre'[j] \in U, data'[ordre'[l]] = s
      PROVE  j <= l
  <2>1. j \in 1 .. Len(ordre) - 1 /\ l \in 1 .. Len(ordre) - 1 /\ r \in Int
    BY <1>1, <1>2
  <2>0. \A h \in 1 .. Len(ordre) - 1 :
           /\ h \in 1 .. Len(ordre) /\ h + 1 \in 1 .. Len(ordre)
           /\ ordre'[h] = IF h < r THEN ordre[h] ELSE ordre[h + 1]
    BY <1>1, <1>2
  <2>2. PICK m \in 1 .. Len(ordre) : m = (IF j < r THEN j ELSE j + 1) /\ ordre'[j] = ordre[m]
    BY <2>0, <2>1
  <2>3. PICK n \in 1 .. Len(ordre) : n = (IF l < r THEN l ELSE l + 1) /\ ordre'[l] = ordre[n]
    BY <2>0, <2>1
  <2>4. data[ordre[n]] = s
    BY <1>3, <1>8, <2>3
  <2>5. CASE ordre'[j] \in S
    <3>1. m <= n
      BY <2>2, <2>4, <2>5 DEF Track
    <3> QED BY <1>2, <2>1, <2>2, <2>3, <3>1
  <2>6. CASE ordre'[j] \notin S
    <3>1. e \in S /\ ordre[m] = ordre[r + 1] /\ r + 1 \in 1 .. Len(ordre)
      BY <1>5, <1>8, <2>2, <2>6
    <3>2. m = r + 1
      BY <1>2, <3>1 DEF Distinct
    <3>3. r <= n
      BY <1>1, <2>4, <3>1 DEF Track
    <3>4. n # r
      BY <1>1, <2>4
    <3> QED BY <1>2, <2>1, <2>2, <2>3, <3>2, <3>3, <3>4
  <2> QED BY <2>5, <2>6
<1> HIDE DEF U
<1>9. PICK W \in SUBSET Elements : W = U
  BY <1>6
<1>10. Track(s, W)'
  BY <1>7, <1>8, <1>9 DEF Track
<1> QED BY <1>6, <1>9, <1>10

\* The thread itself goes along its track.
LEMMA TrackWalk ==
  ASSUME IInv, OneOwn, NEW s \in Threads \ Counted, Walk(s), data[el[s]] # s,
         NEW S \in SUBSET Elements, el[s] \in S, Track(s, S)
  PROVE  \E U \in SUBSET Elements : el'[s] \in U /\ Track(s, U)'
<1> DEFINE e == el[s]
<1>1. /\ pc[s] = "walk" /\ e \in Elements /\ el' = [el EXCEPT ![s] = next[e]]
      /\ UNCHANGED <<data, mem, next, ordre>> /\ Linked' = Linked
  BY DEF Walk, Live, links, Linked
<1>2. /\ TypeOK /\ Len(ordre) \in Nat /\ s \in Walkers
      /\ \A j \in 1 .. Len(ordre) : ordre[j] \in Elements /\ ordre[j] \in Linked
      /\ \A x \in Linked : \E j \in 1 .. Len(ordre) : ordre[j] = x
      /\ Distinct /\ InUse /\ WellLinked
  BY ListFacts DEF IInv, Linked, Walkers
<1>3. el'[s] = next[e]
  BY <1>1, <1>2 DEF TypeOK
<1>4. CASE e \notin Linked
  <2>1. next[e] \in S
    BY <1>4 DEF Track
  <2>2. Track(s, S)'
    BY <1>1 DEF Track
  <2> QED BY <1>3, <2>1, <2>2
<1>5. CASE e \in Linked
  <2>1. PICK r \in 1 .. Len(ordre) : ordre[r] = e
    BY <1>2, <1>5
  <2>2. PICK o \in 1 .. Len(ordre) : data[ordre[o]] = s
    BY <1>1, <1>2 DEF OneOwn
  <2>3. /\ r + 1 \in 1 .. Len(ordre) /\ r # Len(ordre)
    <3>1. r <= o /\ r # o
      BY <2>1, <2>2 DEF Track
    <3> QED BY <1>2, <3>1
  <2>4. next[e] = ordre[r + 1] /\ mem[next[e]] = "live" /\ next[e] \in Linked
    BY <1>2, <2>1, <2>3 DEF WellLinked, InUse
  <2>5. PICK U \in SUBSET Elements : U = S \cup {next[e]}
    BY <1>2, <2>3, <2>4
  <2>6. \A x \in U : mem'[x] # "none" /\ (x \notin Linked' => next'[x] \in U)
    BY <1>1, <2>4, <2>5 DEF Track
  <2>7. ASSUME NEW j \in 1 .. Len(ordre), NEW l \in 1 .. Len(ordre),
               ordre[j] \in U, data[ordre[l]] = s
        PROVE  j <= l
    <3>1. CASE ordre[j] \in S
      BY <2>7, <3>1 DEF Track
    <3>2. CASE ordre[j] = next[e]
      <4>1. j = r + 1
        BY <1>2, <2>3, <2>4, <3>2 DEF Distinct
      <4>2. r <= l /\ r # l
        BY <2>1, <2>7 DEF Track
      <4> QED BY <4>1, <4>2
    <3> QED BY <2>5, <2>7, <3>1, <3>2
  <2>8. Track(s, U)'
    BY <1>1, <2>6, <2>7 DEF Track
  <2> QED BY <1>3, <2>5, <2>8
<1> QED BY <1>4, <1>5

\* It begins with the first element of the list.
LEMMA TrackFirst ==
  ASSUME IInv, OneOwn, NEW s \in Threads \ Counted, WalkFirst(s)
  PROVE  \E U \in SUBSET Elements : el'[s] \in U /\ Track(s, U)'
<1>1. /\ s \in Walkers /\ s \notin Readers /\ TypeOK /\ Len(ordre) \in Nat
      /\ \A j \in 1 .. Len(ordre) : ordre[j] \in Elements /\ ordre[j] \in Linked
      /\ \A x \in Linked : \E j \in 1 .. Len(ordre) : ordre[j] = x
      /\ Distinct /\ InUse /\ WellLinked
  BY ListFacts, ListeAssumption DEF IInv, Linked, Walkers
<1>2. /\ pc[s] = "in" /\ el' = [el EXCEPT ![s] = first]
      /\ UNCHANGED <<data, mem, next, ordre>> /\ Linked' = Linked
  BY <1>1 DEF WalkFirst, links, Linked
<1>3. \E e \in Linked : data[e] = s
  BY <1>2 DEF OneOwn
<1>4. 1 \in 1 .. Len(ordre)
  BY <1>1, <1>3
<1>5. first = ordre[1]
  BY <1>1, <1>4, EmptySeq DEF WellLinked
<1>6. el'[s] = first /\ first \in Linked /\ mem[first] = "live" /\ first \in Elements
  BY <1>1, <1>2, <1>4, <1>5 DEF TypeOK, InUse
<1>7. PICK U \in SUBSET Elements : U = {first}
  BY <1>6
<1>8. \A j, l \in 1 .. Len(ordre) : ordre[j] \in U => j <= l
  BY <1>1, <1>4, <1>5, <1>7 DEF Distinct
<1>9. Track(s, U)'
  BY <1>2, <1>6, <1>7, <1>8 DEF Track
<1> QED BY <1>6, <1>7, <1>9

LEMMA OnTrackStep ==
  ASSUME SInv, CountedFinds, NEW t \in Walkers, Step(t)
  PROVE  OnTrack'
<1> SUFFICES ASSUME NEW s \in Threads \ Counted, pc'[s] = "walk"
             PROVE  \E U \in SUBSET Elements : el'[s] \in U /\ Track(s, U)'
  BY DEF OnTrack
<1>1. IInv /\ TypeOK /\ Apart /\ OneOwn /\ s \in Walkers
  BY DEF SInv, IInv, Walkers
<1>2. CASE s # t
  <2>1. pc[s] = "walk" /\ el'[s] = el[s]
    BY <1>1, <1>2, OthersFrame
  <2>2. PICK S \in SUBSET Elements : el[s] \in S /\ Track(s, S)
    BY <2>1 DEF SInv, OnTrack
  <2>3. CASE Look(t)
    <3>1. UNCHANGED <<data, mem, next, ordre>> /\ Linked' = Linked
      BY <2>3, LookFrame DEF Linked
    <3>2. Track(s, S)'
      BY <2>2, <3>1 DEF Track
    <3> QED BY <2>1, <2>2, <3>2
  <2>4. CASE Add(t)
    BY <1>1, <1>2, <2>1, <2>2, <2>4, TrackAdd
  <2>5. CASE RemoveEl(t)
    <3>1. el[t] # NoEl /\ data[el[t]] = t
      BY <1>1, <2>5, RemovesOwn
    <3>2. \E e \in Linked : data[e] = s
      BY <1>1, <2>1 DEF OneOwn
    <3> QED BY <1>1, <1>2, <2>1, <2>2, <2>5, <3>1, <3>2, TrackRemove
  <2>6. CASE Free(t)
    <3>1. /\ UNCHANGED <<data, next, ordre>> /\ Linked' = Linked
          /\ mem' = [mem EXCEPT ![el[t]] = "freed"]
      BY <2>6 DEF Free, links, history, Linked
    <3>2. \A x \in Elements : mem[x] # "none" => mem'[x] # "none"
      BY <1>1, <3>1 DEF TypeOK
    <3>3. Track(s, S)'
      BY <2>2, <3>1, <3>2 DEF Track
    <3> QED BY <2>1, <2>2, <3>3
  <2> QED BY <2>3, <2>4, <2>5, <2>6 DEF Step, Look
<1>3. CASE s = t
  <2>1. CASE WalkFirst(t)
    BY <1>1, <1>3, <2>1, TrackFirst
  <2>2. CASE Walk(t)
    <3>1. pc[s] = "walk"
      BY <1>3, <2>2 DEF Walk
    <3>2. data[el[s]] # s
      BY <1>1, <1>3, <2>2 DEF Walk, Goto, TypeOK
    <3> QED BY <1>1, <1>3, <2>2, <3>1, <3>2, TrackWalk DEF SInv, OnTrack
  <2>3. CASE GoAstray(t)
    <3>1. UNCHANGED <<pc, el, data, mem, next, ordre>> /\ Linked' = Linked
      BY <2>3 DEF GoAstray, threadVars, links, history, Linked
    <3>2. PICK S \in SUBSET Elements : el[s] \in S /\ Track(s, S)
      BY <3>1 DEF SInv, OnTrack
    <3>3. Track(s, S)'
      BY <3>1, <3>2 DEF Track
    <3> QED BY <3>1, <3>2, <3>3
  <2>4. CASE ReadLast(t) \/ Add(t) \/ WalkNot(t) \/ RemoveEl(t) \/ Free(t)
    BY <1>1, <1>3, <2>4 DEF ReadLast, Add, WalkNot, RemoveEl, Free, Goto, TypeOK
  <2>5. CASE Test(t)
    BY <1>1, <1>3, <2>5 DEF Test, Goto, TypeOK, OneOwn
  <2> QED BY <2>1, <2>2, <2>3, <2>4, <2>5 DEF Step
<1> QED BY <1>2, <1>3

-----------------------------------------------------------------------------
(* The theorems about the searches.                                        *)

LEMMA SearchInit == Init => SInv
<1> SUFFICES ASSUME Init PROVE SInv
  OBVIOUS
<1>1. \A t \in Threads \ Counted : pc[t] # "walk"
  <2>1. \A t \in Threads : t \in Walkers
    BY DEF Walkers
  <2> QED BY <2>1 DEF Init
<1> QED BY <1>1, InitInvariant, ApartInit, OwnInit DEF SInv, OnTrack

LEMMA SearchStep == SInv /\ CountedFinds /\ [Next]_vars => SInv'
<1> SUFFICES ASSUME SInv, CountedFinds, [Next]_vars PROVE SInv'
  OBVIOUS
<1>1. IInv'
  BY StepInvariant DEF SInv
<1>2. CASE UNCHANGED vars
  <2>1. UNCHANGED <<pc, el, i, data, mem, next, ordre>> /\ Linked' = Linked
    BY <1>2 DEF vars, threadVars, links, history, Linked
  <2>2. Apart' /\ OneOwn'
    BY <2>1 DEF SInv, Apart, OneOwn
  <2>3. \A t \in Threads, S \in SUBSET Elements : Track(t, S) => Track(t, S)'
    BY <2>1 DEF Track
  <2>4. OnTrack'
    BY <2>1, <2>3 DEF SInv, OnTrack
  <2> QED BY <1>1, <2>2, <2>4 DEF SInv
<1>3. CASE Next
  <2>1. PICK t \in Walkers : Step(t)
    BY <1>3 DEF Next
  <2>2. IInv /\ TypeOK /\ Apart /\ OneOwn
    BY DEF SInv, IInv
  <2> QED BY <1>1, <2>1, <2>2, ApartStep, OwnStep, OnTrackStep DEF SInv
<1> QED BY <1>2, <1>3

\* The inductive invariant of the searches, which needs that condition for those
\* that count: quit_game takes the element at which its loop has stopped.
THEOREM SearchInvariance == Spec /\ []CountedFinds => []SInv
<1> QED BY SearchInit, SearchStep, PTL DEF Spec

\* The loop of func_unreg, that follows `next' without a test for NULL, does not
\* run off the end, as long as quit_game takes nothing but its own element.
THEOREM WalkStaysInListHolds == Spec /\ []CountedFinds => []WalkStaysInList
<1>1. SInv => WalkStaysInList
  BY ListeAssumption DEF SInv, OnTrack, WalkStaysInList
<1> QED BY <1>1, SearchInvariance, PTL

\* Who has left is not in the list any more, on the same condition.
THEOREM LeftMeansGoneHolds == Spec /\ []CountedFinds => []LeftMeansGone
<1>1. SInv => LeftMeansGone
  BY DEF SInv, OneOwn, LeftMeansGone, Linked
<1> QED BY <1>1, SearchInvariance, PTL

\* The condition is met where nobody counts: in a game that has not started,
\* players leave by func_unreg alone.
THEOREM LobbySearches ==
  ASSUME Counted = {}
  PROVE  Spec => [](WalkStaysInList /\ LeftMeansGone)
<1>1. CountedFinds
  BY DEF CountedFinds
<1>2. []CountedFinds
  BY <1>1, PTL
<1> QED BY <1>2, WalkStaysInListHolds, LeftMeansGoneHolds, PTL

-----------------------------------------------------------------------------
(* What a reader has still to see.                                         *)

\* Whom a reader has still to see is in the list, not before the element the
\* reader is at, and the reader has counted fewer elements than are before it.
ToSee ==
    \A r \in Readers : manque[r] # {} =>
        /\ pc[r] \in {"test", "walk"}
        /\ \E k \in 1 .. Len(ordre) :
              /\ ordre[k] = el[r] /\ i[r] < k
              /\ \A e \in manque[r] : \E j \in k .. Len(ordre) : ordre[j] = e

\* The length of a list fits into the uint8_t that counts it.
ShortList == Len(ordre) <= 255

\* An element that is added pushes on what the reader has to see, or the
\* reader with it.
LEMMA ToSeeAdd ==
  ASSUME IInv, Apart, ToSee, NEW t \in Walkers, Add(t)
  PROVE  ToSee'
<1> SUFFICES ASSUME NEW r \in Readers, manque[r] # {}
             PROVE  /\ pc'[r] \in {"test", "walk"}
                    /\ \E k \in 1 .. Len(ordre') :
                          /\ ordre'[k] = el'[r] /\ i'[r] < k
                          /\ \A e \in manque[r] :
                                \E j \in k .. Len(ordre') : ordre'[j] = e
  BY DEF ToSee, Add
<1>1. /\ r \in Walkers /\ TypeOK /\ Len(ordre) \in Nat /\ i[r] \in Nat
  BY ListFacts DEF IInv, Walkers, TypeOK
<1>2. r # t
  BY DEF Add, Apart
<1>3. pc'[r] = pc[r] /\ el'[r] = el[r] /\ i'[r] = i[r]
  BY <1>1, <1>2, OthersFrame DEF Step
<1>4. PICK e \in Elements, q \in 1 .. Len(ordre) + 1 :
        /\ Len(ordre') = Len(ordre) + 1
        /\ \A j \in 1 .. Len(ordre) + 1 :
              ordre'[j] = IF j < q THEN ordre[j]
                          ELSE IF j = q THEN e ELSE ordre[j - 1]
  BY AddStep
<1>5. PICK k \in 1 .. Len(ordre) :
        /\ ordre[k] = el[r] /\ i[r] < k
        /\ \A x \in manque[r] : \E j \in k .. Len(ordre) : ordre[j] = x
  BY DEF ToSee
<1> DEFINE Moved(j) == IF j < q THEN j ELSE j + 1
<1>6. \A j \in 1 .. Len(ordre) : /\ Moved(j) \in 1 .. Len(ordre) + 1
                                 /\ ordre'[Moved(j)] = ordre[j]
  <2> TAKE j \in 1 .. Len(ordre)
  <2>1. CASE j < q
    BY <1>1, <1>4, <2>1
  <2>2. CASE ~(j < q)
    <3>1. /\ j + 1 \in 1 .. Len(ordre) + 1 /\ ~(j + 1 < q) /\ j + 1 # q
          /\ (j + 1) - 1 = j
      BY <1>1, <2>2
    <3> QED BY <1>4, <2>2, <3>1
  <2> QED BY <2>1, <2>2
<1>7. Moved(k) \in 1 .. Len(ordre') /\ ordre'[Moved(k)] = el[r] /\ i[r] < Moved(k)
  BY <1>1, <1>4, <1>5, <1>6
<1>8. ASSUME NEW x \in manque[r]
      PROVE  \E j \in Moved(k) .. Len(ordre') : ordre'[j] = x
  <2>1. PICK j \in k .. Len(ordre) : ordre[j] = x
    BY <1>5
  <2>2. j \in 1 .. Len(ordre) /\ Moved(k) <= Moved(j) /\ Moved(j) \in Int /\ Moved(k) \in Int
    BY <1>1, <2>1
  <2>3. Moved(j) \in Moved(k) .. Len(ordre') /\ ordre'[Moved(j)] = x
    BY <1>1, <1>4, <1>6, <2>1, <2>2
  <2> QED BY <2>3
<1> HIDE DEF Moved
<1> QED BY <1>3, <1>7, <1>8 DEF ToSee

\* The reader's own steps.
LEMMA ToSeeWalk ==
  ASSUME IInv, Apart, ToSee, NEW r \in Readers, Walk(r), manque'[r] # {}
  PROVE  /\ pc'[r] \in {"test", "walk"}
         /\ \E k \in 1 .. Len(ordre) :
               /\ ordre[k] = el'[r] /\ i'[r] < k
               /\ \A e \in manque'[r] : \E j \in k .. Len(ordre) : ordre[j] = e
<1>1. /\ r \in Walkers /\ TypeOK /\ Len(ordre) \in Nat /\ i[r] \in Nat
  BY ListFacts DEF IInv, Walkers, TypeOK
<1>2. pc[r] = "walk" /\ el[r] \in Elements /\ data[el[r]] # r
  BY DEF Walk, Live, Apart
<1>3. /\ el' = [el EXCEPT ![r] = next[el[r]]] /\ i' = [i EXCEPT ![r] = i[r] + 1]
      /\ manque' = [manque EXCEPT ![r] = manque[r] \ {el[r]}]
      /\ pc' = [pc EXCEPT ![r] = "test"]
  BY <1>2 DEF Walk, Goto
<1>4. /\ el'[r] = next[el[r]] /\ i'[r] = i[r] + 1
      /\ manque'[r] = manque[r] \ {el[r]} /\ pc'[r] = "test"
  BY <1>1, <1>3 DEF TypeOK
<1>5. PICK k \in 1 .. Len(ordre) :
        /\ ordre[k] = el[r] /\ i[r] < k
        /\ \A x \in manque[r] : \E j \in k .. Len(ordre) : ordre[j] = x
  BY <1>4 DEF ToSee
<1>6. \A x \in manque'[r] : \E j \in k + 1 .. Len(ordre) : ordre[j] = x
  <2> TAKE x \in manque'[r]
  <2>1. x \in manque[r] /\ x # el[r]
    BY <1>4
  <2>2. PICK j \in k .. Len(ordre) : ordre[j] = x
    BY <1>5, <2>1
  <2>3. j # k
    BY <1>5, <2>1, <2>2
  <2>4. j \in k + 1 .. Len(ordre)
    BY <1>1, <2>2, <2>3
  <2> QED BY <2>2, <2>4
<1>7. k + 1 \in 1 .. Len(ordre) /\ k # Len(ordre)
  <2>1. PICK x \in manque'[r] : TRUE
    OBVIOUS
  <2>2. PICK j \in k + 1 .. Len(ordre) : ordre[j] = x
    BY <1>6
  <2> QED BY <1>1, <2>2
<1>8. ordre[k + 1] = next[el[r]]
  BY <1>5, <1>7 DEF IInv, WellLinked
<1>9. i[r] + 1 < k + 1
  BY <1>1, <1>5
<1>10. /\ ordre[k + 1] = el'[r] /\ i'[r] < k + 1 /\ pc'[r] \in {"test", "walk"}
  BY <1>4, <1>8, <1>9
<1> QED BY <1>6, <1>7, <1>10

LEMMA ToSeeTest ==
  ASSUME IInv, ShortList, ToSee, NEW r \in Readers, Test(r), manque[r] # {}
  PROVE  pc'[r] = "walk"
<1>1. /\ r \in Walkers /\ TypeOK /\ Len(ordre) \in Nat /\ i[r] \in Nat
  BY ListFacts DEF IInv, Walkers, TypeOK
<1>2. count = Len(ordre)
  <2>1. count = uint8(Len(ordre))
    BY DEF IInv, WellLinked
  <2> QED BY <1>1, <2>1 DEF ShortList, uint8
<1>3. PICK k \in 1 .. Len(ordre) : i[r] < k
  BY DEF ToSee
<1>4. i[r] < count
  BY <1>1, <1>2, <1>3
<1> QED BY <1>1, <1>4 DEF Test, Goto, TypeOK

LEMMA ToSeeFirst ==
  ASSUME IInv, NEW r \in Readers, WalkFirst(r), manque'[r] # {}
  PROVE  /\ pc'[r] \in {"test", "walk"}
         /\ \E k \in 1 .. Len(ordre) :
               /\ ordre[k] = el'[r] /\ i'[r] < k
               /\ \A e \in manque'[r] : \E j \in k .. Len(ordre) : ordre[j] = e
<1>1. /\ r \in Walkers /\ TypeOK /\ Len(ordre) \in Nat
  BY ListFacts DEF IInv, Walkers
<1>2. /\ el'[r] = first /\ i'[r] = 0 /\ manque'[r] = ToSet(ordre) /\ pc'[r] = "test"
  BY <1>1 DEF WalkFirst, Goto, TypeOK
<1>3. \A e \in ToSet(ordre) : \E j \in 1 .. Len(ordre) : ordre[j] = e
  BY <1>1, ListFacts
<1>4. 1 \in 1 .. Len(ordre)
  BY <1>1, <1>2, <1>3
<1>5. first = ordre[1]
  BY <1>1, <1>4, EmptySeq DEF IInv, WellLinked
<1> QED BY <1>2, <1>3, <1>4, <1>5

LEMMA ToSeeStep ==
  ASSUME IInv, Apart, ShortList, ToSee, NEW t \in Walkers, Step(t)
  PROVE  ToSee'
<1>1. CASE Add(t)
  BY <1>1, ToSeeAdd
<1>2. CASE RemoveEl(t) /\ el[t] # NoEl
  <2>1. manque' = [r \in Walkers |-> {}]
    BY <1>2 DEF RemoveEl
  <2> QED BY <2>1 DEF ToSee, Walkers
<1>3. CASE ~Add(t) /\ ~(RemoveEl(t) /\ el[t] # NoEl)
  <2>1. ordre' = ordre
    BY <1>3 DEF Step, ReadLast, WalkFirst, WalkNot, Test, Walk, RemoveEl, Free,
                GoAstray, history
  <2> SUFFICES ASSUME NEW r \in Readers, manque'[r] # {}
               PROVE  /\ pc'[r] \in {"test", "walk"}
                      /\ \E k \in 1 .. Len(ordre) :
                            /\ ordre[k] = el'[r] /\ i'[r] < k
                            /\ \A e \in manque'[r] :
                                  \E j \in k .. Len(ordre) : ordre[j] = e
    BY <2>1 DEF ToSee
  <2>2. r \in Walkers /\ TypeOK /\ r \notin Threads
    BY ListeAssumption DEF Walkers, IInv
  <2>3. CASE r # t
    <3>1. pc'[r] = pc[r] /\ el'[r] = el[r] /\ i'[r] = i[r]
      BY <2>2, <2>3, OthersFrame
    <3>2. manque'[r] = manque[r]
      <4>1. CASE WalkFirst(t)
        BY <2>2, <2>3, <4>1 DEF WalkFirst, TypeOK
      <4>2. CASE Walk(t)
        BY <2>2, <2>3, <4>2 DEF Walk, TypeOK
      <4>3. CASE ~WalkFirst(t) /\ ~Walk(t)
        <5>1. manque' = manque
          BY <1>3, <4>3 DEF Step, ReadLast, WalkNot, Test, RemoveEl, Free, GoAstray, history
        <5> QED BY <5>1
      <4> QED BY <4>1, <4>2, <4>3
    <3> QED BY <3>1, <3>2 DEF ToSee
  <2>4. CASE r = t
    <3>1. CASE WalkFirst(t)
      BY <2>4, <3>1, ToSeeFirst
    <3>2. CASE Walk(t)
      BY <2>4, <3>2, ToSeeWalk
    <3>3. CASE Test(t)
      <4>1. manque' = manque /\ el' = el /\ i' = i
        BY <3>3 DEF Test, history
      <4>2. pc'[r] = "walk"
        BY <2>4, <3>3, <4>1, ToSeeTest
      <4> QED BY <4>1, <4>2 DEF ToSee
    <3>4. CASE GoAstray(t)
      BY <3>4 DEF GoAstray, threadVars, history, ToSee
    <3>5. pc[t] \notin {"add", "in", "remove", "free"}
      BY <2>4 DEF Apart
    <3>6. ~ReadLast(t) /\ ~WalkNot(t) /\ ~RemoveEl(t) /\ ~Free(t)
      BY <2>2, <2>4, <3>5 DEF ReadLast, WalkNot, RemoveEl, Free
    <3> QED BY <1>3, <3>1, <3>2, <3>3, <3>4, <3>6 DEF Step
  <2> QED BY <2>3, <2>4
<1> QED BY <1>1, <1>2, <1>3

\* The theorem about the readers.
LEMMA ReadersInit == Init => IInv /\ Apart /\ ToSee
<1>1. Init => ToSee
  BY DEF Init, ToSee, Walkers
<1> QED BY <1>1, InitInvariant, ApartInit

LEMMA ReadersStep ==
  IInv /\ Apart /\ ToSee /\ ShortList /\ [Next]_vars => (IInv /\ Apart /\ ToSee)'
<1> SUFFICES ASSUME IInv, Apart, ToSee, ShortList, [Next]_vars
             PROVE  IInv' /\ Apart' /\ ToSee'
  OBVIOUS
<1>1. IInv'
  BY StepInvariant
<1>2. CASE UNCHANGED vars
  BY <1>1, <1>2 DEF vars, threadVars, links, history, Apart, ToSee
<1>3. CASE Next
  <2>1. PICK t \in Walkers : Step(t)
    BY <1>3 DEF Next
  <2> QED BY <1>1, <2>1, ApartStep, ToSeeStep DEF IInv
<1> QED BY <1>2, <1>3

\* A reader whose loop counts up to the length of the list misses nobody who
\* was there when it began, whatever is added meanwhile and unless somebody
\* leaves, as long as the length does not wrap around at 256.
THEOREM MissNobodyHolds == Spec /\ []ShortList => []MissNobody
<1>1. ToSee => MissNobody
  BY DEF ToSee, MissNobody
<1> QED BY <1>1, ReadersInit, ReadersStep, PTL DEF Spec
=============================================================================
