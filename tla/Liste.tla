------------------------------- MODULE Liste -------------------------------
(***************************************************************************)
(* The doubly linked lists of the server (list.c), in the hands of the     *)
(* threads that use them.  addEl and removeEl hold the lock while they     *)
(* change the pointers; but their callers read `list->last' before addEl   *)
(* takes it, look for their element by a loop that takes it for one        *)
(* pointer at a time, and a removed element is freed after it was          *)
(* released.                                                               *)
(*                                                                         *)
(* A thread adds an element for itself at the end and later finds and      *)
(* removes it: a player in `joueurs' (register_game, func_unreg,           *)
(* quit_game), a game in `games' (new_game, func_unreg, quit_game).  Some  *)
(* only walk the list (send_list, send_glis, func_send_games).             *)
(*                                                                         *)
(* malloc never returns an address that was freed.  When a thread follows  *)
(* NULL, touches a freed element, or changes the pointers of an element    *)
(* that has left the list, the model stops (astray).                       *)
(***************************************************************************)
EXTENDS Integers, Sequences, SequencesExt

CONSTANTS
    Threads,    \* threads that add and remove an element of their own
    Counted,    \* those whose search is a `for' up to the length of the list
                \* (quit_game, the search in `games'), the others have a
                \* `while' (the search in `joueurs' of func_unreg)
    Readers,    \* threads that only walk the list
    Elements,   \* addresses of elements
    NoEl,       \* NULL
    Debut,      \* the list at the start: empty, or that of a game under way
    Owner       \* and whose elements these are

Walkers == Threads \cup Readers

ASSUME ListeAssumption ==
    /\ Counted \subseteq Threads
    /\ Threads \cap Readers = {}
    /\ NoEl \notin Elements \cup Walkers
    /\ Debut \in Seq(Elements)
    /\ \A j, k \in DOMAIN Debut : Debut[j] = Debut[k] => j = k
    /\ Owner \in [ToSet(Debut) -> Threads]
    /\ \A e, f \in ToSet(Debut) : Owner[e] = Owner[f] => e = f

VARIABLES
    pc, el, i,                \* of a thread: location, `prevEl' or `ptr', counter
    first, last, count,       \* struct listElements
    next, prev, data,         \* struct element
    mem,                      \* has the address been allocated, or freed?
    astray,                   \* the behaviour is not defined any more
    ordre,                    \* history: the elements between first and last
    avant,                    \* history: the list when a thread read its last
    manque                    \* history: what a reader has yet to see

threadVars == <<pc, el, i>>
links      == <<first, last, next, prev>>
history    == <<ordre, avant, manque>>
vars       == <<threadVars, links, count, data, mem, astray, history>>

Locations == {"out", "add", "in", "test", "walk", "remove", "free", "listed"}

uint8(n) == n % 256

Goto(t, l) == pc' = [pc EXCEPT ![t] = l]

\* The elements whose memory is in use.
Live == {e \in Elements : mem[e] = "live"}

\* Where an element of a list is in it.
Rank(s, e) == CHOOSE k \in DOMAIN s : s[k] = e

-----------------------------------------------------------------------------
(* addEl(list, list->last, data)                                           *)

\* Mutant: the element goes behind the first one.
ReadFirstForLast(t) ==
    /\ pc[t] = "out" /\ t \in Threads
    /\ el' = [el EXCEPT ![t] = first]
    /\ avant' = [avant EXCEPT ![t] = ToSet(ordre)]
    /\ Goto(t, "add")
    /\ UNCHANGED <<i, links, count, data, mem, astray, ordre, manque>>

\* The arguments are evaluated without the lock.
ReadLast(t) ==
    /\ pc[t] = "out" /\ t \in Threads
    /\ el' = [el EXCEPT ![t] = last]
    /\ avant' = [avant EXCEPT ![t] = ToSet(ordre)]
    /\ Goto(t, "add")
    /\ UNCHANGED <<i, links, count, data, mem, astray, ordre, manque>>

\* Mutant: the pointer to the last element is not moved.
LinkAfterKeepsLast(p, e) ==
    /\ next' = [next EXCEPT ![e] = next[p], ![p] = e]
    /\ prev' = [x \in Elements |-> IF x = e THEN p
                              ELSE IF x = next[p] THEN e ELSE prev[x]]
    /\ ordre' = InsertAt(ordre, Rank(ordre, p) + 1, e)
    /\ UNCHANGED <<first, last>>

\* Behind prevEl, which may have stopped being the last element.
LinkAfter(p, e) ==
    /\ next' = [next EXCEPT ![e] = next[p], ![p] = e]
    /\ prev' = [x \in Elements |-> IF x = e THEN p
                              ELSE IF x = next[p] THEN e ELSE prev[x]]
    /\ last' = IF last = p THEN e ELSE last
    /\ ordre' = InsertAt(ordre, Rank(ordre, p) + 1, e)
    /\ UNCHANGED first

\* prevEl is NULL: in front of the others, if there are any by now.
LinkFront(e) ==
    /\ next' = [next EXCEPT ![e] = first]
    /\ prev' = [x \in Elements |-> IF x = e THEN NoEl
                              ELSE IF x = first THEN e ELSE prev[x]]
    /\ first' = e
    /\ last' = IF first = NoEl THEN e ELSE last
    /\ ordre' = InsertAt(ordre, 1, e)

Add(t) ==
    /\ pc[t] = "add"
    /\ \E e \in Elements :
          /\ mem[e] = "none"
          /\ \/ el[t] = NoEl /\ LinkFront(e)
             \/ el[t] \in ToSet(ordre) /\ LinkAfter(el[t], e)
          /\ mem' = [mem EXCEPT ![e] = "live"]
          /\ data' = [data EXCEPT ![e] = t]
    /\ count' = uint8(count + 1)
    /\ el' = [el EXCEPT ![t] = NoEl]
    /\ avant' = [avant EXCEPT ![t] = {}]
    /\ Goto(t, "in")
    /\ UNCHANGED <<i, astray, manque>>

-----------------------------------------------------------------------------
(* The search for one's element, and the walk of a reader.                 *)

\* ptr = list->first.
WalkFirst(t) ==
    /\ pc[t] = IF t \in Readers THEN "out" ELSE "in"
    /\ el' = [el EXCEPT ![t] = first]
    /\ i' = [i EXCEPT ![t] = 0]
    /\ manque' = [manque EXCEPT ![t] = IF t \in Readers THEN ToSet(ordre) ELSE {}]
    /\ Goto(t, IF t \in Counted \cup Readers THEN "test" ELSE "walk")
    /\ UNCHANGED <<links, count, data, mem, astray, ordre, avant>>

\* quit_game: the only player left is the first one.  (Who has found more than
\* one goes on with WalkFirst, even if by then there is one only.)
WalkNot(t) ==
    /\ pc[t] = "in" /\ t \in Counted /\ count = 1
    /\ el' = [el EXCEPT ![t] = first]
    /\ Goto(t, "remove")
    /\ UNCHANGED <<i, links, count, data, mem, astray, history>>

\* Mutant: the loop ends one element early.
TestEarly(t) ==
    /\ pc[t] = "test"
    /\ Goto(t, IF i[t] + 1 < count THEN "walk"
               ELSE IF t \in Readers THEN "listed" ELSE "remove")
    /\ UNCHANGED <<el, i, links, count, data, mem, astray, history>>

\* i < getListCount(list).  A search that has not found its element by the
\* end of the loop goes on with the one at which it has stopped.
Test(t) ==
    /\ pc[t] = "test"
    /\ Goto(t, IF i[t] < count THEN "walk"
               ELSE IF t \in Readers THEN "listed" ELSE "remove")
    /\ UNCHANGED <<el, i, links, count, data, mem, astray, history>>

\* One element is looked at, and the pointer to the next one read.
Walk(t) ==
    /\ pc[t] = "walk" /\ el[t] \in Live
    /\ IF data[el[t]] = t
         THEN Goto(t, "remove") /\ UNCHANGED <<el, i, manque>>
         ELSE /\ el' = [el EXCEPT ![t] = next[@]]
              /\ i' = [i EXCEPT ![t] = @ + 1]
              /\ manque' = [manque EXCEPT ![t] = @ \ {el[t]}]
              /\ Goto(t, IF t \in Counted \cup Readers THEN "test" ELSE "walk")
    /\ UNCHANGED <<links, count, data, mem, astray, ordre, avant>>

-----------------------------------------------------------------------------
(* removeEl(list, ptr)                                                     *)

\* Mutant: an element between two others stays linked.
UnlinkEnds(e) ==
    /\ \/ /\ prev[e] # NoEl /\ next[e] # NoEl
          /\ UNCHANGED links
       \/ /\ prev[e] = NoEl \/ next[e] = NoEl
          /\ first' = IF e = first THEN next[e] ELSE first
          /\ last'  = IF e = last THEN prev[e] ELSE last
          /\ prev'  = IF e = first /\ next[e] # NoEl
                        THEN [prev EXCEPT ![next[e]] = NoEl] ELSE prev
          /\ next'  = IF e = last /\ prev[e] # NoEl
                        THEN [next EXCEPT ![prev[e]] = NoEl] ELSE next
    /\ ordre' = IF prev[e] # NoEl /\ next[e] # NoEl
                  THEN ordre ELSE RemoveAt(ordre, Rank(ordre, e))

\* Mutant: the list is cut behind the element that leaves.
UnlinkCuts(e) ==
    /\ first' = IF e = first THEN NoEl ELSE first
    /\ last'  = IF e = last THEN prev[e] ELSE last
    /\ prev'  = IF next[e] # NoEl THEN [prev EXCEPT ![next[e]] = prev[e]] ELSE prev
    /\ next'  = IF prev[e] # NoEl THEN [next EXCEPT ![prev[e]] = NoEl] ELSE next
    /\ ordre' = RemoveAt(ordre, Rank(ordre, e))

Unlink(e) ==
    /\ \/ /\ prev[e] # NoEl /\ next[e] # NoEl
          /\ next' = [next EXCEPT ![prev[e]] = next[e]]
          /\ prev' = [prev EXCEPT ![next[e]] = prev[e]]
          /\ UNCHANGED <<first, last>>
       \/ /\ prev[e] = NoEl \/ next[e] = NoEl
          /\ first' = IF e = first THEN next[e] ELSE first
          /\ last'  = IF e = last THEN prev[e] ELSE last
          /\ prev'  = IF e = first /\ next[e] # NoEl
                        THEN [prev EXCEPT ![next[e]] = NoEl] ELSE prev
          /\ next'  = IF e = last /\ prev[e] # NoEl
                        THEN [next EXCEPT ![prev[e]] = NoEl] ELSE next
    /\ ordre' = RemoveAt(ordre, Rank(ordre, e))

\* The element leaves the list, and the readers are not owed anything any more.
\* With NULL for an element removeEl does nothing.
RemoveEl(t) ==
    /\ pc[t] = "remove" /\ el[t] \in ToSet(ordre) \cup {NoEl}
    /\ IF el[t] = NoEl
         THEN Goto(t, "out") /\ UNCHANGED <<links, count, ordre, manque>>
         ELSE /\ Unlink(el[t])
              /\ count' = uint8(count - 1)
              /\ manque' = [r \in Walkers |-> {}]
              /\ Goto(t, "free")
    /\ UNCHANGED <<el, i, data, mem, astray, avant>>

\* free(el), after the lock was released.
Free(t) ==
    /\ pc[t] = "free"
    /\ mem' = [mem EXCEPT ![el[t]] = "freed"]
    /\ el' = [el EXCEPT ![t] = NoEl]
    /\ Goto(t, "out")
    /\ UNCHANGED <<i, links, count, data, astray, history>>

-----------------------------------------------------------------------------
\* The thread follows NULL or a pointer to freed memory, or it is about to
\* link an element to one that has left the list, or to unlink that one again.
Undefined(t) ==
    \/ pc[t] = "walk" /\ el[t] \notin Live
    \/ pc[t] \in {"add", "remove"} /\ el[t] \notin ToSet(ordre) \cup {NoEl}

GoAstray(t) ==
    /\ Undefined(t)
    /\ astray' = TRUE
    /\ UNCHANGED <<threadVars, links, count, data, mem, history>>

\* What is in Debut at place k, if anything.
DebutAt(k) == IF k \in 1 .. Len(Debut) THEN Debut[k] ELSE NoEl

InDebut(e) == \E k \in 1 .. Len(Debut) : Debut[k] = e

Init ==
    /\ pc = [t \in Walkers |->
               IF \E e \in ToSet(Debut) : Owner[e] = t THEN "in" ELSE "out"]
    /\ el = [t \in Walkers |-> NoEl] /\ i = [t \in Walkers |-> 0]
    /\ first = DebutAt(1) /\ last = DebutAt(Len(Debut)) /\ count = uint8(Len(Debut))
    /\ next = [e \in Elements |->
                 IF InDebut(e) THEN DebutAt(Rank(Debut, e) + 1) ELSE NoEl]
    /\ prev = [e \in Elements |->
                 IF InDebut(e) THEN DebutAt(Rank(Debut, e) - 1) ELSE NoEl]
    /\ data = [e \in Elements |-> IF InDebut(e) THEN Owner[e] ELSE NoEl]
    /\ mem = [e \in Elements |-> IF InDebut(e) THEN "live" ELSE "none"]
    /\ astray = FALSE
    /\ ordre = Debut
    /\ avant = [t \in Walkers |-> {}] /\ manque = [t \in Walkers |-> {}]

Step(t) ==
    \/ ReadLast(t) \/ Add(t) \/ WalkFirst(t) \/ WalkNot(t)
    \/ Test(t) \/ Walk(t) \/ RemoveEl(t) \/ Free(t)
    \/ GoAstray(t)

Next == ~astray /\ \E t \in Walkers : Step(t)

Spec == Init /\ [][Next]_vars

-----------------------------------------------------------------------------
TypeOK ==
    /\ pc \in [Walkers -> Locations]
    /\ el \in [Walkers -> Elements \cup {NoEl}] /\ i \in [Walkers -> Nat]
    /\ first \in Elements \cup {NoEl} /\ last \in Elements \cup {NoEl}
    /\ count \in 0 .. 255
    /\ next \in [Elements -> Elements \cup {NoEl}]
    /\ prev \in [Elements -> Elements \cup {NoEl}]
    /\ data \in [Elements -> Walkers \cup {NoEl}]
    /\ mem \in [Elements -> {"none", "live", "freed"}]
    /\ astray \in BOOLEAN
    /\ ordre \in Seq(Elements)
    /\ avant \in [Walkers -> SUBSET Elements]
    /\ manque \in [Walkers -> SUBSET Elements]

\* The pointers of the elements, forward and backward, those of the list and
\* its length describe one and the same sequence, although elements are added
\* behind a `last' that is out of date.
WellLinked ==
    /\ first = IF ordre = <<>> THEN NoEl ELSE ordre[1]
    /\ last  = IF ordre = <<>> THEN NoEl ELSE ordre[Len(ordre)]
    /\ count = uint8(Len(ordre))
    /\ \A k \in 1 .. Len(ordre) :
          /\ next[ordre[k]] = IF k = Len(ordre) THEN NoEl ELSE ordre[k + 1]
          /\ prev[ordre[k]] = IF k = 1 THEN NoEl ELSE ordre[k - 1]

\* A search that counts does not take the element of somebody else for its own,
\* nor end on NULL.  (That is up to the others: as they leave, the length to
\* which it counts shrinks.)
CountedFinds ==
    \A t \in Counted : pc[t] = "remove" /\ el[t] \in ToSet(ordre) \cup {NoEl} =>
        el[t] \in ToSet(ordre) /\ data[el[t]] = t

\* A thread that looks for its element with a `while' does not run off the end
\* of the list, whatever is added and removed around it: what it looks for is
\* never behind it.  (Its loop does not test for NULL.)
WalkStaysInList ==
    \A t \in Threads \ Counted : pc[t] = "walk" => el[t] # NoEl

\* Who has left is not in the list any more.
LeftMeansGone ==
    \A t \in Threads : pc[t] \in {"free", "out", "add"} =>
        \A e \in ToSet(ordre) : data[e] # t

\* A reader that gets to the end of its loop has seen everybody who was in the
\* list when it began, unless somebody has left since.
MissNobody == \A r \in Readers : pc[r] = "listed" => manque[r] = {}

\* The lists are what their users take them for: sequences to which an element
\* is added behind all those that were there when the call began.
Abstract == INSTANCE Suite WITH Threads <- Walkers,
                                appels  <- {t \in Walkers : pc[t] = "add"}
Implements == Abstract!Spec
=============================================================================
