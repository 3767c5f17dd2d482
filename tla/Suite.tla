------------------------------- MODULE Suite -------------------------------
(***************************************************************************)
(* What the lists of the server promise to the threads that use them: a    *)
(* sequence into which every call puts its element behind all those that   *)
(* were there when the call began, and from which elements are taken out   *)
(* without disturbing the others.                                          *)
(***************************************************************************)
EXTENDS Integers, Sequences, SequencesExt

CONSTANTS Threads, Elements,
          Debut      \* what is in the list at the start

VARIABLES ordre,   \* the elements of the list
          appels,  \* the threads in the middle of a call that adds one
          avant    \* what was in the list when such a call began

vars == <<ordre, appels, avant>>

Init == ordre = Debut /\ appels = {} /\ avant = [t \in Threads |-> {}]

Begin(t) ==
    /\ t \notin appels
    /\ appels' = appels \cup {t}
    /\ avant' = [avant EXCEPT ![t] = ToSet(ordre)]
    /\ UNCHANGED ordre

Insert(t) ==
    /\ t \in appels
    /\ \E e \in Elements, k \in 1 .. Len(ordre) + 1 :
          /\ e \notin ToSet(ordre)
          /\ \A j \in k .. Len(ordre) : ordre[j] \notin avant[t]
          /\ ordre' = InsertAt(ordre, k, e)
    /\ appels' = appels \ {t}
    /\ avant' = [avant EXCEPT ![t] = {}]

Delete ==
    /\ \E k \in DOMAIN ordre : ordre' = RemoveAt(ordre, k)
    /\ UNCHANGED <<appels, avant>>

Next == Delete \/ \E t \in Threads : Begin(t) \/ Insert(t)

Spec == Init /\ [][Next]_vars
=============================================================================
