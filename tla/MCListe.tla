------------------------------ MODULE MCListe ------------------------------
(* Small instances of Liste for TLC: a list that is empty at the start, and   *)
(* one with an element for each of four threads.                              *)
EXTENDS Liste

CONSTANTS t1, t2, t3, t4, e1, e2, e3, e4

Empty == <<>>
Nobody == [e \in {} |-> t1]

Four == <<e1, e2, e3, e4>>
OneEach == e1 :> t1 @@ e2 :> t2 @@ e3 :> t3 @@ e4 :> t4

Symmetry == Permutations(Elements)
=============================================================================
