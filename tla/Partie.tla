------------------------------- MODULE Partie -------------------------------
(***************************************************************************)
(* What one game of Ghostlab promises to its players, whatever the threads *)
(* of the server do: it is opened once, begins with two players that have  *)
(* validated, loses its ghosts only while it is played, is over when none  *)
(* is left, and nothing happens to it once it is freed.                    *)
(*                                                                         *)
(* What it does not promise shows in the guards that are missing: players  *)
(* come and go in every phase, a game may be freed in every phase, and a   *)
(* game that is over may be set under way again (Begin).                   *)
(***************************************************************************)
EXTENDS Integers

CONSTANT Joueurs

VARIABLES phase,     \* "none", "waiting", "running", "over" or "freed"
          inscrits,  \* the players in its list
          valides,   \* those of them that have validated
          fantomes   \* the number of its ghosts

vars == <<phase, inscrits, valides, fantomes>>

InUse == phase \in {"waiting", "running", "over"}

Init == phase = "none" /\ inscrits = {} /\ valides = {} /\ fantomes = 0

Open ==
    /\ phase = "none" /\ phase' = "waiting"
    /\ fantomes' \in Nat \ {0}
    /\ UNCHANGED <<inscrits, valides>>

Join(p) ==
    /\ InUse /\ p \notin inscrits
    /\ inscrits' = inscrits \cup {p}
    /\ UNCHANGED <<phase, valides, fantomes>>

Validate(p) ==
    /\ InUse /\ p \in inscrits \ valides
    /\ valides' = valides \cup {p}
    /\ UNCHANGED <<phase, inscrits, fantomes>>

Leave(p) ==
    /\ InUse /\ p \in inscrits
    /\ inscrits' = inscrits \ {p}
    /\ valides' = valides \ {p}
    /\ UNCHANGED <<phase, fantomes>>

Begin ==
    /\ \/ phase = "waiting" /\ \E p, q \in valides : p # q
       \/ phase = "over" /\ valides # {}
    /\ phase' = "running"
    /\ UNCHANGED <<inscrits, valides, fantomes>>

Catch ==
    /\ phase = "running"
    /\ fantomes' \in 0 .. fantomes - 1
    /\ UNCHANGED <<phase, inscrits, valides>>

End ==
    /\ phase = "running" /\ fantomes = 0
    /\ phase' = "over"
    /\ UNCHANGED <<inscrits, valides, fantomes>>

Free ==
    /\ InUse
    /\ phase' = "freed"
    /\ UNCHANGED <<inscrits, valides, fantomes>>

Next ==
    \/ Open \/ Begin \/ Catch \/ End \/ Free
    \/ \E p \in Joueurs : Join(p) \/ Validate(p) \/ Leave(p)

Spec == Init /\ [][Next]_vars
=============================================================================
