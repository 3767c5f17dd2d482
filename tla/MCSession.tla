----------------------------- MODULE MCSession -----------------------------
(* Small instances of Session for TLC. *)
EXTENDS Session

\* A constraint, not a property: after the first fault a run follows the walk
\* under way, or what was left of the request while it is read as a command.
\* The properties say nothing of what comes then; the proofs have no bound.
UntilRead == astray => /\ Len(requests) <= 2 /\ Len(replies) <= 3
                       /\ \/ at \in Walks
                          \/ requests # <<>> /\ Head(requests) = Junk
=============================================================================
