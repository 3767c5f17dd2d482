CONSTANTS
    Clients = {c1, c2, c3}
    Leavers = {c1, c2, c3}
    Slots = {s1, s2, s3}
    NoGame = NoGame
    Ids = {1, 2, 3}
    MaxGhosts = 1
SPECIFICATION Spec
SYMMETRY Symmetry
INVARIANTS TypeOK StartCountsStarters SeatedOnce EndedMeansCaught AbandonedIsFreed
PROPERTY BeginNeedsTwo Implements
CHECK_DEADLOCK FALSE
