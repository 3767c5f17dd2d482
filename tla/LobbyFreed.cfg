CONSTANTS
    Clients = {c1, c2, c3}
    Leavers = {}
    Slots = {s1}
    NoGame = NoGame
    Ids = {1}
    MaxGhosts = 1
SPECIFICATION Spec
INVARIANT NoUseAfterFree
CHECK_DEADLOCK FALSE
