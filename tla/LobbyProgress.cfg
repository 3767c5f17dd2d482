CONSTANTS
    Clients = {c1, c2, c3}
    Leavers = {}
    Slots = {s1, s2}
    NoGame = NoGame
    Ids = {1, 2}
    MaxGhosts = 1
SPECIFICATION FairSpec
PROPERTY ReadyGameBegins
CHECK_DEADLOCK FALSE
