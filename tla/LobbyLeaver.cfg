CONSTANTS
    Clients = {c1, c2, c3}
    Leavers = {c3}
    Slots = {s1}
    NoGame = NoGame
    Ids = {1}
    MaxGhosts = 1
SPECIFICATION FairSpec
PROPERTY ReadyGameBegins
CHECK_DEADLOCK FALSE
