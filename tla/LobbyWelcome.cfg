CONSTANTS
    Clients = {c1, c2, c3}
    Leavers = {}
    Slots = {s1}
    NoGame = NoGame
    Ids = {1}
    MaxGhosts = 1
SPECIFICATION FairSpec
PROPERTY ValidatedIsWelcomed
CHECK_DEADLOCK FALSE
