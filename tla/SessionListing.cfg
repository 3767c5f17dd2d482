CONSTANTS
    Ids = {1, 2}
    NoGame = NoGame
    MaxJoueurs = 2
    MaxBacklog = 0
    Faults = {}
SPECIFICATION FairSpec
PROPERTY ListArrives
CHECK_DEADLOCK FALSE
