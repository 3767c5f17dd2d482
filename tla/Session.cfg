CONSTANTS
    Ids = {1, 42}
    NoGame = NoGame
    MaxJoueurs = 3
    MaxBacklog = 0
    Faults = {"race", "short", "long"}
SPECIFICATION FairSpec
CONSTRAINT UntilRead
INVARIANTS TypeOK InStep  NoMutualWait
PROPERTY Answered
CHECK_DEADLOCK FALSE
