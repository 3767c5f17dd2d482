CONSTANTS
    Sizes <- OddAndEven
    Labels = {1, 2, 3}
SPECIFICATION FairSpec
INVARIANTS TypeOK FloorInOnePiece TouchingAgree EnoughFloor
PROPERTIES NearerEnd MapGetsDone
CHECK_DEADLOCK FALSE
