CONSTANTS
    j1 = j1  j2 = j2  j3 = j3  g1 = g1  g2 = g2
    NoEl = NoEl
    JoueurList <- TwoPlayers
    FantomeList <- TwoGhosts
    Movers = {j1, j2}
    Quitters = {j1, j2}
    widthMap = 5
    heightMap = 1
    Sol <- Corridor
    MaxDistance = 1
    MaxCalls = 1
SPECIFICATION Spec
INVARIANTS PlayersOnFloor OneGhostPerCell NoGhostUnderfoot EndgaNamesBest SweepInList
PROPERTY FinalScores PlaysPartie
CHECK_DEADLOCK FALSE
