CONSTANTS
    j1 = j1  j2 = j2  j3 = j3  g1 = g1  g2 = g2
    NoEl = NoEl
    JoueurList <- TwoPlayers
    FantomeList <- TwoGhosts
    Movers = {j1}
    Quitters = {j2}
    widthMap = 3
    heightMap = 2
    Sol <- Arch
    MaxDistance = 2
    MaxCalls = 2
SPECIFICATION Spec
INVARIANTS TypeOK GhostsOnFloor ScoresAddUp
CHECK_DEADLOCK FALSE
