CONSTANTS
    Joueurs = {j1, j2, j3}
    Sol <- CornerSol
    MaxAutres = 2
    MaxAppels = 1
    MaxRappels = 2
SPECIFICATION Spec
SYMMETRY Symmetry
CONSTRAINT GhostAtTheEnd
INVARIANTS  GhostsApart  
CHECK_DEADLOCK FALSE
