SPECIFICATION Spec
CONSTANTS
    t1 = t1
    t2 = t2
    t3 = t3
    t4 = t4
    e1 = e1
    e2 = e2
    e3 = e3
    e4 = e4
    Threads  = {t1, t2, t3}
    Counted  = {t3}
    Readers  = {r1}
    Elements = {e1, e2, e3}
    NoEl     = NoEl
    Debut   <- Empty
    Owner   <- Nobody
SYMMETRY Symmetry
INVARIANTS WellLinked WalkStaysInList LeftMeansGone MissNobody
PROPERTIES Implements
CHECK_DEADLOCK FALSE
