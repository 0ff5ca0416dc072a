\* Two processes on one directory; any step of store() and remove() may fail.
SPECIFICATION Spec
CONSTANTS
    Proc = {p1, p2}
    Value = {v1, v2}
    Blank = Blank
    Torn = Torn
    None = None
    Given <- MCGiven
SYMMETRY Symmetry
INVARIANTS
    CredTypeOK
    KeyKeptPrivate
    StoredIsThere
    RemovedIsGone
    RemoveFalseMeansRace
