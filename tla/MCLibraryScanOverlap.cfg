SPECIFICATION Spec
CONSTANTS
    Scanner = {s1, s2}
    Root = {r1}
    Path = {p1}
    NoRow = norow
    MaxVersion = 3
    MaxCrashes = 1
    IoErrors = TRUE
SYMMETRY Symmetry
INVARIANT StampSound
