SPECIFICATION Spec
CONSTANTS
    Scanner = {s1}
    Root = {r1, r2}
    Path = {p1}
    NoRow = norow
    MaxVersion = 2
    MaxCrashes = 1
    IoErrors = FALSE
INVARIANTS TypeOK RetiredHidden CleanScanSyncs
PROPERTY DeletedOnlyIfGone
