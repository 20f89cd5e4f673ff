CONSTANTS
    p1 = p1
    p2 = p2
    NoTag = NoTag
    NotGiven = NotGiven
    Unparsable = Unparsable
    DefaultLimit = 3
    MaxLimit = 3
    SearchLimit = 2
    PageSize = 1
    MaxPages = 3
    Scanner = {s1, s2}
    Path = {p1, p2}
    Stem <- MCStem
    RawTags <- MCRawTags
    Terms <- MCTerms
    RawId <- MCRawId
    RawFilter <- MCRawFilter
    RawLimit <- MCRawLimit
    Rank <- MCRank
    Fold <- MCFold
    MaxWrites = 3
SPECIFICATION Spec
SYMMETRY Symmetry
INVARIANTS RowsSound AnswersSound WalkIsComplete
CHECK_DEADLOCK FALSE
