SPECIFICATION FairSpec
CONSTANTS
    Uint64Max = 7
    Chunk = 2
    Sizes <- MCSizes
    Numbers <- MCNumbers
INVARIANT WindowSound
PROPERTIES ShortOnlyIfTruncated ResponseEnds
