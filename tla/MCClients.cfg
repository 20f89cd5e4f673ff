SPECIFICATION Spec
CONSTANTS
    MaxSize = 5
    Chunk = 2
    Window = 2
    MaxBody = 4
    ResponseBody = 1
    Path = {p1, p2}
    NoFile = nofile
    Sizes = 2
    MaxVersion = 3
    MaxTime = 1
    IoErrors = TRUE
    a = a
    b = b
    NoTrack = NoTrack
    Tracks = {a, b}
    Lists <- MCLists
    MaxQueue = 3
    MaxEnds = 2
    Query = {q1, q2}
    Blank = Blank
    MaxEdits = 4
INVARIANTS CallSafe SyncSafe PlaybackSafe SearchSafe
PROPERTIES CallEnds NoNeedlessUpload EndIsHandled LoadingEnds
CHECK_DEADLOCK FALSE
