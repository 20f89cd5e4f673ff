SPECIFICATION HttpSpec
CONSTANTS
    Streams <- MCStreams
    Lengths <- MCLengths
    MaxRequestLine = 2
    MaxHeaderBytes = 7
    MaxHeaderCount = 2
    MaxBody = 2
    NoLength = nolength
    MaxTail = 4
    Tables <- MCTables
    Requests <- MCRequests
INVARIANTS ParsesLikeWhole DispatchesByTable
PROPERTIES NothingMissed BufferBounded
CHECK_DEADLOCK FALSE
