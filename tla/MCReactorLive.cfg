SPECIFICATION FairSpec
CONSTANTS
    c1 = c1
    c2 = c2
    c3 = c3
    Client = {c1, c2}
    Fd = {f1, f2}
    Addr = {a1, a2}
    Listener = listener
    None = none
    Chunk = 2
    HeadLen = 1
    JsonLen = 1
    FileLen = 5
    SendRoom = 2
    RecvMax = 1
    MaxEvents = 3
    MaxExits = 0
    Script <- ServedScript
    Quits = {c2}
INVARIANTS ResponseIntact StreamMemoryBounded
PROPERTIES EveryRequestServed LeaversReleased
CHECK_DEADLOCK FALSE
