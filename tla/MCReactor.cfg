SPECIFICATION Spec
CONSTANTS
    c1 = c1
    c2 = c2
    c3 = c3
    Client = {c1, c2, c3}
    Fd = {f1, f2}
    Addr = {a1, a2}
    Listener = listener
    None = none
    Chunk = 2
    HeadLen = 1
    JsonLen = 1
    FileLen = 3
    SendRoom = 3
    RecvMax = 1
    MaxEvents = 3
    MaxExits = 1
    Script <- MixedScript
    Quits = {c1}
SYMMETRY Symmetry
INVARIANTS TypeOK Bookkeeping
PROPERTY ImplementsExchange
CHECK_DEADLOCK FALSE
