SPECIFICATION Spec
CONSTANTS
    c1 = c1
    c2 = c2
    c3 = c3
    Client = {c1, c2}
    Fd = {f1, f2}
    Addr = {a1, a2}
    Listener = listener
    None = none
    Chunk = 2
    HeadLen = 1
    JsonLen = 1
    FileLen = 3
    SendRoom = 2
    RecvMax = 1
    MaxEvents = 3
    MaxExits = 0
    Script <- PipelinedScript
    Quits = {c2}
SYMMETRY Symmetry
INVARIANT OneResponse
CHECK_DEADLOCK FALSE
