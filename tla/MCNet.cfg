SPECIFICATION NetSpec
CONSTANTS
    Byte = {x, y}
    Pieces <- MCPieces
    PieceMax = 3
    HighWater = 3
    c1 = c1
    c2 = c2
    t1 = t1
    t2 = t2
    t3 = t3
    t4 = t4
    t5 = t5
    Client = {c1, c2}
    Worker = {w1, w2, w3}
    Task = {t1, t2, t3, t4, t5}
    ClientTasks <- MCClientTasks
    Children <- MCChildren
INVARIANTS BufferSound PoolSafe
PROPERTIES RefinesFifo EveryTaskRuns DestructorReturns
CHECK_DEADLOCK FALSE
