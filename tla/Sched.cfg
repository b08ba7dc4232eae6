CONSTANTS
    Thread = {t0, t1, t2}
    Addr = {lbolt, a1}
    Boot = t0
    NULL = NULL
    Lbolt = lbolt
    HZ = 2
    QSize = 4
    Shrink = 2
SPECIFICATION SchedSpec
INVARIANTS
    SchedTypeOK
    EveryThreadOnce
PROPERTIES
    
    ImplementsThreads
    RunnableRuns
    ClocksleepWakes
