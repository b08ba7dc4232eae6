CONSTANTS
    Thread = {t0, t1, t2}
    Addr = {lbolt}
    Boot = t0
    NULL = NULL
    Lbolt = lbolt
    HZ = 1
    QSize = 3
    Shrink = 16
SPECIFICATION SchedSpec
INVARIANT MakeRunnableNeedsNoMemory
