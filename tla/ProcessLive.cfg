CONSTANTS
    Thread = {t0, t1, t2}
    Addr <- MCAddr
    Boot = t0
    NULL = NULL
    BootSlot = 1
    MaxCommands = 2
    TableSize = 4
    ExitCode = {0}
    TlbLock = TlbLock
    Overlap = FALSE
SPECIFICATION FairSpec
PROPERTIES
    WaitEnds
    
    
