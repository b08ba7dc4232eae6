CONSTANTS
    Thread = {t0, t1, t2, t3}
    Addr <- MCAddr
    Boot = t0
    NULL = NULL
    BootSlot = 1
    MaxCommands = 3
    TableSize = 5
    ExitCode = {0}
    TlbLock = TlbLock
    Overlap = TRUE
SPECIFICATION Spec
SYMMETRY Symmetry
INVARIANT UniqueTids
