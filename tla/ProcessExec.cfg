CONSTANTS
    Thread = {t0, t1}
    Addr <- MCAddr
    Boot = t0
    NULL = NULL
    BootSlot = 1
    MaxCommands = 3
    TableSize = 4
    ExitCode = {0}
    TlbLock = TlbLock
    Overlap = FALSE
SPECIFICATION SpecNoOpen
INVARIANT ProgramHasImage
