CONSTANTS
    Thread = {t0, t1, t2}
    Addr <- MCAddr
    Boot = t0
    NULL = NULL
    BootSlot = 1
    MaxCommands = 2
    TableSize = 5
    ExitCode = {0, 1}
    TlbLock = TlbLock
    Overlap = FALSE
SPECIFICATION Spec
SYMMETRY Symmetry
INVARIANTS
    ProcessTypeOK
    UniqueTids
    ReservedUntilCollected
    FamilyLinks
    ExitCodeReported
    WaitsForChild
    
