CONSTANTS
    Proc = {p1, p2}
    Page = {text, stack}
    Writable = {stack}
    FromFile = {text}
    TablePages = 2
    NFrames = 8
    NumTlb = 2
    Value = {0, 1}
    Initial = 0
    MaxBlock = 1
    MaxBlocks = 0
    MaxLost = 0
    NULL = NULL
SPECIFICATION VMSpec
SYMMETRY Symmetry
INVARIANTS
    Isolation
