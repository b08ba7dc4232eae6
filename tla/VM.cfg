CONSTANTS
    Proc = {p1, p2, p3}
    Page = {text, stack}
    Writable = {stack}
    FromFile = {text}
    TablePages = 1
    NFrames = 5
    NumTlb = 1
    Value = {0, 1}
    Initial = 0
    MaxBlock = 2
    MaxBlocks = 1
    MaxLost = 1
    NULL = NULL
SPECIFICATION VMSpec
SYMMETRY Symmetry
INVARIANTS
    VMTypeOK
    
    
    OneWriter
    
    TextUnchanged

    
