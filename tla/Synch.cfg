CONSTANTS
    Thread = {t0, t1, t2}
    Addr <- MCAddr
    Boot = t0
    NULL = NULL
    Sem = {s1}
    Lock = {l1, l2}
    CV = {c1}
    InitialCount <- MCInitialCount
    MaxCount = 1
SPECIFICATION SynchFairSpec
INVARIANTS
    SynchTypeOK
    OnePlace
    MutualExclusion
    NoLostWakeup
    WaitersAreQueued
    QueuedAreWaiting
    SleepsOnItsObject
PROPERTIES
    LockProgress
    SemProgress
