\* ... and its next operation is answered with the old signature.
CONSTANTS
    Threads = {t1, t2}
    Slots <- MCSlots
    Mechs <- MCMechs
    BufLens <- MCBufLens
    PartLens = {1}
    SigLen <- MCSigLen
    MaxSignBuffer = 2
    MaxSessions = 1
    MaxOps = 2
    CallersRetryAsTold = FALSE
SPECIFICATION Spec
INVARIANTS CacheServesItsOperation
