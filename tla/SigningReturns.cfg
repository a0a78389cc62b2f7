\* Liveness: two threads on one session table; no symmetry.
CONSTANTS
    Threads = {t1, t2}
    Slots <- MCSlots
    Mechs <- MCMechs
    BufLens <- MCBufLens
    PartLens = {1}
    SigLen <- MCSigLen
    MaxSignBuffer = 2
    MaxSessions = 1
    MaxOps = 2
    CallersRetryAsTold = FALSE
SPECIFICATION FairSpec
PROPERTIES CallReturns
