\* Callers do anything PKCS#11 allows, the buffer of a retry included.
CONSTANTS
    Threads = {t1, t2}
    Slots <- MCSlots
    Mechs <- MCMechs
    BufLens <- MCBufLens
    PartLens = {1}
    SigLen <- MCSigLen
    MaxSignBuffer = 2
    MaxSessions = 2
    MaxOps = 2
    CallersRetryAsTold = FALSE
SPECIFICATION Spec
SYMMETRY ThreadSymmetry
INVARIANTS TypeOK HandleStillMine OneRemoteSignature
