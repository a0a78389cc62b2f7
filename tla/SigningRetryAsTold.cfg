\* Callers answer CKR_BUFFER_TOO_SMALL as PKCS#11 intends; two mechanisms, so
\* that a signature of the wrong operation can be told apart.
CONSTANTS
    Threads = {t1, t2}
    Slots <- MCSlots
    Mechs <- MCTwoMechs
    BufLens <- MCBufLens
    PartLens = {1}
    SigLen <- MCSigLen
    MaxSignBuffer = 1
    MaxSessions = 2
    MaxOps = 2
    CallersRetryAsTold = TRUE
SPECIFICATION Spec
SYMMETRY ThreadSymmetry
INVARIANTS SignatureAnswersRequest
PROPERTIES TooSmallKeepsOperation PromiseKept
