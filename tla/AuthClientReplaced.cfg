\* A thread in C_Initialize and another one that sends a request before the first
\* login has ended: both find that there is no SDK client yet.
CONSTANTS
    Threads = {t1, t2}
    NStatic = 1
    MaxIssued = 3
    MaxClients = 2
SPECIFICATION Spec
INVARIANTS RetriesOnce401
