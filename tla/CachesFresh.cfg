\* Two concurrent readers and a service whose signer changes its key at any
\* time.  A unit of time is longer than the list is kept, so a list is good
\* until the next tick, and certificate and key outlive it; an answer can wait
\* long enough to be stored after a newer one.
CONSTANTS
    Threads = {t1, t2}
    SignerTTL = 0
    CertTTL = 1
    Latency = 1
SPECIFICATION Spec
SYMMETRY ThreadSymmetry
INVARIANTS TypeOK ServedFresh ECReadGivesEC
