\* Any configuration, two threads calling and logging in; a token from the
\* environment and another from a PIN, room for every thread to log in again.
CONSTANTS
    Threads = {t1, t2}
    NStatic = 2
    MaxIssued = 4
    MaxClients = 2
SPECIFICATION Spec
SYMMETRY ThreadSymmetry
INVARIANTS TypeOK CredentialsNeverMix DeniedOnlyAfterRetry
