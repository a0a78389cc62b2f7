\* Denied signings, the approval requests opened for them, and their repetition by
\* two processes: two starts, or one start and one disturbance.  No process need be
\* running: the system may stop.
CONSTANTS
    Callers = {c1, c2}
    Commands <- MCCommands
    Secrets <- MCSecrets
    Machines <- MCMachines
    Hashes = {h1}
    Addresses = {a1, a2}
    ApprovalConfigs <- MCConfigs
    MaxRequests = 3
    MaxChanges = 2
    Unset = Unset
    Skipped = Skipped
    s1 = s1
    s2 = s2
    v1 = v1
    v2 = v2
    a1 = a1
    a2 = a2
SPECIFICATION FairSpec
CHECK_DEADLOCK FALSE
INVARIANTS
    SecretsStayHome
    RetryIsCovered
    NothingElseIsCovered
    EveryAskIsLimited
    NoPileUp
    AskedByTheDenied
PROPERTIES
    RetriesSucceed
