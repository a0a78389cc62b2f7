\* One application reads and signs with the first slot while the list of signers
\* changes twice and the cached list expires at will.
CONSTANTS
    SignerLists <- MCSignerLists
    Slot = 1
    MaxChanges = 2
    NoList = NoList
SPECIFICATION FairSpec
INVARIANTS
    NoOverrun
    NoUnwrittenByte
    SignatureVerifies
    ToldIsUsable
    SizeSuffices
    
PROPERTIES
    ReadingEnds
