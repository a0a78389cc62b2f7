\* The same instance as SearchBatches: does a key keep its signer when the list
\* of signers changes under it?
CONSTANTS
    Sessions = {s1}
    Signers = {alice, bob}
    NoSigner = NoSigner
    MaxFinds = {1, 2}
    MaxSlots = 2
SPECIFICATION Spec
SYMMETRY SearchSymmetry
INVARIANTS KeySignsAsFound
