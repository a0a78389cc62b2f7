\* Two signers; one session at a time, on either slot; batches of one and two
\* handles; a service that adds and removes signers at any time.
CONSTANTS
    Sessions = {s1}
    Signers = {alice, bob}
    NoSigner = NoSigner
    MaxFinds = {1, 2}
    MaxSlots = 2
SPECIFICATION Spec
SYMMETRY SearchSymmetry
INVARIANTS TypeOK EachMatchOnce KeySignsAsFoundInPlace
