\* Every leaf of every tree, every proof of up to three nodes.
CONSTANTS
    a = a
    b = b
    Content = {a}
    Altered = {b}
    Foreign <- ForeignHashes
    MaxLeaves = 6
    MaxProof = 3
SPECIFICATION MSpec
CHECK_DEADLOCK FALSE
INVARIANTS
    GenuineIsValid
    ValidIsSigned
    RootIsMTH
