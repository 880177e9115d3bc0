SPECIFICATION Spec
CONSTANTS
    Segs <- MCSegs
    Mixes <- MCMixes
    MaxSets = 2
    MaxOther = 1
INVARIANTS TypeOK ShownWhole
PROPERTY LastNameOnAir
