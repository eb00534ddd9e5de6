CONSTANTS
    r1 = r1
    r2 = r2
    s1 = s1
    s2 = s2
    c1 = c1
    c2 = c2
    None = None
    Ids <- MCIds
    Secrets <- MCSecrets
    Slots <- MCSlots
    MaxPairs = 3
SPECIFICATION Spec
SYMMETRY MCSymmetry
INVARIANTS
    ConnectedMeansOneLivePeer
