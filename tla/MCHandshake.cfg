CONSTANTS
    s1 = s1
    s2 = s2
    None = None
    Secrets <- MCSecrets
    MaxWindow = 1
SPECIFICATION Spec
SYMMETRY MCSymmetry
\* Both ends end in a Peer or an error: the run stops there.
CHECK_DEADLOCK FALSE
PROPERTIES
    Refinement
