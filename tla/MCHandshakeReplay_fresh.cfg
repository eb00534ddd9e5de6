CONSTANTS
    s1 = s1
    s2 = s2
    None = None
    Secrets <- MCSecrets
    MaxWindow = 3
    RecWindow = 0
    StartWindow = 0
SPECIFICATION ReplaySpec
\* The adversary stops once its recording is spent.
CHECK_DEADLOCK FALSE
INVARIANTS
    NoPeerForImpostor
