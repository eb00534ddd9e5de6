CONSTANTS
    p1 = p1
    p2 = p2
    None = None
    Peers <- OneRemote
    MaxId = 2
    MaxQueue = 2
SPECIFICATION Spec
INVARIANTS
    PairingsSurviveRestart
