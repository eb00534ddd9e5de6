\* One remote node: a session id names one remote session.
CONSTANTS
    p1 = p1
    p2 = p2
    None = None
    Peers <- OneRemote
    MaxId = 2
    MaxQueue = 2
SPECIFICATION Spec
INVARIANTS
    AtMostOneFinalReply
    PromptAnswerable
