CONSTANTS
    Local = Local
    n1 = n1
    None = None
    Others <- MCOthers
    SameHost <- MCApart
    MaxStarts = 1
    MaxRemote = 2
    Cap = 1
SPECIFICATION Spec
\* Discovery stopped, no datagram left and no more to come: the node idles.
CHECK_DEADLOCK FALSE
INVARIANTS
    TypeOK
PROPERTIES
    NoOwnRequestForwarded
    LoopsStop
