\* The other node runs on this host: its datagrams come from 127.0.0.1 too.
CONSTANTS
    Local = Local
    n1 = n1
    None = None
    Others <- MCOthers
    SameHost <- MCColocated
    MaxStarts = 1
    MaxRemote = 2
    Cap = 1
SPECIFICATION Spec
\* Discovery stopped, no datagram left and no more to come: the node idles.
CHECK_DEADLOCK FALSE
PROPERTIES
    OnlyOwnEchoDropped
