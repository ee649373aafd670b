\* An active cofdpt and a switch with two ports and two descriptions;
\* three messages in flight, two reconnects, one extra FEATURES_REQUEST;
\* the event loop's weak fairness (FairSpec).
CONSTANTS
    p1 = p1
    p2 = p2
    d1 = d1
    d2 = d2
    None = None
    Ports <- MCPorts
    Descs <- MCDescs
    MaxQueue = 3
    MaxConnects = 2
    MaxRequests = 1
SPECIFICATION FairSpec
INVARIANT PortsMirrored
INVARIANT NoPortStatusLost
PROPERTY PortsConverge
\* The last connection may end closed: nothing is left to do.
CHECK_DEADLOCK FALSE
