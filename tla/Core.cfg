CONSTANTS
    c1 = c1
    c2 = c2
    n1 = n1
    n2 = n2
    e1 = e1
    e2 = e2
    sw1 = sw1
    NoCtl = NoCtl
    NoOwner = NoOwner
    Ctls <- MCCtls
    Conns <- MCConns
    DptIds <- MCDptIds
    Dpids <- MCDpids
    Gens <- MCGens
    W = 3
    MaxRequests = 3

SPECIFICATION Spec

INVARIANT TypeOK
INVARIANT AtMostOneMaster
PROPERTY ImplementsRoleSpec

\* Requests are bounded, and the conns may all be established to
\* controllers that can no longer attach: the core may stop.
CHECK_DEADLOCK FALSE
