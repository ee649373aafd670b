\* Three controllers requesting MASTER, SLAVE or EQUAL with 3-bit generation
\* ids and sending mod requests; five requests in all.
CONSTANTS
    c1 = c1
    c2 = c2
    c3 = c3
    NoCtl = NoCtl
    Ctls <- MCCtls3
    W = 3
    Gens <- MCGens
    RequestRoles <- MCRolesNoNochange
    MaxRequests = 5
SPECIFICATION Spec
CHECK_DEADLOCK FALSE
INVARIANT AtMostOneMaster
