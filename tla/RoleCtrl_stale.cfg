\* Two controllers sending MASTER, SLAVE and EQUAL requests with generation
\* ids 1 and 2: an id one below the cached one takes the wrap-around branch.
CONSTANTS
    c1 = c1
    c2 = c2
    c3 = c3
    NoCtl = NoCtl
    Ctls <- MCCtls2
    W = 3
    Gens <- MCGensLow
    RequestRoles <- MCRolesNoNochange
    MaxRequests = 4
SPECIFICATION Spec
CHECK_DEADLOCK FALSE
PROPERTY GenerationMonotone
