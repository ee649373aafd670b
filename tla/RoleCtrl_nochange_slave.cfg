\* Two controllers; NOCHANGE requests allowed.
CONSTANTS
    c1 = c1
    c2 = c2
    c3 = c3
    NoCtl = NoCtl
    Ctls <- MCCtls2
    W = 3
    Gens <- MCGens
    RequestRoles <- MCRolesAll
    MaxRequests = 4
SPECIFICATION Spec
CHECK_DEADLOCK FALSE
INVARIANT SlaveCannotModify
