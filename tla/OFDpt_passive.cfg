\* A passively accepted cofdpt against a switch that may send a bad HELLO,
\* a duplicate HELLO, a malformed FEATURES reply, PACKET_INs, drop answers
\* and close the socket at any time.
CONSTANTS
    Active = FALSE
    Xids <- MCXids
    PeerVersions <- MCPeerVersions
    FeaturesBodies <- MCFeaturesAny
    PeerDrops = TRUE
    MaxPeerHellos = 2
    MaxConnects = 0
    MaxQueue = 2
SPECIFICATION Spec
INVARIANT TypeOK
INVARIANT HelloFirst
INVARIANT EchoArmed
