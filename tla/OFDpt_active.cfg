\* An actively connecting cofdpt against an OF1.2 switch with well-formed FEATURES
\* replies; the switch may refuse the connect, drop answers and close.
\* The bound MaxConnects ends every behaviour once the attempts are used
\* up and the socket is gone, so those final states have no successor.
CONSTANTS
    Active = TRUE
    Xids <- MCOneXid
    PeerVersions <- MCGoodVersion
    FeaturesBodies <- MCFeaturesOk
    PeerDrops = TRUE
    MaxPeerHellos = 1
    MaxConnects = 1
    MaxQueue = 1
SPECIFICATION Spec
CHECK_DEADLOCK FALSE
INVARIANT ReconnectScheduled
