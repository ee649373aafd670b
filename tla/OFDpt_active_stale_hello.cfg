\* After a reconnect the HELLO flags of the old socket are still set.
CONSTANTS
    Active = TRUE
    Xids <- MCOneXid
    PeerVersions <- MCGoodVersion
    FeaturesBodies <- MCFeaturesOk
    PeerDrops = TRUE
    MaxPeerHellos = 1
    MaxConnects = 1
    MaxQueue = 2
SPECIFICATION Spec
CHECK_DEADLOCK FALSE
INVARIANT HelloFirst
