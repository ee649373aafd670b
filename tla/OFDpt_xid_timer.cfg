\* Two STATS requests outstanding; the reply to one cancels the timer of both.
CONSTANTS
    Active = FALSE
    Xids <- MCXids
    PeerVersions <- MCGoodVersion
    FeaturesBodies <- MCFeaturesOk
    PeerDrops = TRUE
    MaxPeerHellos = 1
    MaxConnects = 0
    MaxQueue = 2
SPECIFICATION Spec
INVARIANT XidRequestsTimed
