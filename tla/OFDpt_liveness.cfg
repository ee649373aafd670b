\* A passively accepted cofdpt against an OF1.2 switch that may leave any
\* request unanswered, under the event loop's weak fairness (FairSpec).
CONSTANTS
    Active = FALSE
    Xids <- MCOneXid
    PeerVersions <- MCGoodVersion
    FeaturesBodies <- MCFeaturesOk
    PeerDrops = TRUE
    MaxPeerHellos = 1
    MaxConnects = 0
    MaxQueue = 2
SPECIFICATION FairSpec
PROPERTY HandshakeCompletes
PROPERTY HandshakeStallReported
