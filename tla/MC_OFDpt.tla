------------------------------ MODULE MC_OFDpt ------------------------------
(* Model-checking values for OFDpt.                                        *)
EXTENDS OFDpt

\* Two xids: enough for two requests outstanding at once, and for the
\* allocator to hand out an xid that is still in the store.
MCXids == {1, 2}

\* One xid, where the runs do not turn on two outstanding requests.
MCOneXid == {1}

\* The switch may speak OF1.2 or OF1.3.
MCPeerVersions == {"OFP12_VERSION", "OFP13_VERSION"}
MCGoodVersion  == {"OFP12_VERSION"}

MCFeaturesAny  == {"ports_ok", "ports_malformed"}
MCFeaturesOk   == {"ports_ok"}
=============================================================================
