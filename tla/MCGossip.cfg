SPECIFICATION Spec
CONSTANTS
    l = l
    c = c
    d = d
    local_peer_id = l
    PeerOrder <- MCPeerOrder
    ClusterPeers <- MCClusterPeers
    CLUSTER_HEARTBEAT_FAILURE = 1
    HEARTBEAT_FAILURE = 2
    EXPIRY_INVISIBILITY_WINDOW = 2
    MaxDelay = 1
INVARIANTS
    ExpiryHides
    ExpiredWasSilent
    ReplicasIndexed
PROPERTIES
    SilentExpires
