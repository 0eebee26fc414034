SPECIFICATION FairSpec
CONSTANTS
    p = p
    q = q
    c = c
    Peers <- MCPeers
    Kids <- MCKids
    Methods <- MCUnicast
    Propagation = 1
    Window = 2
    Cooldown = 1
    Period = 2
    MaxKeys = 1
    MaxInputs = 1
    MaxFaults = 0
PROPERTY StagedKeyResumed
