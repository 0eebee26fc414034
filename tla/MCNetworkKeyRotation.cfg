SPECIFICATION FairSpec
CONSTANTS
    p = p
    q = q
    c = c
    Peers <- MCPeers
    Kids <- MCKids
    Methods <- MCMethods
    Propagation = 1
    Window = 2
    Cooldown = 1
    Period = 2
    MaxKeys = 2
    MaxInputs = 2
    MaxFaults = 3
INVARIANT TypeOK
INVARIANT KeyBehindRecord
INVARIANT OneKeyPerSequence
INVARIANT ActiveIsDurable
INVARIANT SwitchedBeforeUse
INVARIANT FanoutArmed
INVARIANT RoutersServed
PROPERTY WindowBeforeSwitch
PROPERTY RotationEnds
