SPECIFICATION Spec
CONSTANTS
    d1 = d1
    d2 = d2
    Devices <- MCDevices
    AllowRejoins = FALSE
    JoinTimeout = 2
    MaxKeys = 1
    MaxAppKeys = 0
    MaxInputs = 2
    MaxFaults = 0
INVARIANT ProtocolRejectionNotFatal
