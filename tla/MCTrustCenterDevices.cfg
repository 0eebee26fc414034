SPECIFICATION FairSpec
CONSTANTS
    d1 = d1
    d2 = d2
    Devices <- MCDevices
    AllowRejoins = FALSE
    JoinTimeout = 2
    MaxKeys = 1
    MaxAppKeys = 1
    MaxInputs = 4
    MaxFaults = 1
INVARIANT DeliveryOwned
INVARIANT ReplacementProved
INVARIANT ResetKeepsPolicy
INVARIANT RecordAlwaysValid
PROPERTY TransactionsSettle
