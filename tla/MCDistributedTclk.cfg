SPECIFICATION Spec
CONSTANTS
    DeviceKeys = {K1, K2}
    DefaultKey = Default
    NoKey = NoKey
    LegacyKey = Legacy
    Reservation = 2
    LowWater = 1
    MaxCounter = 14
    DistributedSecurity = TRUE
SYMMETRY DeviceKeySymmetry
INVARIANT TclkNonceFresh
