SPECIFICATION Spec
CONSTANTS
    Slots = 3
    EntriesPerSlot = 2
    Domains = {d1, d2}
    MaxFloor = 1
    Nets = {n1}
    NoNet = NoNet
    MaxLimit = 1
    MaxGeneration = 2
    None = None
    MaxFaults = 2
    MarginalCommits = TRUE
SYMMETRY DomainSymmetry
INVARIANT TypeOK
INVARIANT WritesErasedFlash
INVARIANT CacheIsDurable
INVARIANT ReservationSurvives
PROPERTY RefinesDurableStore
