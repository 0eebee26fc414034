SPECIFICATION Spec
CONSTANTS
    Slots = 4
    EntriesPerSlot = 2
    Domains = {d1, d2}
    MaxFloor = 1
    Nets = {n1}
    NoNet = NoNet
    MaxLimit = 1
    MaxGeneration = 3
    None = None
    MaxFaults = 2
    MarginalCommits = FALSE
SYMMETRY DomainSymmetry
INVARIANT CacheMatchesFlash
