CONSTANTS
    Originators = {"o1"}
    MaxEntries = 1
    Total <- MCTotal
    WindowSize = 3
    MaxFrameRetries = 3
    DupTimeout = 2
    MaxSends = 1
    MaxFaults = 1
    MaxRestarts = 0
SPECIFICATION Spec
INVARIANT LostBlockRecovered
CHECK_DEADLOCK FALSE
