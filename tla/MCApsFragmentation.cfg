CONSTANTS
    Originators = {"o1"}
    MaxEntries = 1
    Total <- MCTotal
    WindowSize = 3
    MaxFrameRetries = 3
    DupTimeout = 2
    MaxSends = 2
    MaxFaults = 2
    MaxRestarts = 1
SPECIFICATION FairSpec
INVARIANT ConfirmedIsAccepted
INVARIANT AcceptedIsWhole
INVARIANT AcceptedOnce
PROPERTY EveryRequestConfirmed
PROPERTY SessionsEnd
CHECK_DEADLOCK FALSE
