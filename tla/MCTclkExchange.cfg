CONSTANTS
    Keys = {k1, k2}
    Default = dflt
    JoinKey = joinkey
    NoKey = nokey
    MessageAttempts = 2
    AttemptsMax = 3
    StartDelay = 1
    Backoff = 1
    Window = 1
    Margin = 1
    ClockModulus = 14
    ArmTimes <- NearWrap
    MaxLag = 0
    MaxInFlight = 1
    MaxExchanges = 2
SPECIFICATION FairSpec
INVARIANT TypeOK
INVARIANT CommittedKeyConfirmed
INVARIANT SlotOwnedWhileAwaiting
PROPERTY AnsweredVerifyNotResent
PROPERTY ExchangeEnds
CHECK_DEADLOCK FALSE
